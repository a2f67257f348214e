------------------------------ MODULE MetaDir -------------------------------
(***************************************************************************)
(* The meta directory: subscribers keep a file in it (src/sub_entry.hpp,   *)
(* renewed by the loop of src/sub.cpp), and the daemon scripts/wsbmetad.sh *)
(* backs it up, restores it, and removes the files nobody renews.  Time    *)
(* passes in ticks, so that whole seconds can be told from durations.      *)
(***************************************************************************)
EXTENDS Integers, FiniteSets

CONSTANTS Sub,          \* subscriber processes
          NoSub,        \* not a subscriber
          TicksPerSec,
          Heartbeat,    \* WISSBI_HEARTBEAT_SEC, 60 if not set
          Expiry,       \* the 60 in wsbmetad.sh
          Late          \* ticks a renewal may come late

ASSUME MetaDirAssumption ==
  /\ NoSub \notin Sub
  /\ TicksPerSec \in Nat \ {0}
  /\ Heartbeat \in Nat /\ Expiry \in Nat /\ Late \in Nat

VARIABLES
  proc, wait,     \* subscribers: their state; ticks since they renewed
  file, secs,     \* entries; difference of the clock's whole seconds to atime
  phase,          \* ticks since the clock's last whole second
  dir,            \* the meta directory is not empty
  backup, saved,  \* entries in the backup directory; it is not empty
  dpc, todo,      \* wsbmetad: where it is, entries of the for loop to come
  victim          \* the entry it is about to rm

subVars == <<proc, wait>>
dirVars == <<file, secs, dir>>
wsbmetadVars == <<backup, saved, dpc, todo, victim>>
vars    == <<subVars, dirVars, phase, wsbmetadVars>>

Deadline == Heartbeat * TicksPerSec + Late

TypeOK ==
  /\ proc \in [Sub -> {"off", "live", "gone"}]
  /\ wait \in [Sub -> 0..Deadline]
  /\ file \in [Sub -> BOOLEAN] /\ secs \in [Sub -> 0..(Expiry + 1)]
  /\ phase \in 0..(TicksPerSec - 1) /\ dir \in BOOLEAN /\ saved \in BOOLEAN
  /\ backup \subseteq Sub /\ todo \subseteq Sub /\ victim \in Sub \cup {NoSub}
  /\ dpc \in {"start", "backup", "copy", "find", "stat", "rm", "dead"}

Init ==
  /\ proc = [s \in Sub |-> "off"] /\ wait = [s \in Sub |-> 0]
  /\ file = [s \in Sub |-> FALSE] /\ secs = [s \in Sub |-> 0]
  /\ phase = 0 /\ dir = TRUE
  /\ backup = {} /\ saved = FALSE /\ dpc = "dead" /\ todo = {} /\ victim = NoSub

-----------------------------------------------------------------------------
(* Subscribers.                                                            *)

\* Mutant: the entry is opened without O_CREAT.
TouchOnly(s) ==
  /\ UNCHANGED file
  /\ secs' = [secs EXCEPT ![s] = 0]
  /\ wait' = [wait EXCEPT ![s] = 0]
  /\ UNCHANGED <<phase, dir, wsbmetadVars>>

\* renew_: the file is made if it is missing, and its times are set to now.
Touch(s) ==
  /\ file' = [file EXCEPT ![s] = TRUE]
  /\ secs' = [secs EXCEPT ![s] = 0]
  /\ wait' = [wait EXCEPT ![s] = 0]
  /\ UNCHANGED <<phase, dir, wsbmetadVars>>

Start(s) ==
  /\ proc[s] = "off" /\ dir
  /\ proc' = [proc EXCEPT ![s] = "live"]
  /\ Touch(s)

\* After heartbeat_millis, or earlier when a publisher connects.
Renew(s) == proc[s] = "live" /\ dir /\ Touch(s) /\ UNCHANGED proc

\* open fails, the exception ends the process, the entry is not unlinked.
RenewThrows(s) ==
  /\ proc[s] = "live" /\ ~dir
  /\ proc' = [proc EXCEPT ![s] = "gone"]
  /\ UNCHANGED <<wait, dirVars, phase, wsbmetadVars>>

\* SIGTERM: ~SubEntry unlinks the entry.
Leave(s) ==
  /\ proc[s] = "live"
  /\ proc' = [proc EXCEPT ![s] = "gone"]
  /\ file' = [file EXCEPT ![s] = FALSE]
  /\ UNCHANGED <<wait, secs, phase, dir, wsbmetadVars>>

\* SIGKILL, or the machine fails.
Crash(s) ==
  /\ proc[s] = "live"
  /\ proc' = [proc EXCEPT ![s] = "gone"]
  /\ UNCHANGED <<wait, dirVars, phase, wsbmetadVars>>

-----------------------------------------------------------------------------
(* Time, and what may happen to the directory.                             *)

Least(i, j) == IF i < j THEN i ELSE j

\* A live subscriber renews before it is Late by more than allowed.
Tick ==
  /\ \A s \in Sub : proc[s] = "live" => wait[s] < Deadline
  /\ phase' = (phase + 1) % TicksPerSec
  /\ wait' = [s \in Sub |-> IF proc[s] = "live" THEN wait[s] + 1 ELSE wait[s]]
  /\ secs' = IF phase' # 0 THEN secs
             ELSE [s \in Sub |-> IF file[s] THEN Least(secs[s] + 1, Expiry + 1)
                                 ELSE secs[s]]
  /\ UNCHANGED <<proc, file, dir, wsbmetadVars>>

\* The contents of the meta directory are lost.
Wipe ==
  /\ dir /\ dir' = FALSE
  /\ file' = [s \in Sub |-> FALSE]
  /\ UNCHANGED <<subVars, secs, phase, wsbmetadVars>>

-----------------------------------------------------------------------------
(* wsbmetad.sh.  Under errexit a command that fails ends it.               *)

DaemonGoes(from, to) ==
  /\ dpc = from /\ dpc' = to
  /\ UNCHANGED <<subVars, dirVars, phase, backup, saved, todo, victim>>

\* wsbmetad start, and stop at any moment.
ServiceStart == DaemonGoes("dead", "start")
ServiceStop  == dpc # "dead" /\ DaemonGoes(dpc, "dead")

\* An empty meta directory is restored; rsync sets the times to now.  It fails
\* when nothing was ever backed up.
Restore ==
  /\ dpc = "start"
  /\ dpc' = IF dir \/ saved THEN "backup" ELSE "dead"
  /\ IF dir \/ ~saved THEN UNCHANGED dirVars
     ELSE /\ dir' = TRUE
          /\ file' = [s \in Sub |-> s \in backup]
          /\ secs' = [s \in Sub |-> IF s \in backup THEN 0 ELSE secs[s]]
  /\ UNCHANGED <<subVars, phase, backup, saved, todo, victim>>

\* rsync --delete to the backup lists what there is to copy, and fails when
\* that is nothing.
Backup ==
  /\ dpc = "backup"
  /\ dpc' = IF dir THEN "copy" ELSE "dead"
  /\ todo' = {s \in Sub : file[s]}
  /\ UNCHANGED <<subVars, dirVars, phase, backup, saved, victim>>

\* It also fails when something of the list has vanished before it is copied.
Copy ==
  /\ dpc = "copy"
  /\ backup' = {s \in todo : file[s]} /\ saved' = TRUE
  /\ dpc' = IF backup' = todo THEN "find" ELSE "dead"
  /\ UNCHANGED <<subVars, dirVars, phase, todo, victim>>

\* Mutant: the pattern of grep matches no entry.
FindNothing ==
  /\ dpc = "find" /\ dpc' = "stat"
  /\ todo' = {}
  /\ UNCHANGED <<subVars, dirVars, phase, backup, saved, victim>>

Find ==
  /\ dpc = "find" /\ dpc' = "stat"
  /\ todo' = {s \in Sub : file[s]}
  /\ UNCHANGED <<subVars, dirVars, phase, backup, saved, victim>>

\* Mutant: -ge instead of -gt.
TooOldAtExpiry(s) == ~file[s] \/ secs[s] >= Expiry

\* stat fails for an entry that has gone meanwhile, and its age counts from 0,
\* that is from 1970.
TooOld(s) == ~file[s] \/ secs[s] > Expiry

Stat(s) ==
  /\ dpc = "stat" /\ s \in todo
  /\ todo' = todo \ {s}
  /\ IF TooOld(s) THEN dpc' = "rm" /\ victim' = s
     ELSE UNCHANGED <<dpc, victim>>
  /\ UNCHANGED <<subVars, dirVars, phase, backup, saved>>

\* rm fails when the entry has gone.
Rm ==
  /\ dpc = "rm"
  /\ file' = [file EXCEPT ![victim] = FALSE]
  /\ dpc' = IF file[victim] THEN "stat" ELSE "dead"
  /\ victim' = NoSub
  /\ UNCHANGED <<subVars, secs, phase, dir, backup, saved, todo>>

\* sleep 1, and the next round.
Sleep == todo = {} /\ DaemonGoes("stat", "backup")

-----------------------------------------------------------------------------
DaemonRuns ==
  Restore \/ Backup \/ Copy \/ Find \/ Rm \/ Sleep \/ \E s \in Sub : Stat(s)

SubRuns(s) == Renew(s) \/ RenewThrows(s)

\* Nobody stops the daemon and the directory is not lost.
QuietNext ==
  \/ Tick \/ ServiceStart \/ DaemonRuns
  \/ \E s \in Sub : Start(s) \/ SubRuns(s) \/ Leave(s) \/ Crash(s)

Next == QuietNext \/ ServiceStop \/ Wipe

Spec == Init /\ [][Next]_vars

\* Time passes, the daemon runs while it has not ended, and a subscriber
\* renews when it is time.  Nothing restarts the daemon.
Fairness ==
  /\ WF_vars(Tick) /\ WF_vars(DaemonRuns) /\ \A s \in Sub : WF_vars(SubRuns(s))

FairSpec  == Spec /\ Fairness
QuietSpec == Init /\ [][QuietNext]_vars /\ Fairness

-----------------------------------------------------------------------------
(* Properties.                                                             *)

\* wsbmetad finds the entry of a live subscriber too old (wsbmetad.sh:21) only
\* if it was not renewed for longer than Expiry seconds, however the renewal
\* and the look fall in their seconds: no entry goes sooner by the rounding.
\* With the defaults, where the heartbeat (sub.cpp:70) is as long as Expiry,
\* that takes a renewal that comes late.
LiveEntryKept ==
  [][\A s \in Sub : dpc = "stat" /\ dpc' = "rm" /\ victim' = s /\ proc[s] = "live" /\ file[s]
                      => wait[s] > Expiry * TicksPerSec]_vars

\* wsbmetad does not remove the entry of a live subscriber.
NeverRemoved ==
  [][\A s \in Sub : dpc = "rm" /\ victim = s /\ proc[s] = "live"
                      => ~(file[s] /\ ~file'[s] /\ dir')]_vars

\* The entry of a subscriber that has gone is removed, if wsbmetad lives.
DeadEntryGoes ==
  \A s \in Sub : proc[s] = "gone" /\ file[s] ~> ~file[s] \/ dpc = "dead"

\* The entry of a subscriber that has gone is removed, once wsbmetad was
\* started and if nobody stops it (wsbmetad_test.sh:14).
DeadEntryRemoved ==
  \A s \in Sub : dpc # "dead" /\ proc[s] = "gone" /\ file[s] ~> ~file[s]

\* A live subscriber is listed again, also after the directory was lost and
\* restored from a backup that did not have its entry.
LiveListed ==
  \A s \in Sub : proc[s] = "live" /\ dir ~> file[s] \/ proc[s] # "live" \/ ~dir
=============================================================================
