----------------------------- MODULE ToolProofs -----------------------------
(***************************************************************************)
(* Proofs about the programs beside wissbi-pub and wissbi-sub, for all     *)
(* constants: the meta directory and its daemon, the filter daemons, the   *)
(* recorder, and the log tools.                                            *)
(***************************************************************************)
EXTENDS MetaDir, FilterDaemon, Recorder, LogTools, TLAPS

\* The time the provers may take at a step that names none of them.
USE SMTT(30), ZenonT(30)

-----------------------------------------------------------------------------
(* Arithmetic of the clock.                                                *)

\* The clock advances by a tick, or starts its next second.
LEMMA NextPhase ==
  ASSUME NEW T \in Nat \ {0}, NEW p \in 0..(T - 1)
  PROVE  /\ (p + 1) % T \in 0..(T - 1)
         /\ (p + 1) % T = IF p = T - 1 THEN 0 ELSE p + 1
<1>1. CASE p = T - 1
  BY <1>1
<1>2. CASE p # T - 1
  BY <1>2
<1> QED BY Zenon, <1>1, <1>2

\* Within the second of a renewal the age is less than a second.
LEMMA Renewed ==
  ASSUME NEW T \in Nat \ {0}, NEW p \in 0..(T - 1), NEW a, NEW w, a = 0, w = 0
  PROVE  a * T + p <= w + T - 1
<1>1. a * T = 0 /\ p \in Int /\ p <= T - 1
  OBVIOUS
<1>2. a * T + p = p /\ w + T - 1 = T - 1
  BY <1>1
<1> QED BY Zenon, <1>1, <1>2

\* One second more is TicksPerSec ticks more.
LEMMA OneMore ==
  ASSUME NEW T \in Nat, NEW k \in Nat
  PROVE  (k + 1) * T = k * T + T /\ k * T \in Nat
OBVIOUS

\* More seconds are at least TicksPerSec ticks more.
LEMMA Longer ==
  ASSUME NEW T \in Nat, NEW k \in Nat, NEW n \in Nat, k > n
  PROVE  k * T >= n * T + T
<1>1. PICK d \in Nat : k = n + 1 + d
  <2>1. k - n - 1 \in Nat /\ k = n + 1 + (k - n - 1)
    OBVIOUS
  <2> QED BY Zenon, <2>1
<1>2. k * T = n * T + T + d * T
  BY <1>1
<1>3. d * T \in Nat /\ n * T \in Nat
  OBVIOUS
<1> QED BY <1>2, <1>3

-----------------------------------------------------------------------------
(* The inductive invariant.                                                *)

\* The age wsbmetad computes from whole seconds runs ahead of the time since
\* the last renewal by less than a second.
AgeInv ==
  \A s \in Sub : proc[s] = "live" =>
    secs[s] * TicksPerSec + phase <= wait[s] + TicksPerSec - 1

\* A process that was not started yet has left no trace.
OffInv ==
  \A s \in Sub : proc[s] = "off" =>
    ~file[s] /\ s \notin backup /\ s \notin todo /\ victim # s

\* A live subscriber renews within the limit of wsbmetad.
InTime == Deadline <= Expiry * TicksPerSec

\* The entries of live subscribers that the for loop has still to look at are
\* there, unless the directory was lost; and so, if they are renewed in time,
\* are not the ones it removes.
LoopInv ==
  /\ dpc \in {"stat", "rm"} =>
       \A s \in todo : proc[s] = "live" => file[s] \/ ~dir
  /\ dpc = "rm" => victim \in Sub /\ victim \notin todo
  /\ dpc = "rm" => (InTime /\ proc[victim] = "live" => ~dir)

IInv == TypeOK /\ AgeInv /\ OffInv /\ LoopInv

\* The daemon changes what it has to do and who its victim is, and keeps the
\* ages: the clock and the subscribers stay.
LEMMA AgeKept ==
  ASSUME AgeInv, UNCHANGED <<proc, wait, secs, phase>>
  PROVE  AgeInv'
BY Zenon DEF AgeInv

\* A renewal sets the age to 0 and makes the entry.
LEMMA TouchKeeps ==
  ASSUME IInv, NEW s \in Sub, Touch(s), dir,
         proc' = proc \/ (proc[s] = "off" /\ proc' = [proc EXCEPT ![s] = "live"]),
         proc'[s] = "live"
  PROVE  IInv'
<1> USE MetaDirAssumption
<1>1. \A u \in Sub : /\ file'[u] = (IF u = s THEN TRUE ELSE file[u])
                     /\ secs'[u] = (IF u = s THEN 0 ELSE secs[u])
                     /\ wait'[u] = (IF u = s THEN 0 ELSE wait[u])
                     /\ u # s => proc'[u] = proc[u]
  BY Zenon DEF Touch, IInv, TypeOK
<1>2. UNCHANGED <<phase, dir, backup, saved, dpc, todo, victim>>
  BY Zenon DEF Touch, wsbmetadVars
<1>3. TypeOK'
  <2>1. Deadline \in Nat
    BY DEF Deadline
  <2>2. wait' \in [Sub -> 0..Deadline] /\ secs' \in [Sub -> 0..(Expiry + 1)]
    BY <2>1 DEF Touch, IInv, TypeOK
  <2>3. proc' \in [Sub -> {"off", "live", "gone"}] /\ file' \in [Sub -> BOOLEAN]
    BY Zenon DEF Touch, IInv, TypeOK
  <2> QED BY Zenon, <1>2, <2>2, <2>3 DEF IInv, TypeOK
<1>4. AgeInv'
  <2> SUFFICES ASSUME NEW u \in Sub, proc'[u] = "live"
               PROVE  secs'[u] * TicksPerSec + phase' <= wait'[u] + TicksPerSec - 1
    BY Zenon DEF AgeInv
  <2>1. CASE u = s
    <3>1. secs'[u] = 0 /\ wait'[u] = 0 /\ phase' \in 0..(TicksPerSec - 1)
      BY Zenon, <1>1, <1>2, <2>1 DEF IInv, TypeOK
    <3> QED BY Zenon, <3>1, Renewed
  <2>2. CASE u # s
    BY Zenon, <1>1, <1>2, <2>2 DEF IInv, AgeInv
  <2> QED BY Zenon, <2>1, <2>2
<1>5. OffInv'
  BY Zenon, <1>1, <1>2 DEF IInv, OffInv
<1>6. LoopInv'
  <2>1. dpc = "rm" => victim \in Sub /\ victim \notin todo
    BY Zenon DEF IInv, LoopInv
  <2>2. dpc = "rm" => (InTime /\ proc'[victim] = "live" => ~dir)
    <3>1. CASE victim = s
      BY Zenon, <3>1 DEF IInv, LoopInv, OffInv
    <3>2. CASE victim # s
      BY Zenon, <1>1, <2>1, <3>2 DEF IInv, LoopInv
    <3> QED BY Zenon, <3>1, <3>2
  <2>3. dpc \in {"stat", "rm"} => \A u \in todo : proc'[u] = "live" => file'[u] \/ ~dir
    BY Zenon, <1>1 DEF IInv, TypeOK, LoopInv
  <2> QED BY Zenon, <1>2, <2>1, <2>2, <2>3 DEF LoopInv
<1> QED BY Zenon, <1>3, <1>4, <1>5, <1>6 DEF IInv

\* A subscriber goes; its entry may stay or go with it.
LEMMA GoneKeeps ==
  ASSUME IInv, NEW s \in Sub, proc[s] = "live",
         proc' = [proc EXCEPT ![s] = "gone"],
         file' = file \/ file' = [file EXCEPT ![s] = FALSE],
         UNCHANGED <<wait, secs, phase, dir, wsbmetadVars>>
  PROVE  IInv'
<1>1. \A u \in Sub : /\ proc'[u] = (IF u = s THEN "gone" ELSE proc[u])
                     /\ u # s => file'[u] = file[u]
  BY Zenon DEF IInv, TypeOK
<1>2. UNCHANGED <<phase, dir, secs, wait, backup, saved, dpc, todo, victim>>
  BY Zenon DEF wsbmetadVars
<1>3. TypeOK'
  BY Zenon, <1>2 DEF IInv, TypeOK
<1>4. AgeInv'
  BY Zenon, <1>1, <1>2 DEF IInv, AgeInv
<1>5. OffInv'
  BY <1>1, <1>2 DEF IInv, OffInv
<1>6. LoopInv'
  BY <1>1, <1>2 DEF IInv, TypeOK, LoopInv
<1> QED BY Zenon, <1>3, <1>4, <1>5, <1>6 DEF IInv

\* Time passes: the age may gain a second only together with a tick.
LEMMA TickKeeps ==
  ASSUME IInv, Tick
  PROVE  IInv'
<1> USE MetaDirAssumption
<1>1. UNCHANGED <<proc, file, dir, backup, saved, dpc, todo, victim>>
  BY Zenon DEF Tick, wsbmetadVars
<1>2. /\ phase \in 0..(TicksPerSec - 1) /\ phase' \in 0..(TicksPerSec - 1)
      /\ phase' = IF phase = TicksPerSec - 1 THEN 0 ELSE phase + 1
  BY Zenon, NextPhase DEF Tick, IInv, TypeOK
<1>3. ASSUME NEW s \in Sub
      PROVE  /\ wait[s] \in 0..Deadline /\ secs[s] \in 0..(Expiry + 1)
             /\ wait'[s] = IF proc[s] = "live" THEN wait[s] + 1 ELSE wait[s]
             /\ proc[s] = "live" => wait[s] < Deadline
             /\ phase' # 0 => secs'[s] = secs[s]
             /\ secs'[s] = secs[s] \/ (secs'[s] = secs[s] + 1 /\ secs[s] < Expiry + 1)
                  \/ (secs'[s] = Expiry + 1 /\ secs'[s] <= secs[s] + 1)
  BY <1>3 DEF Tick, Least, IInv, TypeOK
<1>4. Deadline \in Nat
  BY DEF Deadline
<1>5. TypeOK'
  <2>1. wait' \in [Sub -> 0..Deadline]
    BY <1>3, <1>4 DEF Tick, IInv, TypeOK
  <2>2. secs' \in [Sub -> 0..(Expiry + 1)]
    <3>1. CASE phase' # 0
      BY Zenon, <3>1 DEF Tick, IInv, TypeOK
    <3>2. CASE phase' = 0
      BY <3>2, <1>3 DEF Tick, Least, IInv, TypeOK
    <3> QED BY Zenon, <3>1, <3>2
  <2> QED BY Zenon, <1>1, <1>2, <2>1, <2>2 DEF IInv, TypeOK
<1>6. AgeInv'
  <2> SUFFICES ASSUME NEW s \in Sub, proc[s] = "live"
               PROVE  secs'[s] * TicksPerSec + phase' <= wait'[s] + TicksPerSec - 1
    BY Zenon, <1>1 DEF AgeInv
  <2>1. secs[s] * TicksPerSec + phase <= wait[s] + TicksPerSec - 1
    BY Zenon DEF IInv, AgeInv
  <2>2. /\ secs[s] \in Nat /\ wait[s] \in Nat /\ wait'[s] = wait[s] + 1
        /\ secs[s] * TicksPerSec \in Nat
        /\ (secs[s] + 1) * TicksPerSec = secs[s] * TicksPerSec + TicksPerSec
    <3>1. secs[s] \in Nat /\ wait[s] \in Nat /\ wait'[s] = wait[s] + 1
      BY <1>3, <1>4
    <3> QED BY Zenon, <3>1, OneMore
  <2>3. CASE phase' # 0
    <3>1. secs'[s] = secs[s] /\ phase' = phase + 1
      BY Zenon, <1>2, <1>3, <2>3
    <3> QED BY <1>2, <2>1, <2>2, <3>1
  <2>4. CASE phase' = 0
    <3>1. phase = TicksPerSec - 1
      BY <1>2, <2>4
    <3>2. secs'[s] = secs[s] \/ secs'[s] = secs[s] + 1
      BY <1>3, <2>2
    <3> QED BY <2>1, <2>2, <2>4, <3>1, <3>2
  <2> QED BY Zenon, <2>3, <2>4
<1>7. OffInv' /\ LoopInv'
  BY Zenon, <1>1 DEF IInv, OffInv, LoopInv
<1> QED BY Zenon, <1>5, <1>6, <1>7 DEF IInv

\* The directory is lost.
LEMMA WipeKeeps ==
  ASSUME IInv, Wipe
  PROVE  IInv'
<1>1. UNCHANGED <<proc, wait, secs, phase, backup, saved, dpc, todo, victim>>
  BY Zenon DEF Wipe, subVars, wsbmetadVars
<1>2. dir' = FALSE /\ file' \in [Sub -> BOOLEAN] /\ \A s \in Sub : ~file'[s]
  BY Zenon DEF Wipe
<1>3. TypeOK'
  BY Zenon, <1>1, <1>2 DEF IInv, TypeOK
<1>4. AgeInv'
  BY Zenon, <1>1, AgeKept DEF IInv
<1>5. OffInv' /\ LoopInv'
  BY Zenon, <1>1, <1>2 DEF IInv, OffInv, LoopInv
<1> QED BY Zenon, <1>3, <1>4, <1>5 DEF IInv

\* wsbmetad goes on elsewhere, and not into its loop.
LEMMA GoesKeeps ==
  ASSUME IInv, NEW to \in {"start", "backup", "copy", "find", "dead"},
         dpc' = to, UNCHANGED <<subVars, dirVars, phase, backup, saved, victim>>,
         todo' \subseteq Sub, \A s \in todo' : s \in todo \/ file[s]
  PROVE  IInv'
<1>1. UNCHANGED <<proc, wait, file, secs, dir, phase, backup, saved, victim>>
  BY Zenon DEF subVars, dirVars
<1>2. TypeOK'
  BY Zenon, <1>1 DEF IInv, TypeOK
<1>3. AgeInv'
  BY Zenon, <1>1, AgeKept DEF IInv
<1>4. OffInv'
  BY Zenon, <1>1 DEF IInv, OffInv
<1>5. LoopInv'
  BY Zenon DEF LoopInv
<1> QED BY Zenon, <1>2, <1>3, <1>4, <1>5 DEF IInv

\* The directory comes back with the entries of the backup, all renewed.
LEMMA RestoreKeeps ==
  ASSUME IInv, Restore
  PROVE  IInv'
<1> USE MetaDirAssumption
<1>1. UNCHANGED <<proc, wait, phase, backup, saved, todo, victim>> /\ dpc' \in {"backup", "dead"}
  BY Zenon DEF Restore, subVars
<1>2. CASE dir \/ ~saved
  BY Zenon, <1>1, <1>2, GoesKeeps DEF Restore, IInv, TypeOK
<1>3. CASE ~(dir \/ ~saved)
  <2>1. /\ dir' = TRUE /\ file' = [s \in Sub |-> s \in backup]
        /\ secs' = [s \in Sub |-> IF s \in backup THEN 0 ELSE secs[s]]
    BY Zenon, <1>3 DEF Restore
  <2>2. TypeOK'
    <3>1. file' \in [Sub -> BOOLEAN] /\ secs' \in [Sub -> 0..(Expiry + 1)]
      BY <2>1 DEF IInv, TypeOK
    <3> QED BY Zenon, <1>1, <2>1, <3>1 DEF IInv, TypeOK
  <2>3. AgeInv'
    <3> SUFFICES ASSUME NEW s \in Sub, proc[s] = "live"
                 PROVE  secs'[s] * TicksPerSec + phase <= wait[s] + TicksPerSec - 1
      BY Zenon, <1>1 DEF AgeInv
    <3>1. CASE s \notin backup
      BY Zenon, <2>1, <3>1 DEF IInv, AgeInv
    <3>2. CASE s \in backup
      <4>1. secs'[s] = 0 /\ phase \in 0..(TicksPerSec - 1) /\ wait[s] \in Nat
        BY <2>1, <3>2 DEF IInv, TypeOK, Deadline
      <4>2. secs'[s] * TicksPerSec + phase <= 0 + TicksPerSec - 1
        BY Zenon, <4>1, Renewed
      <4>3. 0 + TicksPerSec - 1 <= wait[s] + TicksPerSec - 1
        BY <4>1
      <4>4. secs'[s] * TicksPerSec + phase \in Int
        BY <4>1
      <4> QED BY <4>1, <4>2, <4>3, <4>4
    <3> QED BY Zenon, <3>1, <3>2
  <2>4. OffInv'
    BY Zenon, <1>1, <2>1 DEF IInv, OffInv
  <2>5. LoopInv'
    BY Zenon, <1>1 DEF LoopInv
  <2> QED BY Zenon, <2>2, <2>3, <2>4, <2>5 DEF IInv
<1> QED BY Zenon, <1>2, <1>3

\* What is copied to the backup are entries.
LEMMA CopyKeeps ==
  ASSUME IInv, Copy
  PROVE  IInv'
<1>1. UNCHANGED <<proc, wait, file, secs, dir, phase, todo, victim>> /\ dpc' \in {"find", "dead"}
  BY Zenon DEF Copy, subVars, dirVars
<1>2. backup' = {s \in todo : file[s]} /\ saved' = TRUE
  BY Zenon DEF Copy
<1>3. TypeOK'
  BY Zenon, <1>1, <1>2 DEF IInv, TypeOK
<1>4. AgeInv'
  BY Zenon, <1>1, AgeKept DEF IInv
<1>5. OffInv' /\ LoopInv'
  BY Zenon, <1>1, <1>2 DEF IInv, OffInv, LoopInv
<1> QED BY Zenon, <1>3, <1>4, <1>5 DEF IInv

\* The loop starts with the entries there are.
LEMMA FindKeeps ==
  ASSUME IInv, Find
  PROVE  IInv'
<1>1. UNCHANGED <<proc, wait, file, secs, dir, phase, backup, saved, victim>> /\ dpc' = "stat"
  BY Zenon DEF Find, subVars, dirVars
<1>2. todo' = {s \in Sub : file[s]}
  BY Zenon DEF Find
<1>3. TypeOK'
  BY Zenon, <1>1, <1>2 DEF IInv, TypeOK
<1>4. AgeInv'
  BY Zenon, <1>1, AgeKept DEF IInv
<1>5. OffInv' /\ LoopInv'
  BY Zenon, <1>1, <1>2 DEF IInv, OffInv, LoopInv
<1> QED BY Zenon, <1>3, <1>4, <1>5 DEF IInv

\* An entry of a live subscriber that looks too old is not there, or was not
\* renewed for longer than the limit.
LEMMA OldIsOld ==
  ASSUME IInv, NEW s \in Sub, proc[s] = "live", TooOld(s), file[s]
  PROVE  wait[s] > Expiry * TicksPerSec
<1> USE MetaDirAssumption
<1>1. secs[s] > Expiry
  BY Zenon DEF TooOld
<1>2. secs[s] \in Nat /\ phase \in Nat /\ wait[s] \in Nat
  BY DEF IInv, TypeOK
<1>3. secs[s] * TicksPerSec >= Expiry * TicksPerSec + TicksPerSec
  BY Zenon, <1>1, <1>2, Longer
<1>4. secs[s] * TicksPerSec + phase <= wait[s] + TicksPerSec - 1
  BY Zenon DEF IInv, AgeInv
<1>5. secs[s] * TicksPerSec \in Nat /\ Expiry * TicksPerSec \in Nat
  BY Zenon, <1>2, OneMore
<1> QED BY <1>2, <1>3, <1>4, <1>5

\* It is not there if renewals come in time.
LEMMA NotTooOld ==
  ASSUME IInv, InTime, NEW s \in Sub, proc[s] = "live", TooOld(s)
  PROVE  ~file[s]
<1>1. wait[s] \in 0..Deadline /\ Deadline \in Nat /\ Expiry * TicksPerSec \in Nat
  BY MetaDirAssumption DEF IInv, TypeOK, Deadline
<1>2. ~(wait[s] > Expiry * TicksPerSec)
  BY <1>1 DEF InTime
<1> QED BY Zenon, <1>2, OldIsOld

\* So the loop then picks the entry of a live subscriber only if the directory
\* was lost.
LEMMA StatKeeps ==
  ASSUME IInv, NEW s \in Sub, Stat(s)
  PROVE  IInv'
<1>1. /\ UNCHANGED <<proc, wait, file, secs, dir, phase, backup, saved>>
      /\ dpc = "stat" /\ s \in todo /\ todo' = todo \ {s}
  BY Zenon DEF Stat, subVars, dirVars
<1>2. AgeInv'
  BY Zenon, <1>1, AgeKept DEF IInv
<1>3. CASE TooOld(s)
  <2>1. dpc' = "rm" /\ victim' = s
    BY Zenon, <1>3 DEF Stat
  <2>2. InTime /\ proc[s] = "live" => ~dir
    BY Zenon, <1>1, <1>3, NotTooOld DEF IInv, LoopInv
  <2>3. TypeOK'
    BY Zenon, <1>1, <2>1 DEF IInv, TypeOK
  <2>4. OffInv'
    BY Zenon, <1>1, <2>1 DEF IInv, OffInv
  <2>5. LoopInv'
    BY Zenon, <1>1, <2>1, <2>2 DEF IInv, LoopInv
  <2> QED BY Zenon, <1>2, <2>3, <2>4, <2>5 DEF IInv
<1>4. CASE ~TooOld(s)
  <2>1. dpc' = "stat" /\ victim' = victim
    BY Zenon, <1>1, <1>4 DEF Stat
  <2>2. TypeOK'
    BY Zenon, <1>1, <2>1 DEF IInv, TypeOK
  <2>3. OffInv' /\ LoopInv'
    BY Zenon, <1>1, <2>1 DEF IInv, OffInv, LoopInv
  <2> QED BY Zenon, <1>2, <2>2, <2>3 DEF IInv
<1> QED BY Zenon, <1>3, <1>4

\* The entry that is removed is not one the loop has still to look at.
LEMMA RmKeeps ==
  ASSUME IInv, Rm
  PROVE  IInv'
<1>1. /\ UNCHANGED <<proc, wait, secs, dir, phase, backup, saved, todo>>
      /\ dpc = "rm" /\ dpc' \in {"stat", "dead"} /\ victim' = NoSub
      /\ victim \in Sub /\ victim \notin todo
  BY Zenon DEF Rm, subVars, IInv, LoopInv
<1>2. /\ file' \in [Sub -> BOOLEAN]
      /\ \A s \in Sub : file'[s] = IF s = victim THEN FALSE ELSE file[s]
  BY Zenon, <1>1 DEF Rm, IInv, TypeOK
<1>3. TypeOK'
  BY Zenon, <1>1, <1>2 DEF IInv, TypeOK
<1>4. AgeInv'
  BY Zenon, <1>1, AgeKept DEF IInv
<1>5. OffInv'
  BY Zenon, <1>1, <1>2, MetaDirAssumption DEF IInv, OffInv
<1>6. LoopInv'
  BY Zenon, <1>1, <1>2 DEF IInv, TypeOK, LoopInv
<1> QED BY Zenon, <1>3, <1>4, <1>5, <1>6 DEF IInv

\* Starting, stopping, sleeping and listing for the backup keep the invariant.
LEMMA DaemonKeeps ==
  ASSUME IInv, ServiceStart \/ ServiceStop \/ Sleep \/ Backup
  PROVE  IInv'
<1>1. CASE Backup
  <2>1. todo' \subseteq Sub /\ \A s \in todo' : file[s]
    BY Zenon, <1>1 DEF Backup
  <2>2. dpc' \in {"copy", "dead"} /\ UNCHANGED <<subVars, dirVars, phase, backup, saved, victim>>
    BY Zenon, <1>1 DEF Backup
  <2> QED BY Zenon, <2>1, <2>2, GoesKeeps
<1>2. CASE ServiceStart \/ ServiceStop \/ Sleep
  <2>1. /\ dpc' \in {"start", "dead", "backup"} /\ todo' = todo
        /\ UNCHANGED <<subVars, dirVars, phase, backup, saved, victim>>
    BY Zenon, <1>2 DEF ServiceStart, ServiceStop, Sleep, DaemonGoes
  <2>2. todo' \subseteq Sub
    BY Zenon, <2>1 DEF IInv, TypeOK
  <2> QED BY Zenon, <2>1, <2>2, GoesKeeps
<1> QED BY Zenon, <1>1, <1>2

\* The invariant is kept by every step of the subscribers, the clock, the
\* directory and wsbmetad.
LEMMA StepKeeps ==
  ASSUME IInv, [Next]_vars
  PROVE  IInv'
<1>1. CASE UNCHANGED vars
  BY Zenon, <1>1 DEF vars, subVars, dirVars, wsbmetadVars, IInv, TypeOK, AgeInv, OffInv, LoopInv
<1>2. CASE Tick
  BY Zenon, <1>2, TickKeeps
<1>3. CASE Wipe
  BY Zenon, <1>3, WipeKeeps
<1>4. CASE ServiceStart \/ ServiceStop \/ Sleep \/ Backup
  BY Zenon, <1>4, DaemonKeeps
<1>5. CASE Restore \/ Copy \/ Find \/ Rm
  BY Zenon, <1>5, RestoreKeeps, CopyKeeps, FindKeeps, RmKeeps
<1>6. ASSUME NEW s \in Sub, Stat(s) PROVE IInv'
  BY Zenon, <1>6, StatKeeps
<1>7. ASSUME NEW s \in Sub, Start(s) PROVE IInv'
  <2>1. proc'[s] = "live"
    BY Zenon, <1>7 DEF Start, IInv, TypeOK
  <2> QED BY Zenon, <1>7, <2>1, TouchKeeps DEF Start
<1>8. ASSUME NEW s \in Sub, Renew(s) PROVE IInv'
  BY Zenon, <1>8, TouchKeeps DEF Renew
<1>9. ASSUME NEW s \in Sub, RenewThrows(s) \/ Leave(s) \/ Crash(s) PROVE IInv'
  <2>1. /\ proc[s] = "live" /\ proc' = [proc EXCEPT ![s] = "gone"]
        /\ file' = file \/ file' = [file EXCEPT ![s] = FALSE]
        /\ UNCHANGED <<wait, secs, phase, dir, wsbmetadVars>>
    BY Zenon, <1>9 DEF RenewThrows, Leave, Crash, dirVars
  <2> QED BY Zenon, <2>1, GoneKeeps
<1> QED BY Zenon, <1>1, <1>2, <1>3, <1>4, <1>5, <1>6, <1>7, <1>8, <1>9
        DEF Next, QuietNext, DaemonRuns, SubRuns

-----------------------------------------------------------------------------
\* The invariant of the directory holds.
LEMMA Invariance == Spec => []IInv
<1>1. Init => IInv
  <2> SUFFICES ASSUME Init PROVE IInv
    BY Zenon
  <2>1. Deadline \in Nat
    BY MetaDirAssumption DEF Deadline
  <2>2. 0 \in 0..(TicksPerSec - 1) /\ 0 \in 0..(Expiry + 1)
    BY MetaDirAssumption
  <2>3. TypeOK
    <3>1. wait \in [Sub -> 0..Deadline] /\ secs \in [Sub -> 0..(Expiry + 1)]
      BY <2>1, <2>2 DEF Init
    <3>2. proc \in [Sub -> {"off", "live", "gone"}] /\ file \in [Sub -> BOOLEAN]
      BY Zenon DEF Init
    <3> QED BY Zenon, <2>2, <3>1, <3>2 DEF Init, TypeOK
  <2>4. AgeInv /\ OffInv /\ LoopInv
    BY Zenon, MetaDirAssumption DEF Init, AgeInv, OffInv, LoopInv
  <2> QED BY Zenon, <2>3, <2>4 DEF IInv
<1>2. IInv /\ [Next]_vars => IInv'
  BY Zenon, StepKeeps
<1> QED BY <1>1, <1>2, PTL DEF Spec

\* The state of subscribers, directory and wsbmetad stays type correct, also
\* when renewals come too late.
THEOREM TypeCorrect == Spec => []TypeOK
<1>1. IInv => TypeOK
  BY Zenon DEF IInv
<1> QED BY <1>1, Invariance, PTL

\* A step that makes an entry the victim of wsbmetad has found it too old.
LEMMA VictimIsOld ==
  ASSUME IInv, [Next]_vars, NEW s \in Sub, dpc = "stat", dpc' = "rm", victim' = s
  PROVE  TooOld(s)
<1>1. dpc' # dpc
  BY Zenon
<1>2. ~UNCHANGED vars
  BY Zenon, <1>1 DEF vars, wsbmetadVars
<1>3. PICK x \in Sub : Stat(x)
  BY Zenon, <1>1, <1>2 DEF Next, QuietNext, DaemonRuns, SubRuns, Tick, Wipe, ServiceStart, ServiceStop,
     DaemonGoes, Restore, Backup, Copy, Find, Rm, Sleep, Start, Renew, RenewThrows, Leave, Crash, Touch,
     wsbmetadVars
<1>4. TooOld(x) /\ victim' = x
  BY Zenon, <1>1, <1>3 DEF Stat
<1> QED BY Zenon, <1>4

\* wsbmetad finds the entry of a live subscriber too old (wsbmetad.sh:20-21)
\* only if it was not renewed (sub.cpp:70-79) for longer than the limit: for
\* any heartbeat and limit, the defaults included, any number of subscribers,
\* any length of a tick, and whenever the directory is lost or the daemon is
\* stopped and started.
THEOREM LiveKept == Spec => LiveEntryKept
<1>1. IInv /\ [Next]_vars =>
        [\A s \in Sub : dpc = "stat" /\ dpc' = "rm" /\ victim' = s /\ proc[s] = "live" /\ file[s]
                           => wait[s] > Expiry * TicksPerSec]_vars
  BY Zenon, VictimIsOld, OldIsOld
<1> QED BY <1>1, Invariance, PTL DEF Spec, LiveEntryKept

\* wsbmetad removes no entry of a live subscriber (wsbmetad.sh:20-24), if the
\* heartbeat and the lateness of a renewal (sub.cpp:70-79) are together at most
\* the limit.
THEOREM KeptInTime ==
  ASSUME InTime
  PROVE  Spec => NeverRemoved
<1>1. IInv /\ [Next]_vars =>
        [\A s \in Sub : dpc = "rm" /\ victim = s /\ proc[s] = "live"
                           => ~(file[s] /\ ~file'[s] /\ dir')]_vars
  <2> SUFFICES ASSUME IInv, [Next]_vars, NEW s \in Sub,
                      dpc = "rm", victim = s, proc[s] = "live",
                      file[s], ~file'[s], dir'
               PROVE  UNCHANGED vars
    BY Zenon
  <2>1. ~dir
    BY Zenon DEF IInv, LoopInv
  <2>2. CASE UNCHANGED vars
    BY Zenon, <2>2
  <2>3. CASE Next
    <3>1. dir' = dir
      BY Zenon, <2>1, <2>3 DEF Next, QuietNext, DaemonRuns, SubRuns, Tick, Wipe, ServiceStart,
         ServiceStop, DaemonGoes, Restore, Backup, Copy, Find, Stat, Rm, Sleep, Start, Renew,
         RenewThrows, Leave, Crash, Touch, dirVars
    <3> QED BY Zenon, <2>1, <3>1
  <2> QED BY Zenon, <2>2, <2>3
<1> QED BY <1>1, Invariance, PTL DEF Spec, NeverRemoved

\* DaemonTypeOK in its parts: the script, the files, the processes, the extra source.
HeadState == {"none", "opening", "running", "term", "gone"}
TailState == {"none", "opening", "running", "nofilter"} \cup Ended
Lines == 0..MaxLines

ScriptType ==
  /\ pc \in {"idle", "stopped", "kill", "wait"} \cup Starting
  /\ cut \subseteq (0..Count) \X Gen
  /\ op \in {"start", "stop"} /\ i \in 1..Count + 1 /\ gen \in 0..MaxGen
FileType == pidf \in [Inst -> 0..MaxGen] /\ waitf \in [Inst -> 0..MaxGen]
ProcessType ==
  /\ head \in [Inst -> [Gen -> HeadState]] /\ tail \in [Inst -> [Gen -> TailState]]
  /\ wrote \in [Inst -> [Gen -> Lines]] /\ took \in [Inst -> [Gen -> Lines]]
ExtraType ==
  /\ extra \in BOOLEAN /\ xfifo \in BOOLEAN /\ xpidf \in 0..MaxGen
  /\ xproc \in [Gen -> {"none", "running", "term", "gone"}]

Types == ScriptType /\ FileType /\ ProcessType /\ ExtraType

\* A start happens in a generation of its own, which no start was killed in,
\* and there is one left for a start that is stopping first.
GenInv ==
  /\ pc \in Starting => gen >= 1 /\ i <= Count
  /\ pc \in {"kill", "wait"} /\ op = "start" => gen < MaxGen

CutInv == \A j \in 0..Count, g \in Gen :
  <<j, g>> \in cut => g <= gen /\ (pc \in Starting => g # gen)

\* What the loops of stop() have done, and those of start() have not undone:
\* the pid files and the wait files that are gone.
NoPid(j) ==
  \/ pc = "kill" /\ j < i
  \/ pc \in {"wait", "stopped"}
  \/ pc \in {"extra", "xfork", "xpid", "head", "headpid"} /\ j >= i
  \/ pc \in {"tail", "tailpid"} /\ j > i

NoWait(j) ==
  \/ pc = "wait" /\ j < i
  \/ pc = "stopped"
  \/ pc \in Starting /\ j >= i

FileInv == \A j \in Inst : (NoPid(j) => pidf[j] = 0) /\ (NoWait(j) => waitf[j] = 0)

\* The files name the processes that go on; a tail was started before now; and
\* one that ended well did so after its head, with nothing left to take.
Kept(j, g) ==
  /\ InFiles(j, g)
  /\ tail[j][g] # "none" =>
       g <= gen /\ (pc \in Starting /\ g = gen => j < i \/ (j = i /\ pc = "tailpid"))
  /\ tail[j][g] = "gone" => head[j][g] = "gone" /\ took[j][g] = wrote[j][g]

ProcessInv == \A j \in Inst, g \in Gen : Kept(j, g)

\* Only one shell of an extra source is there, and the fifo with it.
Alive(g) == xproc[g] \in {"running", "term"}

ExtraInv ==
  /\ (pc = "xfork" => xfifo) /\ (pc = "xpid" => xpidf = 0)
  /\ \A g \in Gen : ExtraInFile(g) /\ (Alive(g) => xfifo /\ pc # "xfork")
  /\ \A g, h \in Gen : Alive(g) /\ Alive(h) => g = h

DaemonInv == Types /\ GenInv /\ CutInv /\ FileInv /\ ProcessInv /\ ExtraInv

-----------------------------------------------------------------------------
\* The parts make up DaemonTypeOK.
LEMMA TypesOK == Types <=> DaemonTypeOK
  BY Zenon DEF Types, ScriptType, FileType, ProcessType, ExtraType, DaemonTypeOK, HeadState, TailState, Lines

\* Removing the file of one instance leaves those of the others.
LEMMA Removal ==
  ASSUME NEW f \in [Inst -> 0..MaxGen], NEW j \in Inst
  PROVE  /\ [f EXCEPT ![j] = 0] \in [Inst -> 0..MaxGen]
         /\ \A k \in Inst : [f EXCEPT ![j] = 0][k] = IF k = j THEN 0 ELSE f[k]
<1>1. 0 \in 0..MaxGen
  BY DaemonAssumption
<1> QED BY Zenon, <1>1

\* Replacing the state of one process leaves those of the others.
LEMMA Update ==
  ASSUME NEW S, NEW f \in [Inst -> [Gen -> S]], NEW j \in Inst, NEW g \in Gen, NEW x \in S
  PROVE  /\ [f EXCEPT ![j][g] = x] \in [Inst -> [Gen -> S]]
         /\ \A k \in Inst, h \in Gen :
              [f EXCEPT ![j][g] = x][k][h] = IF k = j /\ h = g THEN x ELSE f[k][h]
  BY Zenon

\* Before the first start there are neither files nor processes.
LEMMA InitInv == DaemonInit => DaemonInv
<1> SUFFICES ASSUME DaemonInit PROVE DaemonInv
  BY Zenon
<1>1. ScriptType
  BY DaemonAssumption DEF DaemonInit, ScriptType
<1>2. FileType
  BY DaemonAssumption DEF DaemonInit, FileType
<1>3. ProcessType
  <2>1. ForAll("none") \in [Inst -> [Gen -> HeadState]]
    BY Zenon DEF ForAll, HeadState
  <2>2. ForAll("none") \in [Inst -> [Gen -> TailState]]
    BY Zenon DEF ForAll, TailState
  <2>3. ForAll(0) \in [Inst -> [Gen -> Lines]]
    BY DaemonAssumption DEF ForAll, Lines
  <2> QED BY Zenon, <2>1, <2>2, <2>3 DEF DaemonInit, ProcessType
<1>4. ExtraType
  <2>1. extra \in BOOLEAN /\ xfifo \in BOOLEAN
    BY Zenon DEF DaemonInit
  <2>2. xpidf \in 0..MaxGen
    BY DaemonAssumption DEF DaemonInit
  <2>3. xproc \in [Gen -> {"none", "running", "term", "gone"}]
    BY Zenon DEF DaemonInit
  <2> QED BY Zenon, <2>1, <2>2, <2>3 DEF ExtraType
<1>5. GenInv /\ CutInv /\ FileInv
  BY Zenon DEF DaemonInit, GenInv, CutInv, FileInv, NoPid, NoWait, Starting
<1>6. ProcessInv
  BY Zenon DEF DaemonInit, ProcessInv, Kept, InFiles, ForAll
<1>7. ExtraInv
  BY Zenon DEF DaemonInit, ExtraInv, ExtraInFile, Alive
<1> QED BY Zenon, <1>1, <1>2, <1>3, <1>4, <1>5, <1>6, <1>7 DEF DaemonInv, Types

-----------------------------------------------------------------------------
\* A command that touches neither files nor processes, and was not about to
\* name one, keeps what is said of them.
LEMMA SameProcesses ==
  ASSUME ProcessInv, UNCHANGED <<files, head, tail, flow>>, pc \notin {"headpid", "tailpid"},
         UNCHANGED cut,
         \A g \in Gen : g <= gen =>
           g <= gen' /\ (pc' \in Starting => g # gen' \/ (pc \in Starting /\ gen' = gen /\ i' = i))
  PROVE  ProcessInv'
<1> SUFFICES ASSUME NEW j \in Inst, NEW g \in Gen PROVE Kept(j, g)'
  BY Zenon DEF ProcessInv
<1>1. Kept(j, g)
  BY Zenon DEF ProcessInv
<1>2. InFiles(j, g)'
  BY Zenon, <1>1 DEF Kept, InFiles, Underway, files
<1> QED BY Zenon, <1>1, <1>2 DEF Kept, flow, files

\* Each command of the script keeps the invariant.  First those that touch
\* neither files nor processes.
LEMMA CallStep == ASSUME DaemonInv, NEW c \in {"start", "stop"}, Call(c) PROVE DaemonInv'
<1> USE DaemonAssumption
<1>1. Types'
  BY DEF DaemonInv, Types, ScriptType, FileType, ProcessType, ExtraType, Call, files, flow, xvars
<1>2. GenInv' /\ FileInv'
  BY DEF DaemonInv, Types, ScriptType, GenInv, FileInv, NoPid, NoWait, Starting, Inst, Call, files
<1>3. CutInv' /\ ProcessInv'
  BY Zenon, SameProcesses DEF DaemonInv, CutInv, Starting, Call
<1>4. ExtraInv'
  BY Zenon DEF DaemonInv, ExtraInv, ExtraInFile, Alive, Call, xvars
<1> QED BY Zenon, <1>1, <1>2, <1>3, <1>4 DEF DaemonInv

\* stop() signals the subscriber of the extra source.
LEMMA StopKillExtraStep == ASSUME DaemonInv, StopKillExtra PROVE DaemonInv'
<1> USE DaemonAssumption
<1>1. ScriptType' /\ FileType' /\ ProcessType'
  BY DEF DaemonInv, Types, ScriptType, FileType, ProcessType, StopKillExtra, files, flow
<1>2. ExtraType'
  BY DEF DaemonInv, Types, ExtraType, StopKillExtra, Gen
<1>3. GenInv' /\ FileInv'
  BY DEF DaemonInv, Types, ScriptType, GenInv, FileInv, NoPid, NoWait, Starting, Inst, StopKillExtra, files
<1>4. CutInv' /\ ProcessInv'
  BY Zenon, SameProcesses DEF DaemonInv, CutInv, Starting, StopKillExtra
<1>5. ExtraInv'
  <2>1. xproc \in [Gen -> {"none", "running", "term", "gone"}] /\ ExtraInv
    BY Zenon DEF DaemonInv, Types, ExtraType
  <2>2. pc = "kill" /\ pc' = "wait" /\ UNCHANGED <<gen, cut, xfifo>>
    BY Zenon DEF StopKillExtra
  <2>3. \A g \in Gen : /\ xproc'[g] = "running" => xproc[g] = "running" /\ g # xpidf
                       /\ Alive(g)' => Alive(g)
    <3>1. CASE xproc' = xproc /\ ~(xpidf # 0 /\ xproc[xpidf] = "running")
      BY <3>1 DEF Alive, Gen
    <3>2. CASE xproc' = [xproc EXCEPT ![xpidf] = "term"] /\ xproc[xpidf] = "running"
      BY Zenon, <2>1, <3>2 DEF Alive
    <3> QED BY Zenon, <3>1, <3>2 DEF StopKillExtra
  <2> QED BY Zenon, <2>1, <2>2, <2>3 DEF ExtraInv, ExtraInFile
<1> QED BY Zenon, <1>1, <1>2, <1>3, <1>4, <1>5 DEF DaemonInv, Types

\* stop() is over, and a start goes on with a new generation.
LEMMA StopDoneStep == ASSUME DaemonInv, StopDone PROVE DaemonInv'
<1> USE DaemonAssumption
<1>1. Types'
  BY DEF DaemonInv, Types, ScriptType, FileType, ProcessType, ExtraType, GenInv, Starting, StopDone,
     files, flow, xvars
<1>2. GenInv' /\ FileInv'
  BY DEF DaemonInv, Types, ScriptType, GenInv, FileInv, NoPid, NoWait, Starting, Inst, StopDone, files
<1>3. CutInv'
  BY DEF DaemonInv, Types, ScriptType, CutInv, Starting, Gen, StopDone
<1>4. ProcessInv'
  <2>1. \A g \in Gen : g <= gen => g <= gen' /\ (pc' \in Starting => g # gen')
    BY DEF DaemonInv, Types, ScriptType, Gen, Starting, StopDone
  <2> QED BY Zenon, <2>1, SameProcesses DEF DaemonInv, StopDone
<1>5. ExtraInv'
  BY Zenon DEF DaemonInv, ExtraInv, ExtraInFile, Alive, StopDone, xvars
<1> QED BY Zenon, <1>1, <1>2, <1>3, <1>4, <1>5 DEF DaemonInv

\* start() makes the fifo of the extra source, or ends because it is there.
LEMMA StartExtraStep == ASSUME DaemonInv, StartExtra PROVE DaemonInv'
<1>1. pc = "extra" /\ pc' \in {"head", "idle", "xfork"} /\ (pc' = "xfork" => ~xfifo /\ xfifo')
      /\ (xfifo => xfifo') /\ xfifo' \in BOOLEAN
      /\ UNCHANGED <<op, i, gen, cut, files, head, tail, flow, extra, xproc, xpidf>>
  BY Zenon DEF StartExtra, DaemonInv, Types, ExtraType
<1>2. Types'
  BY Zenon, <1>1 DEF DaemonInv, Types, ScriptType, FileType, ProcessType, ExtraType, Starting, files, flow
<1>3. GenInv' /\ CutInv' /\ FileInv'
  BY Zenon, <1>1 DEF DaemonInv, GenInv, CutInv, FileInv, NoPid, NoWait, Starting, files
<1>4. ProcessInv'
  BY Zenon, <1>1, SameProcesses DEF DaemonInv, Starting
<1>5. ExtraInv'
  BY Zenon, <1>1 DEF DaemonInv, ExtraInv, ExtraInFile, Alive
<1> QED BY Zenon, <1>2, <1>3, <1>4, <1>5 DEF DaemonInv

\* start() runs the shell of the extra source.
LEMMA ForkExtraStep == ASSUME DaemonInv, ForkExtra PROVE DaemonInv'
<1>1. pc = "xfork" /\ pc' = "xpid" /\ xpidf' = 0 /\ xproc' = [xproc EXCEPT ![gen] = "running"]
      /\ UNCHANGED <<op, i, gen, cut, files, head, tail, flow, extra, xfifo>>
  BY Zenon DEF ForkExtra
<1>2. gen \in Gen /\ 0 \in 0..MaxGen
  <2>1. gen \in 0..MaxGen /\ gen >= 1
    BY Zenon, <1>1 DEF DaemonInv, Types, ScriptType, GenInv, Starting
  <2> QED BY ONLY SMTT(30), <2>1, DaemonAssumption DEF Gen
<1>3. Types'
  BY Zenon, <1>1, <1>2 DEF DaemonInv, Types, ScriptType, FileType, ProcessType, ExtraType, Starting,
     files, flow
<1>4. GenInv' /\ CutInv' /\ FileInv'
  BY Zenon, <1>1 DEF DaemonInv, GenInv, CutInv, FileInv, NoPid, NoWait, Starting, files
<1>5. ProcessInv'
  BY Zenon, <1>1, SameProcesses DEF DaemonInv, Starting
<1>6. ExtraInv'
  <2>1. xproc \in [Gen -> {"none", "running", "term", "gone"}] /\ \A g \in Gen : ~Alive(g)
    BY Zenon, <1>1 DEF DaemonInv, Types, ExtraType, ExtraInv
  <2>2. \A g \in Gen : Alive(g)' => g = gen
    BY Zenon, <1>1, <2>1 DEF Alive
  <2>3. xfifo
    BY Zenon, <1>1 DEF DaemonInv, ExtraInv
  <2> QED BY Zenon, <1>1, <2>2, <2>3 DEF ExtraInv, ExtraInFile, Alive
<1> QED BY Zenon, <1>3, <1>4, <1>5, <1>6 DEF DaemonInv

\* start() writes the pid file of that shell.
LEMMA NameExtraStep == ASSUME DaemonInv, NameExtra PROVE DaemonInv'
<1>1. pc = "xpid" /\ pc' = "head" /\ xpidf' = gen
      /\ UNCHANGED <<op, i, gen, cut, files, head, tail, flow, extra, xfifo, xproc>>
  BY Zenon DEF NameExtra
<1>2. Types'
  BY Zenon, <1>1 DEF DaemonInv, Types, ScriptType, FileType, ProcessType, ExtraType, Starting,
     files, flow
<1>3. GenInv' /\ CutInv' /\ FileInv'
  BY Zenon, <1>1 DEF DaemonInv, GenInv, CutInv, FileInv, NoPid, NoWait, Starting, files
<1>4. ProcessInv'
  BY Zenon, <1>1, SameProcesses DEF DaemonInv, Starting
<1>5. ExtraInv'
  <2>1. xpidf = 0 /\ \A g \in Gen : g # 0
    BY <1>1 DEF DaemonInv, ExtraInv, Gen
  <2> QED BY Zenon, <1>1, <2>1 DEF DaemonInv, ExtraInv, ExtraInFile, Alive
<1> QED BY Zenon, <1>2, <1>3, <1>4, <1>5 DEF DaemonInv

\* start() is killed half way: what it was about to name stays without a name.
LEMMA KilledStep == ASSUME DaemonInv, Killed PROVE DaemonInv'
<1>1. pc \in Starting /\ pc' = "idle" /\ UNCHANGED <<op, i, gen, files, head, tail, flow, xvars>>
  BY Zenon DEF Killed
<1>2. i \in 0..Count /\ 0 \in 0..Count /\ gen \in Gen /\ gen <= gen
  <2>1. i \in 1..Count + 1 /\ gen \in 0..MaxGen /\ gen >= 1 /\ i <= Count
    BY Zenon, <1>1 DEF DaemonInv, Types, ScriptType, GenInv
  <2> QED BY ONLY SMTT(30), <2>1, DaemonAssumption DEF Gen
<1>3. PICK x \in 0..Count : /\ cut' \in {cut, cut \cup {<<x, gen>>}}
                            /\ pc = "xpid" => <<0, gen>> \in cut'
                            /\ pc \in {"headpid", "tailpid"} => <<i, gen>> \in cut'
  <2>1. CASE pc = "xpid"
    <3>1. cut' = cut \cup {<<0, gen>>}
      BY Zenon, <2>1 DEF Killed
    <3> QED BY Zenon, <1>2, <2>1, <3>1
  <2>2. CASE pc \in {"headpid", "tailpid"}
    <3>1. cut' = cut \cup {<<i, gen>>}
      BY Zenon, <2>2 DEF Killed
    <3> QED BY Zenon, <1>2, <2>2, <3>1
  <2>3. CASE pc \notin {"xpid", "headpid", "tailpid"}
    <3>1. cut' = cut
      BY Zenon, <2>3 DEF Killed
    <3> QED BY Zenon, <1>2, <2>3, <3>1
  <2> QED BY Zenon, <2>1, <2>2, <2>3
<1>4. cut \subseteq cut'
  BY Zenon, <1>3
<1>5. Types'
  <2>1. cut' \subseteq (0..Count) \X Gen
    <3>1. cut \subseteq (0..Count) \X Gen /\ <<x, gen>> \in (0..Count) \X Gen
      BY <1>2 DEF DaemonInv, Types, ScriptType
    <3> QED BY Zenon, <1>3, <3>1
  <2> QED BY Zenon, <1>1, <2>1 DEF DaemonInv, Types, ScriptType, FileType, ProcessType, ExtraType, files, flow, xvars
<1>6. GenInv' /\ FileInv'
  BY Zenon, <1>1 DEF DaemonInv, GenInv, FileInv, NoPid, NoWait, Starting, files
<1>7. CutInv'
  <2>1. \A j \in 0..Count, g \in Gen : <<j, g>> \in cut' => <<j, g>> \in cut \/ g = gen
    BY <1>3
  <2> QED BY Zenon, <1>1, <1>2, <2>1 DEF DaemonInv, CutInv, Starting
<1>8. ProcessInv'
  <2> SUFFICES ASSUME NEW j \in Inst, NEW g \in Gen PROVE Kept(j, g)'
    BY Zenon DEF ProcessInv
  <2>1. Kept(j, g) /\ ~(i < i)
    BY DEF DaemonInv, ProcessInv, Types, ScriptType
  <2> QED BY Zenon, <1>1, <1>3, <1>4, <2>1 DEF Kept, InFiles, Underway, Starting, files, flow
<1>9. ExtraInv'
  BY Zenon, <1>1, <1>3, <1>4 DEF DaemonInv, ExtraInv, ExtraInFile, Alive, xvars
<1> QED BY Zenon, <1>5, <1>6, <1>7, <1>8, <1>9 DEF DaemonInv

\* A process that is told to end is no longer one that goes on.
LEMMA SignalledEnds ==
  ASSUME NEW h \in HeadState
  PROVE  /\ Signalled(h) \in HeadState \ {"opening", "running"}
         /\ h = "gone" => Signalled(h) = "gone"
  BY Zenon DEF HeadState, Signalled

\* stop() signals the head that a pid file names, and removes the file.
LEMMA StopKillStep == ASSUME DaemonInv, StopKill PROVE DaemonInv'
<1> USE DaemonAssumption
<1>1. i \in Inst /\ pidf[i] \in 0..MaxGen
  <2>1. i <= Count /\ i \in 1..Count + 1 /\ pidf \in [Inst -> 0..MaxGen]
    BY Zenon DEF DaemonInv, Types, ScriptType, FileType, StopKill
  <2> QED BY ONLY SMTT(30), <2>1, DaemonAssumption DEF Inst
<1>2. /\ head' \in [Inst -> [Gen -> HeadState]]
      /\ \A j \in Inst, g \in Gen :
           head'[j][g] = IF j = i /\ g = pidf[i] THEN Signalled(head[j][g]) ELSE head[j][g]
  <2>1. CASE pidf[i] = 0
    BY <2>1 DEF DaemonInv, Types, ProcessType, StopKill, Gen
  <2>2. CASE pidf[i] # 0
    <3>1. pidf[i] \in Gen /\ head[i][pidf[i]] \in HeadState
      BY <1>1, <2>2 DEF DaemonInv, Types, ProcessType, Gen
    <3>2. head' = [head EXCEPT ![i][pidf[i]] = Signalled(head[i][pidf[i]])]
      BY Zenon, <2>2, <3>1, <1>1 DEF StopKill, DaemonInv, Types, ProcessType
    <3> QED BY <1>1, <3>1, <3>2, Update, SignalledEnds DEF DaemonInv, Types, ProcessType
  <2> QED BY Zenon, <2>1, <2>2
<1>3. pidf' \in [Inst -> 0..MaxGen] /\ \A j \in Inst : pidf'[j] = IF j = i THEN 0 ELSE pidf[j]
  <2>1. pidf \in [Inst -> 0..MaxGen] /\ pidf' = [pidf EXCEPT ![i] = 0]
    BY Zenon DEF DaemonInv, Types, FileType, StopKill
  <2> QED BY Zenon, <1>1, <2>1, Removal
<1>4. UNCHANGED <<pc, op, gen, cut, waitf, tail, wrote, took, xvars>> /\ i' = i + 1 /\ pc = "kill"
  BY Zenon DEF StopKill, flow
<1>5. Types'
  <2>1. i' \in 1..Count + 1
    BY <1>1, <1>4 DEF Inst
  <2> QED BY Zenon, <1>2, <1>3, <1>4, <2>1
          DEF DaemonInv, Types, ScriptType, FileType, ProcessType, ExtraType, xvars
<1>6. GenInv' /\ FileInv'
  <2>1. GenInv /\ FileInv
    BY Zenon DEF DaemonInv
  <2>2. GenInv'
    BY ONLY SMTT(30), <1>4, <2>1 DEF GenInv, Starting
  <2>3. FileInv'
    BY ONLY SMTT(30), <1>1, <1>3, <1>4, <2>1, DaemonAssumption DEF FileInv, NoPid, NoWait, Starting, Inst
  <2> QED BY Zenon, <2>2, <2>3
<1>7. CutInv' /\ ExtraInv'
  BY Zenon, <1>4 DEF DaemonInv, CutInv, ExtraInv, ExtraInFile, Alive, Starting, xvars
<1>8. ProcessInv'
  <2> SUFFICES ASSUME NEW j \in Inst, NEW g \in Gen PROVE Kept(j, g)'
    BY Zenon DEF ProcessInv
  <2>1. Kept(j, g) /\ head[j][g] \in HeadState
    BY Zenon DEF DaemonInv, ProcessInv, Types, ProcessType
  <2>2. \/ head'[j][g] = head[j][g] /\ (pidf[j] = g => pidf'[j] = g)
        \/ head'[j][g] \notin {"opening", "running"} /\ (head[j][g] = "gone" => head'[j][g] = "gone")
    <3>1. CASE j = i /\ g = pidf[i]
      BY Zenon, <1>2, <2>1, <3>1, SignalledEnds
    <3>2. CASE ~(j = i /\ g = pidf[i])
      BY Zenon, <1>2, <1>3, <3>2
    <3> QED BY Zenon, <3>1, <3>2
  <2> QED BY Zenon, <1>4, <2>1, <2>2 DEF Kept, InFiles, Underway, Starting
<1> QED BY Zenon, <1>5, <1>6, <1>8, <1>7 DEF DaemonInv

\* stop() has waited for the tail that a wait file names.
LEMMA StopWaitStep == ASSUME DaemonInv, StopWait PROVE DaemonInv'
<1> USE DaemonAssumption
<1>1. i \in Inst /\ pc = "wait"
  <2>1. pc = "wait" /\ i <= Count /\ i \in 1..Count + 1
    BY Zenon DEF DaemonInv, Types, ScriptType, StopWait
  <2> QED BY ONLY SMTT(30), <2>1, DaemonAssumption DEF Inst
<1>2. waitf' \in [Inst -> 0..MaxGen] /\ \A j \in Inst : waitf'[j] = IF j = i THEN 0 ELSE waitf[j]
  <2>1. waitf \in [Inst -> 0..MaxGen] /\ waitf' = [waitf EXCEPT ![i] = 0]
    BY ZenonT(30) DEF DaemonInv, Types, FileType, StopWait
  <2> QED BY Zenon, <1>1, <2>1, Removal
<1>3. UNCHANGED <<pc, op, gen, cut, pidf, head, tail, wrote, took, xvars>> /\ i' = i + 1
  BY Zenon DEF StopWait, flow
<1>4. waitf[i] # 0 => tail[i][waitf[i]] \in Ended
  BY Zenon DEF StopWait
<1>5. Types'
  <2>1. i' \in 1..Count + 1
    BY <1>1, <1>3 DEF Inst
  <2> QED BY Zenon, <1>2, <1>3, <2>1
          DEF DaemonInv, Types, ScriptType, FileType, ProcessType, ExtraType, xvars
<1>6. GenInv' /\ FileInv'
  BY <1>1, <1>2, <1>3 DEF DaemonInv, GenInv, FileInv, NoPid, NoWait, Starting, Inst
<1>7. ProcessInv'
  <2> SUFFICES ASSUME NEW j \in Inst, NEW g \in Gen PROVE Kept(j, g)'
    BY Zenon DEF ProcessInv
  <2>1. Kept(j, g) /\ g # 0
    BY DEF DaemonInv, ProcessInv, Gen
  <2> QED BY Zenon, <1>1, <1>2, <1>3, <1>4, <2>1 DEF Kept, InFiles, Underway, Starting, Ended
<1>8. CutInv' /\ ExtraInv'
  BY Zenon, <1>1, <1>3 DEF DaemonInv, CutInv, ExtraInv, ExtraInFile, Alive, Starting, xvars
<1> QED BY Zenon, <1>5, <1>6, <1>7, <1>8 DEF DaemonInv

\* start() is at an instance and in a generation.
LEMMA Place ==
  ASSUME DaemonInv, pc \in Starting
  PROVE  gen \in Gen /\ i \in Inst /\ i \in 0..Count
<1>1. i \in 1..Count + 1 /\ gen \in 0..MaxGen /\ gen >= 1 /\ i <= Count
  BY Zenon DEF DaemonInv, Types, ScriptType, GenInv
<1> QED BY ONLY SMTT(30), <1>1, DaemonAssumption DEF Gen, Inst

\* start() runs the head of an instance.
LEMMA StartHeadStep == ASSUME DaemonInv, StartHead PROVE DaemonInv'
<1>1. gen \in Gen /\ i \in Inst /\ pc = "head" /\ pc' = "headpid"
  BY Zenon, Place DEF Starting, StartHead
<1>2. UNCHANGED <<op, i, gen, cut, files, tail, wrote, took, xvars>>
  BY Zenon DEF StartHead, flow
<1>3. /\ head' \in [Inst -> [Gen -> HeadState]]
      /\ \A j \in Inst, g \in Gen :
           head'[j][g] = IF j = i /\ g = gen THEN "opening" ELSE head[j][g]
  BY <1>1, Update DEF DaemonInv, Types, ProcessType, HeadState, StartHead
<1>4. Types'
  BY Zenon, <1>1, <1>2, <1>3 DEF DaemonInv, Types, ScriptType, FileType, ProcessType, ExtraType, Starting,
     files, xvars
<1>5. GenInv' /\ CutInv' /\ FileInv'
  BY Zenon, <1>1, <1>2 DEF DaemonInv, GenInv, CutInv, FileInv, NoPid, NoWait, Starting, files
<1>6. ProcessInv'
  <2> SUFFICES ASSUME NEW j \in Inst, NEW g \in Gen PROVE Kept(j, g)'
    BY Zenon DEF ProcessInv
  <2>1. Kept(j, g) /\ ~(i < i)
    BY DEF DaemonInv, ProcessInv, Types, ScriptType
  <2>2. InFiles(j, g)'
    BY Zenon, <1>1, <1>2, <1>3, <2>1 DEF Kept, InFiles, Underway, files
  <2> QED BY Zenon, <1>1, <1>2, <1>3, <2>1, <2>2 DEF Kept, Starting
<1>7. ExtraInv'
  BY Zenon, <1>1, <1>2 DEF DaemonInv, ExtraInv, ExtraInFile, Alive, xvars
<1> QED BY Zenon, <1>4, <1>5, <1>6, <1>7 DEF DaemonInv

\* start() writes the pid file of that head; it names no other.
LEMMA NameHeadStep == ASSUME DaemonInv, NameHead PROVE DaemonInv'
<1>1. gen \in Gen /\ i \in Inst /\ pc = "headpid" /\ pc' = "tail"
  BY Zenon, Place DEF Starting, NameHead
<1>2. UNCHANGED <<op, i, gen, cut, waitf, head, tail, wrote, took, xvars>>
  BY Zenon DEF NameHead, flow
<1>3. pidf' \in [Inst -> 0..MaxGen] /\ \A j \in Inst : pidf'[j] = IF j = i THEN gen ELSE pidf[j]
  BY <1>1 DEF DaemonInv, Types, FileType, NameHead, Gen
<1>4. Types'
  BY Zenon, <1>1, <1>2, <1>3 DEF DaemonInv, Types, ScriptType, FileType, ProcessType, ExtraType, Starting, xvars
<1>5. GenInv' /\ CutInv'
  BY Zenon, <1>1, <1>2 DEF DaemonInv, GenInv, CutInv, Starting
<1>6. FileInv'
  BY <1>1, <1>2, <1>3 DEF DaemonInv, FileInv, NoPid, NoWait, Starting, Inst
<1>7. ProcessInv'
  <2> SUFFICES ASSUME NEW j \in Inst, NEW g \in Gen PROVE Kept(j, g)'
    BY Zenon DEF ProcessInv
  <2>1. Kept(j, g) /\ g # 0 /\ pidf[i] = 0
    BY <1>1 DEF DaemonInv, ProcessInv, FileInv, NoPid, Gen, Inst
  <2>2. InFiles(j, g)'
    BY Zenon, <1>1, <1>2, <1>3, <2>1 DEF Kept, InFiles, Underway
  <2> QED BY Zenon, <1>1, <1>2, <2>1, <2>2 DEF Kept, Starting
<1>8. ExtraInv'
  BY Zenon, <1>1, <1>2 DEF DaemonInv, ExtraInv, ExtraInFile, Alive, xvars
<1> QED BY Zenon, <1>4, <1>5, <1>6, <1>7, <1>8 DEF DaemonInv

\* start() runs the tail of an instance.
LEMMA StartTailStep == ASSUME DaemonInv, StartTail PROVE DaemonInv'
<1>1. gen \in Gen /\ i \in Inst /\ i \in 0..Count /\ pc = "tail" /\ pc' = "tailpid"
  BY Zenon, Place DEF Starting, StartTail
<1>2. UNCHANGED <<op, i, gen, cut, files, head, wrote, took, xvars>>
  BY Zenon DEF StartTail, flow
<1>3. /\ tail' \in [Inst -> [Gen -> TailState]]
      /\ \A j \in Inst, g \in Gen :
           tail'[j][g] = IF j = i /\ g = gen THEN "opening" ELSE tail[j][g]
  BY <1>1, Update DEF DaemonInv, Types, ProcessType, TailState, StartTail
<1>4. Types'
  BY Zenon, <1>1, <1>2, <1>3 DEF DaemonInv, Types, ScriptType, FileType, ProcessType, ExtraType, Starting,
     files, xvars
<1>5. GenInv' /\ CutInv' /\ FileInv'
  BY Zenon, <1>1, <1>2 DEF DaemonInv, GenInv, CutInv, FileInv, NoPid, NoWait, Starting, files
<1>6. ProcessInv'
  <2> SUFFICES ASSUME NEW j \in Inst, NEW g \in Gen PROVE Kept(j, g)'
    BY Zenon DEF ProcessInv
  <2>1. Kept(j, g) /\ <<i, gen>> \notin cut
    BY Zenon, <1>1 DEF DaemonInv, ProcessInv, CutInv, Starting
  <2>2. gen <= gen
    BY <1>1 DEF Gen
  <2>3. InFiles(j, g)'
    BY Zenon, <1>1, <1>2, <1>3, <2>1 DEF Kept, InFiles, Underway, files
  <2> QED BY Zenon, <1>1, <1>2, <1>3, <2>1, <2>2, <2>3 DEF Kept, Starting
<1>7. ExtraInv'
  BY Zenon, <1>1, <1>2 DEF DaemonInv, ExtraInv, ExtraInFile, Alive, xvars
<1> QED BY Zenon, <1>4, <1>5, <1>6, <1>7 DEF DaemonInv

\* start() writes the wait file of that tail, and goes to the next instance or ends.
LEMMA NameTailStep == ASSUME DaemonInv, NameTail PROVE DaemonInv'
<1>1. gen \in Gen /\ i \in Inst /\ pc = "tailpid"
  BY Zenon, Place DEF Starting, NameTail
<1>2. UNCHANGED <<op, gen, cut, pidf, head, tail, wrote, took, xvars>>
  BY Zenon DEF NameTail, flow
<1>3. waitf' \in [Inst -> 0..MaxGen] /\ \A j \in Inst : waitf'[j] = IF j = i THEN gen ELSE waitf[j]
  BY <1>1 DEF DaemonInv, Types, FileType, NameTail, Gen
<1>4. IF i = Count THEN pc' = "idle" /\ i' = i ELSE pc' = "extra" /\ i' = i + 1
  BY Zenon DEF NameTail
<1>5. Types'
  <2>1. ScriptType'
    BY <1>1, <1>2, <1>4, DaemonAssumption DEF DaemonInv, Types, ScriptType, Starting, Inst
  <2>2. FileType' /\ ProcessType' /\ ExtraType'
    BY Zenon, <1>2, <1>3 DEF DaemonInv, Types, FileType, ProcessType, ExtraType, xvars
  <2> QED BY Zenon, <2>1, <2>2 DEF Types
<1>6. GenInv' /\ FileInv'
  BY <1>1, <1>2, <1>3, <1>4, DaemonAssumption DEF DaemonInv, GenInv, FileInv, NoPid, NoWait, Starting, Inst
<1>7. CutInv' /\ ExtraInv'
  BY Zenon, <1>1, <1>2, <1>4 DEF DaemonInv, CutInv, ExtraInv, ExtraInFile, Alive, Starting, xvars
<1>8. ProcessInv'
  <2> SUFFICES ASSUME NEW j \in Inst, NEW g \in Gen PROVE Kept(j, g)'
    BY Zenon DEF ProcessInv
  <2>1. Kept(j, g) /\ g # 0 /\ waitf[i] = 0
    BY <1>1, DaemonAssumption DEF DaemonInv, ProcessInv, FileInv, NoWait, Starting, Gen, Inst
  <2>2. InFiles(j, g)'
    BY Zenon, <1>1, <1>2, <1>3, <1>4, <2>1 DEF Kept, InFiles, Underway
  <2>3. pc' = "extra" /\ (j < i \/ j = i) => j < i'
    BY <1>1, <1>4, DaemonAssumption DEF Inst
  <2> QED BY Zenon, <1>1, <1>2, <1>4, <2>1, <2>2, <2>3 DEF Kept, Starting
<1> QED BY Zenon, <1>5, <1>6, <1>7, <1>8 DEF DaemonInv

-----------------------------------------------------------------------------
\* So does a step of one process of one generation, which the script does not
\* see, if it keeps what is said of that process.
LEMMA OneProcess ==
  ASSUME DaemonInv, NEW j \in Inst, NEW g \in Gen, UNCHANGED <<script, files, xvars>>, ProcessType',
         \A k \in Inst, h \in Gen : k # j \/ h # g =>
           /\ head'[k][h] = head[k][h] /\ tail'[k][h] = tail[k][h]
           /\ wrote'[k][h] = wrote[k][h] /\ took'[k][h] = took[k][h],
         Kept(j, g)'
  PROVE  DaemonInv'
<1>1. Types'
  BY ZenonT(30) DEF DaemonInv, Types, ScriptType, FileType, ExtraType, script, files, xvars
<1>2. GenInv' /\ FileInv'
  BY Zenon DEF DaemonInv, GenInv, FileInv, NoPid, NoWait, script, files
<1>3. CutInv' /\ ExtraInv'
  BY Zenon DEF DaemonInv, CutInv, ExtraInv, ExtraInFile, Alive, script, xvars
<1>4. ProcessInv'
  <2> SUFFICES ASSUME NEW k \in Inst, NEW h \in Gen, k # j \/ h # g PROVE Kept(k, h)'
    BY Zenon DEF ProcessInv
  <2>1. Kept(k, h)
    BY Zenon DEF DaemonInv, ProcessInv
  <2>2. /\ head'[k][h] = head[k][h] /\ tail'[k][h] = tail[k][h]
        /\ wrote'[k][h] = wrote[k][h] /\ took'[k][h] = took[k][h]
    BY Zenon
  <2>3. UNCHANGED <<pc, i, gen, cut, pidf, waitf>>
    BY Zenon DEF script, files
  <2> QED BY ONLY Zenon, <2>1, <2>2, <2>3 DEF Kept, InFiles, Underway
<1> QED BY Zenon, <1>1, <1>2, <1>4, <1>3 DEF DaemonInv

\* A head or a tail opens the fifo, moves a line, or ends.
LEMMA ProcessStep == ASSUME DaemonInv, NEW j \in Inst, NEW g \in Gen, Process(j, g) PROVE DaemonInv'
<1> USE DaemonAssumption
<1>a. /\ head \in [Inst -> [Gen -> HeadState]] /\ tail \in [Inst -> [Gen -> TailState]]
      /\ wrote \in [Inst -> [Gen -> Lines]] /\ took \in [Inst -> [Gen -> Lines]]
  BY Zenon DEF DaemonInv, Types, ProcessType
<1>b. /\ wrote[j][g] \in Lines /\ took[j][g] \in Lines /\ Kept(j, g)
  BY Zenon, <1>a DEF DaemonInv, ProcessInv
<1>c. UNCHANGED <<script, files, xvars>>
  BY Zenon DEF Process, Opens, Prints, HeadEnds, Takes, FilterDies, TailEnds
<1> DEFINE HeadTo(x) == head' = [head EXCEPT ![j][g] = x]
           TailTo(x) == tail' = [tail EXCEPT ![j][g] = x]
<1>d. ASSUME NEW x \in HeadState, HeadTo(x)
      PROVE /\ head' \in [Inst -> [Gen -> HeadState]]
            /\ \A k \in Inst, h \in Gen : head'[k][h] = IF k = j /\ h = g THEN x ELSE head[k][h]
  BY ONLY SMTT(30), <1>a, <1>d, j \in Inst, g \in Gen, Update
<1>e. ASSUME NEW x \in TailState, TailTo(x)
      PROVE /\ tail' \in [Inst -> [Gen -> TailState]]
            /\ \A k \in Inst, h \in Gen : tail'[k][h] = IF k = j /\ h = g THEN x ELSE tail[k][h]
  BY ONLY SMTT(30), <1>a, <1>e, j \in Inst, g \in Gen, Update
<1>f. ASSUME NEW x \in Lines, wrote' = [wrote EXCEPT ![j][g] = x]
      PROVE /\ wrote' \in [Inst -> [Gen -> Lines]]
            /\ \A k \in Inst, h \in Gen : wrote'[k][h] = IF k = j /\ h = g THEN x ELSE wrote[k][h]
  BY ONLY SMTT(30), <1>a, <1>f, j \in Inst, g \in Gen, Update
<1>g. ASSUME NEW x \in Lines, took' = [took EXCEPT ![j][g] = x]
      PROVE /\ took' \in [Inst -> [Gen -> Lines]]
            /\ \A k \in Inst, h \in Gen : took'[k][h] = IF k = j /\ h = g THEN x ELSE took[k][h]
  <2>1. took \in [Inst -> [Gen -> Lines]]
    BY Zenon, <1>a
  <2> QED BY ONLY SMTT(30), <1>g, <2>1, j \in Inst, g \in Gen, Update
<1>1. CASE Opens(j, g)
  <2>1. HeadTo("running") /\ TailTo("running") /\ UNCHANGED <<wrote, took>>
        /\ head[j][g] = "opening" /\ tail[j][g] = "opening"
    BY Zenon, <1>1 DEF Opens, HeadGoes, TailGoes, flow
  <2> HIDE DEF HeadTo, TailTo
  <2>2. /\ head' \in [Inst -> [Gen -> HeadState]]
        /\ \A k \in Inst, h \in Gen : head'[k][h] = IF k = j /\ h = g THEN "running" ELSE head[k][h]
    BY Zenon, <2>1, <1>d DEF HeadState
  <2>3. /\ tail' \in [Inst -> [Gen -> TailState]]
        /\ \A k \in Inst, h \in Gen : tail'[k][h] = IF k = j /\ h = g THEN "running" ELSE tail[k][h]
    BY Zenon, <2>1, <1>e DEF TailState
  <2>4. Kept(j, g)'
    <3>1. ~(j < j)
      BY DEF Inst
    <3>2. pidf[j] = g
      BY Zenon, <1>b, <2>1, <3>1 DEF Kept, InFiles, Underway, Starting
    <3> QED BY Zenon, <1>b, <1>c, <2>1, <2>2, <2>3, <3>2 DEF Kept, InFiles, Underway, script, files
  <2>5. ProcessType'
    BY Zenon, <1>a, <2>1, <2>2, <2>3 DEF ProcessType
  <2>6. \A k \in Inst, h \in Gen : k # j \/ h # g =>
          /\ head'[k][h] = head[k][h] /\ tail'[k][h] = tail[k][h]
          /\ wrote'[k][h] = wrote[k][h] /\ took'[k][h] = took[k][h]
    BY Zenon, <2>1, <2>2, <2>3
  <2> QED BY Zenon, <1>c, <2>4, <2>5, <2>6, OneProcess
<1>2. CASE Prints(j, g)
  <2>1. UNCHANGED <<tail, took>> /\ head[j][g] \in {"running", "term"} /\ wrote[j][g] < MaxLines
    BY Zenon, <1>2 DEF Prints
  <2>2. CASE tail[j][g] \in Ended
    <3>1. HeadTo("gone") /\ UNCHANGED wrote
      BY Zenon, <1>2, <2>2 DEF Prints, HeadGoes
    <3> HIDE DEF HeadTo, TailTo
    <3>2. /\ head' \in [Inst -> [Gen -> HeadState]]
          /\ \A k \in Inst, h \in Gen : head'[k][h] = IF k = j /\ h = g THEN "gone" ELSE head[k][h]
      BY Zenon, <3>1, <1>d DEF HeadState
    <3>3. Kept(j, g)'
      BY Zenon, <1>b, <1>c, <2>1, <3>1, <3>2 DEF Kept, InFiles, Underway, script, files
    <3> QED BY Zenon, <1>a, <1>c, <2>1, <3>1, <3>2, <3>3, OneProcess DEF ProcessType
  <2>3. CASE tail[j][g] \notin Ended
    <3>1. wrote' = [wrote EXCEPT ![j][g] = wrote[j][g] + 1] /\ UNCHANGED head
      BY Zenon, <1>2, <2>3, <1>a DEF Prints
    <3>2. /\ wrote' \in [Inst -> [Gen -> Lines]]
          /\ \A k \in Inst, h \in Gen :
               wrote'[k][h] = IF k = j /\ h = g THEN wrote[j][g] + 1 ELSE wrote[k][h]
      <4>1. wrote[j][g] \in Lines /\ wrote[j][g] < MaxLines
        BY Zenon, <1>b, <2>1
      <4>2. wrote[j][g] + 1 \in Lines
        BY ONLY SMTT(30), <4>1, DaemonAssumption DEF Lines
      <4> QED BY ONLY ZenonT(30), <1>f, <3>1, <4>2
    <3>3. Kept(j, g)'
      BY Zenon, <1>b, <1>c, <2>1, <2>3, <3>1 DEF Kept, InFiles, Underway, Ended, script, files
    <3> QED BY Zenon, <1>a, <1>c, <2>1, <3>1, <3>2, <3>3, OneProcess DEF ProcessType
  <2> QED BY Zenon, <2>2, <2>3
<1>3. CASE HeadEnds(j, g)
  <2>1. HeadTo("gone") /\ UNCHANGED <<tail, wrote, took>>
    BY Zenon, <1>3 DEF HeadEnds, HeadGoes, flow
  <2> HIDE DEF HeadTo, TailTo
  <2>2. /\ head' \in [Inst -> [Gen -> HeadState]]
        /\ \A k \in Inst, h \in Gen : head'[k][h] = IF k = j /\ h = g THEN "gone" ELSE head[k][h]
    BY Zenon, <2>1, <1>d DEF HeadState
  <2>3. Kept(j, g)'
    BY Zenon, <1>b, <1>c, <2>1, <2>2 DEF Kept, InFiles, Underway, script, files
  <2> QED BY Zenon, <1>a, <1>c, <2>1, <2>2, <2>3, OneProcess DEF ProcessType
<1>4. CASE Takes(j, g)
  <2>1. /\ took' = [took EXCEPT ![j][g] = took[j][g] + 1] /\ UNCHANGED <<head, tail, wrote>>
        /\ tail[j][g] = "running" /\ took[j][g] < wrote[j][g]
    BY Zenon, <1>4, <1>a DEF Takes
  <2>2. /\ took' \in [Inst -> [Gen -> Lines]]
        /\ \A k \in Inst, h \in Gen :
             took'[k][h] = IF k = j /\ h = g THEN took[j][g] + 1 ELSE took[k][h]
    <3>1. took[j][g] \in Lines /\ wrote[j][g] \in Lines /\ took[j][g] < wrote[j][g]
      BY ZenonT(30), <1>b, <2>1
    <3>2. took[j][g] + 1 \in Lines
      BY ONLY SMTT(30), <3>1, DaemonAssumption DEF Lines
    <3> QED BY ONLY Zenon, <1>g, <2>1, <3>2
  <2>3. Kept(j, g)'
    BY Zenon, <1>b, <1>c, <2>1 DEF Kept, InFiles, Underway, script, files
  <2> QED BY Zenon, <1>a, <1>c, <2>1, <2>2, <2>3, OneProcess DEF ProcessType
<1>5. CASE FilterDies(j, g)
  <2>1. TailTo("nofilter") /\ UNCHANGED <<head, wrote, took>> /\ tail[j][g] = "running"
    BY Zenon, <1>5 DEF FilterDies, TailGoes, flow
  <2> HIDE DEF HeadTo, TailTo
  <2>2. /\ tail' \in [Inst -> [Gen -> TailState]]
        /\ \A k \in Inst, h \in Gen : tail'[k][h] = IF k = j /\ h = g THEN "nofilter" ELSE tail[k][h]
    BY Zenon, <2>1, <1>e DEF TailState
  <2>3. Kept(j, g)'
    BY Zenon, <1>b, <1>c, <2>1, <2>2 DEF Kept, InFiles, Underway, script, files
  <2> QED BY Zenon, <1>a, <1>c, <2>1, <2>2, <2>3, OneProcess DEF ProcessType
<1>6. CASE TailEnds(j, g)
  <2>1. PICK x \in Ended : /\ TailTo(x) /\ tail[j][g] \in {"running", "nofilter"}
                           /\ x = "gone" => head[j][g] = "gone" /\ took[j][g] = wrote[j][g]
    BY Zenon, <1>6 DEF TailEnds, TailGoes, Ended
  <2>2. UNCHANGED <<head, wrote, took>>
    BY Zenon, <1>6 DEF TailEnds, flow
  <2> HIDE DEF HeadTo, TailTo
  <2>3. /\ tail' \in [Inst -> [Gen -> TailState]]
        /\ \A k \in Inst, h \in Gen : tail'[k][h] = IF k = j /\ h = g THEN x ELSE tail[k][h]
    BY Zenon, <2>1, <1>e DEF TailState
  <2>4. Kept(j, g)'
    BY Zenon, <1>b, <1>c, <2>1, <2>2, <2>3 DEF Kept, InFiles, Underway, Ended, script, files
  <2> QED BY Zenon, <1>a, <1>c, <2>2, <2>3, <2>4, OneProcess DEF ProcessType
<1> QED BY Zenon, <1>1, <1>2, <1>3, <1>4, <1>5, <1>6 DEF Process

\* A step that leaves the script, its files and the processes alone keeps what
\* is said of them.
LEMMA SameScript ==
  ASSUME DaemonInv, UNCHANGED <<script, files, head, tail, flow>>
  PROVE  GenInv' /\ CutInv' /\ FileInv' /\ ProcessInv'
<1>1. GenInv' /\ CutInv' /\ FileInv'
  BY Zenon DEF DaemonInv, GenInv, CutInv, FileInv, NoPid, NoWait, script, files
<1>2. ASSUME NEW j \in Inst, NEW g \in Gen PROVE Kept(j, g)'
  <2>1. Kept(j, g)
    BY Zenon DEF DaemonInv, ProcessInv
  <2> QED BY Zenon, <2>1 DEF Kept, InFiles, Underway, script, files, flow
<1> QED BY Zenon, <1>1, <1>2 DEF ProcessInv

\* The extra source ends, and its fifo goes.
LEMMA ExtraEndsStep == ASSUME DaemonInv, NEW g \in Gen, ExtraEnds(g) PROVE DaemonInv'
<1>1. ExtraType'
  BY Zenon DEF DaemonInv, Types, ExtraType, ExtraEnds
<1>2. ScriptType' /\ FileType' /\ ProcessType'
  BY Zenon DEF DaemonInv, Types, ScriptType, FileType, ProcessType, ExtraEnds, script, files, flow
<1>3. GenInv' /\ CutInv' /\ FileInv' /\ ProcessInv'
  BY Zenon, SameScript DEF ExtraEnds
<1>4. ExtraInv'
  <2>1. xproc \in [Gen -> {"none", "running", "term", "gone"}] /\ ExtraInv
    BY Zenon DEF DaemonInv, Types, ExtraType
  <2>2. Alive(g) /\ xproc' = [xproc EXCEPT ![g] = "gone"] /\ UNCHANGED <<pc, gen, cut, xpidf>>
    BY Zenon DEF ExtraEnds, Alive, script
  <2>3. \A h \in Gen : ~Alive(h)' /\ xproc'[h] # "running"
    BY Zenon, <2>1, <2>2 DEF ExtraInv, Alive
  <2>4. pc # "xfork"
    BY Zenon, <2>1, <2>2 DEF ExtraInv
  <2> QED BY Zenon, <2>1, <2>2, <2>3, <2>4 DEF ExtraInv, ExtraInFile
<1> QED BY Zenon, <1>1, <1>2, <1>3, <1>4 DEF DaemonInv, Types

-----------------------------------------------------------------------------
\* The invariant holds in every state of a daemon.
LEMMA DaemonInvariance == DaemonSpec => []DaemonInv
<1>1. DaemonInv /\ [DaemonNext]_daemonVars => DaemonInv'
  <2> SUFFICES ASSUME DaemonInv, [DaemonNext]_daemonVars PROVE DaemonInv'
    BY Zenon
  <2>1. CASE UNCHANGED daemonVars
    <3>1. UNCHANGED <<script, files, head, tail, flow, xvars>>
      BY Zenon, <2>1 DEF daemonVars
    <3>2. Types'
      BY Zenon, <3>1 DEF DaemonInv, Types, ScriptType, FileType, ProcessType, ExtraType, script, files,
         flow, xvars
    <3>3. ExtraInv'
      BY Zenon, <3>1 DEF DaemonInv, ExtraInv, ExtraInFile, Alive, script, xvars
    <3> QED BY Zenon, <3>1, <3>2, <3>3, SameScript DEF DaemonInv
  <2>2. CASE Stop
    BY Zenon, <2>2, StopKillStep, StopKillExtraStep, StopWaitStep, StopDoneStep DEF Stop
  <2>3. CASE DaemonStart
    BY Zenon, <2>3, StartExtraStep, ForkExtraStep, NameExtraStep, StartHeadStep, NameHeadStep,
       StartTailStep, NameTailStep DEF DaemonStart
  <2>4. CASE DaemonNext /\ ~Stop /\ ~DaemonStart
    BY Zenon, <2>4, CallStep, KilledStep, ProcessStep, ExtraEndsStep DEF DaemonNext
  <2> QED BY Zenon, <2>1, <2>2, <2>3, <2>4
<1> QED BY <1>1, InitInv, PTL DEF DaemonSpec

\* Whatever is started, stopped, restarted or killed, in whatever order, every
\* process that goes on is named by a pid file, so that the next stop ends it;
\* only the one that a killed start had not yet named is left, and a head of
\* that kind does not run.
THEOREM NoneOrphaned == DaemonSpec => []NoOrphans
<1>1. DaemonInv => NoOrphans
  BY Zenon, TypesOK DEF DaemonInv, ProcessInv, Kept, ExtraInv, NoOrphans
<1> QED BY <1>1, DaemonInvariance, PTL

\* When stop() says that the daemon has stopped, no line that a filter could
\* have taken is lost, and no tail is left but one that a killed start had
\* not yet named, whose head was told to end.
THEOREM StopsDrained == DaemonSpec => []StopDrains
<1>1. DaemonInv => StopDrains
  <2> SUFFICES ASSUME DaemonInv, pc = "stopped", NEW j \in Inst, NEW g \in Gen
      PROVE /\ tail[j][g] \in {"none"} \cup Ended \/ (<<j, g>> \in cut /\ head[j][g] # "running")
            /\ tail[j][g] = "gone" => took[j][g] = wrote[j][g]
    BY Zenon DEF StopDrains
  <2>1. waitf[j] = 0 /\ pidf[j] = 0 /\ g # 0
    BY DaemonAssumption DEF DaemonInv, FileInv, NoPid, NoWait, Gen
  <2>2. Kept(j, g) /\ tail[j][g] \in TailState
    BY Zenon DEF DaemonInv, Types, ProcessType, ProcessInv
  <2> QED BY Zenon, <2>1, <2>2 DEF Kept, InFiles, Underway, TailState
<1> QED BY <1>1, DaemonInvariance, PTL

-----------------------------------------------------------------------------
(* Tails of 1, 2, ..., p.                                                  *)

\* s has the last numbers up to p, in order and without a gap.
IsTail(s, p) ==
  /\ s \in Seq(1..MaxIn) /\ Len(s) <= p
  /\ \A j \in 1..Len(s) : s[j] = p - Len(s) + j

\* The elements of a sequence over a set are in the set.
LEMMA Elements ==
  ASSUME NEW S, NEW s \in Seq(S)
  PROVE  Len(s) \in Nat /\ \A j \in 1..Len(s) : s[j] \in S
OBVIOUS

\* What is left when messages at the front go is a tail.
LEMMA DropKeepsTail ==
  ASSUME NEW p \in Nat, NEW s, IsTail(s, p), NEW k \in 0..Len(s)
  PROVE  /\ IsTail(SubSeq(s, k + 1, Len(s)), p)
         /\ Len(SubSeq(s, k + 1, Len(s))) = Len(s) - k
<1>1. Len(s) \in Nat /\ \A j \in 1..Len(s) : s[j] \in 1..MaxIn
  <2>1. s \in Seq(1..MaxIn)
    BY Zenon DEF IsTail
  <2> QED BY Zenon, <2>1, Elements
<1>2. \A j \in (k + 1)..Len(s) : s[j] \in 1..MaxIn
  BY <1>1
<1> DEFINE t == SubSeq(s, k + 1, Len(s))
<1>3. /\ t \in Seq(1..MaxIn)
      /\ Len(t) = IF k + 1 <= Len(s) THEN Len(s) - (k + 1) + 1 ELSE 0
      /\ \A j \in 1..(Len(s) - (k + 1) + 1) : t[j] = s[(k + 1) + j - 1]
  BY <1>1, <1>2
<1> HIDE DEF t
<1>4. Len(t) = Len(s) - k
  BY <1>1, <1>3
<1>5. ASSUME NEW j \in 1..Len(t) PROVE t[j] = p - Len(t) + j
  <2>1. j \in 1..(Len(s) - (k + 1) + 1) /\ k + j \in 1..Len(s) /\ (k + 1) + j - 1 = k + j
    BY <1>1, <1>4
  <2>2. t[j] = s[k + j]
    BY Zenon, <1>3, <2>1
  <2>3. s[k + j] = p - Len(s) + (k + j)
    BY Zenon, <2>1 DEF IsTail
  <2> QED BY <1>1, <1>4, <2>2, <2>3
<1>6. Len(s) <= p
  BY Zenon DEF IsTail
<1>7. Len(t) <= p
  BY <1>1, <1>4, <1>6
<1>8. IsTail(t, p)
  BY Zenon, <1>3, <1>5, <1>7 DEF IsTail
<1> QED BY Zenon, <1>4, <1>8 DEF t

\* So is what is left when pop_front() makes room.
LEMMA TailKeepsTail ==
  ASSUME NEW p \in Nat, NEW s, IsTail(s, p), Len(s) > 0
  PROVE  IsTail(Tail(s), p) /\ Len(Tail(s)) = Len(s) - 1
<1>1. Len(s) \in Nat /\ s # <<>>
  BY DEF IsTail
<1>2. /\ Tail(s) \in Seq(1..MaxIn) /\ Len(Tail(s)) = Len(s) - 1
      /\ \A j \in 1..Len(Tail(s)) : Tail(s)[j] = s[j + 1]
  BY <1>1 DEF IsTail
<1>3. \A j \in 1..Len(Tail(s)) : Tail(s)[j] = p - Len(Tail(s)) + j
  BY <1>1, <1>2 DEF IsTail
<1> QED BY <1>1, <1>2, <1>3 DEF IsTail

\* The next message makes a tail of one more.
LEMMA AppendMakesTail ==
  ASSUME NEW p \in Nat, NEW s, IsTail(s, p), p + 1 \in 1..MaxIn
  PROVE  IsTail(Append(s, p + 1), p + 1) /\ Len(Append(s, p + 1)) = Len(s) + 1
<1>1. Len(s) \in Nat
  BY DEF IsTail
<1> DEFINE t == Append(s, p + 1)
<1>2. /\ t \in Seq(1..MaxIn) /\ Len(t) = Len(s) + 1
      /\ \A j \in 1..Len(s) : t[j] = s[j]
      /\ t[Len(s) + 1] = p + 1
  BY DEF IsTail
<1> HIDE DEF t
<1>3. \A j \in 1..Len(t) : t[j] = (p + 1) - Len(t) + j
  BY <1>1, <1>2 DEF IsTail
<1>4. IsTail(t, p + 1)
  BY <1>1, <1>2, <1>3 DEF IsTail
<1> QED BY Zenon, <1>2, <1>4 DEF t

-----------------------------------------------------------------------------
(* The inductive invariant.                                                *)

\* How many messages the deque has when no time to live shortens it.
Full == IF MaxNum > 0 /\ MaxNum < pushed THEN MaxNum ELSE pushed

\* The main thread has read one line more than it pushed just before it pushes.
ReadInv ==
  /\ mainPc \in {"get", "put"} => nread = pushed
  /\ mainPc \in {"lock", "push"} => nread = pushed + 1
  /\ pushed <= nread

\* The deque is a tail of what was pushed, within the limit, and shorter only
\* with a gc thread; only that thread holds the mutex as gc.
DequeInv ==
  /\ IsTail(mq, pushed) /\ Len(mq) <= Full
  /\ ~useTtl => Len(mq) = Full
  /\ mq_mtx = "gc" => useTtl
  /\ exiter # "gc"

\* What was written is what was in the deque.
DumpInv == dumpPc = "done" => dumped = mq

RecInv == RecTypeOK /\ ReadInv /\ DequeInv /\ DumpInv

\* Steps that leave deque and input alone.
LEMMA SameDeque ==
  ASSUME RecInv, ~Exited, RecTypeOK', UNCHANGED <<useTtl, nread, mq, pushed, dumpPc>>,
         \/ mainPc' = mainPc \/ mainPc' = "exit"
         \/ (mainPc = "put" /\ mainPc' = "get") \/ (mainPc = "lock" /\ mainPc' = "push"),
         mq_mtx' = "gc" => useTtl, exiter' # "gc"
  PROVE  RecInv'
<1>1. ReadInv'
  BY Zenon DEF RecInv, ReadInv
<1>2. DequeInv'
  BY Zenon DEF RecInv, DequeInv, Full
<1>3. DumpInv'
  BY Zenon DEF DumpInv, Exited
<1> QED BY Zenon, <1>1, <1>2, <1>3 DEF RecInv

\* The next message goes in, and one at the front goes out if there is no room.
LEMMA PushKeeps ==
  ASSUME RecInv, Push
  PROVE  RecInv'
<1> USE RecorderAssumption
<1>1. /\ ~Exited /\ mainPc = "push" /\ mainPc' = "put" /\ pushed' = pushed + 1 /\ mq_mtx' = Nobody
      /\ UNCHANGED <<useTtl, nread, blank, exiter, second, dumpPc, dumped>>
  BY Zenon DEF Push, dumpVars
<1>2. nread = pushed + 1 /\ nread \in 1..MaxIn /\ pushed \in Nat /\ Len(mq) \in Nat
  BY <1>1 DEF RecInv, RecTypeOK, ReadInv
<1> DEFINE room == IF MaxNum > 0 /\ Len(mq) = MaxNum THEN Tail(mq) ELSE mq
<1>3. /\ IsTail(room, pushed)
      /\ Len(room) = IF MaxNum > 0 /\ Len(mq) = MaxNum THEN Len(mq) - 1 ELSE Len(mq)
  <2>1. IsTail(mq, pushed)
    BY Zenon DEF RecInv, DequeInv
  <2> QED BY Zenon, <1>2, <2>1, TailKeepsTail
<1>4. mq' = Append(room, pushed + 1)
  BY Zenon, <1>2 DEF Push
<1> HIDE DEF room
<1>5. IsTail(mq', pushed') /\ Len(mq') = Len(room) + 1
  BY Zenon, <1>1, <1>2, <1>3, <1>4, AppendMakesTail
<1>6. Full \in Nat /\ Len(mq) <= Full /\ (~useTtl => Len(mq) = Full)
  BY Zenon, <1>2 DEF RecInv, DequeInv, Full
<1>7. Len(mq') <= Full' /\ (~useTtl => Len(mq') = Full')
  BY <1>1, <1>2, <1>3, <1>5, <1>6 DEF Full
<1>8. DequeInv'
  BY Zenon, <1>1, <1>5, <1>7 DEF RecInv, DequeInv, Nobody
<1>9. ReadInv' /\ DumpInv'
  BY <1>1, <1>2 DEF ReadInv, DumpInv, Exited
<1>10. RecTypeOK'
  <2>1. MaxNum > 0 => Len(mq') <= MaxNum
    BY <1>1, <1>2, <1>7 DEF Full
  <2>2. mq' \in Seq(1..MaxIn)
    BY Zenon, <1>5 DEF IsTail
  <2> QED BY Zenon, <1>1, <1>2, <2>1, <2>2 DEF RecInv, RecTypeOK
<1> QED BY Zenon, <1>8, <1>9, <1>10 DEF RecInv

\* Old messages go out.
LEMMA GcDropKeeps ==
  ASSUME RecInv, GcDrop
  PROVE  RecInv'
<1> USE RecorderAssumption
<1>1. /\ ~Exited /\ mq_mtx = "gc" /\ mq_mtx' = Nobody
      /\ UNCHANGED <<useTtl, mainPc, nread, blank, pushed, exiter, second, dumpPc, dumped>>
  BY Zenon DEF GcDrop, mainVars, dumpVars
<1>2. PICK k \in 0..Len(mq) : mq' = SubSeq(mq, k + 1, Len(mq))
  BY Zenon DEF GcDrop
<1>3. pushed \in Nat /\ Len(mq) \in Nat /\ useTtl /\ IsTail(mq, pushed) /\ Len(mq) <= Full
  BY <1>1 DEF RecInv, RecTypeOK, DequeInv
<1>4. IsTail(mq', pushed) /\ Len(mq') = Len(mq) - k
  BY Zenon, <1>2, <1>3, DropKeepsTail
<1>5. Full' = Full /\ Full \in Nat
  BY Zenon, <1>1, <1>3 DEF Full
<1>6. DequeInv'
  BY <1>1, <1>3, <1>4, <1>5 DEF RecInv, DequeInv, Nobody
<1>7. ReadInv' /\ DumpInv'
  BY Zenon, <1>1 DEF RecInv, ReadInv, DumpInv, Exited
<1>8. RecTypeOK'
  <2>1. MaxNum > 0 => Len(mq') <= MaxNum
    BY <1>3, <1>4 DEF RecInv, RecTypeOK
  <2>2. mq' \in Seq(1..MaxIn)
    BY Zenon, <1>4 DEF IsTail
  <2> QED BY Zenon, <1>1, <2>1, <2>2 DEF RecInv, RecTypeOK
<1> QED BY Zenon, <1>6, <1>7, <1>8 DEF RecInv

\* The next line is read.
LEMMA GetKeeps ==
  ASSUME RecInv, NEW b \in BOOLEAN, Get(b)
  PROVE  RecInv'
<1> USE RecorderAssumption
<1>1. /\ ~Exited /\ mainPc = "get" /\ mainPc' = "lock" /\ nread < MaxIn
      /\ nread' = nread + 1 /\ blank' = b
      /\ UNCHANGED <<useTtl, mq, pushed, mq_mtx, exiter, second, dumpPc, dumped>>
  BY Zenon DEF Get, dumpVars
<1>2. RecTypeOK'
  BY <1>1 DEF RecInv, RecTypeOK
<1>3. ReadInv'
  BY <1>1 DEF RecInv, RecTypeOK, ReadInv
<1>4. DequeInv' /\ DumpInv'
  BY Zenon, <1>1 DEF RecInv, DequeInv, DumpInv, Full, Exited
<1> QED BY Zenon, <1>2, <1>3, <1>4 DEF RecInv

\* Mutex, signals and returns change neither the deque nor the input.
LEMMA ControlKeeps ==
  ASSUME RecInv, Lock \/ Put \/ MainReturns \/ GcLock \/ SigInt \/ SigPipe
  PROVE  RecInv'
<1>1. RecTypeOK'
  <2>1. UNCHANGED <<useTtl, nread, blank, mq, pushed, dumpPc, dumped>>
    BY Zenon DEF Lock, Put, MainReturns, GcLock, SigInt, SigPipe, CallExit, mainVars, dumpVars
  <2>2. mainPc' \in {mainPc, "push", "get", "exit"} /\ mq_mtx' \in {mq_mtx, "main", "gc"}
    BY Zenon DEF Lock, Put, MainReturns, GcLock, SigInt, SigPipe, CallExit, mainVars
  <2>3. exiter' \in {exiter, "main", "flush"} /\ second' \in {second, exiter # Nobody}
    BY Zenon DEF Lock, Put, MainReturns, GcLock, SigInt, SigPipe, CallExit, dumpVars
  <2>4. (exiter # Nobody) \in BOOLEAN
    BY Zenon
  <2>5. second' \in BOOLEAN
    <3> second \in BOOLEAN
      BY Zenon DEF RecInv, RecTypeOK
    <3> QED BY Zenon, <2>3, <2>4
  <2>6. mq_mtx' \in Thread \cup {Nobody} /\ exiter' \in Thread \cup {Nobody}
    <3>1. mq_mtx \in Thread \cup {Nobody} /\ exiter \in Thread \cup {Nobody}
      BY Zenon DEF RecInv, RecTypeOK
    <3> QED BY ONLY SMTT(30), <2>2, <2>3, <3>1 DEF Thread
  <2>7. mainPc' \in {"get", "lock", "push", "put", "exit"}
    <3>1. mainPc \in {"get", "lock", "push", "put", "exit"}
      BY Zenon DEF RecInv, RecTypeOK
    <3> QED BY ONLY SMTT(30), <2>2, <3>1
  <2>8. RecTypeOK
    BY Zenon DEF RecInv
  <2> QED BY ONLY SMTT(30), <2>1, <2>5, <2>6, <2>7, <2>8 DEF RecTypeOK
<1>2. ~Exited /\ UNCHANGED <<useTtl, nread, mq, pushed, dumpPc>>
  BY Zenon DEF Lock, Put, MainReturns, GcLock, SigInt, SigPipe, CallExit, mainVars, dumpVars
<1>3. \/ mainPc' = mainPc \/ mainPc' = "exit"
      \/ (mainPc = "put" /\ mainPc' = "get") \/ (mainPc = "lock" /\ mainPc' = "push")
  BY Zenon DEF Lock, Put, MainReturns, GcLock, SigInt, SigPipe, mainVars
<1>4. mq_mtx' = "gc" => useTtl
  BY Zenon DEF Lock, Put, MainReturns, GcLock, SigInt, SigPipe, CallExit, RecInv, DequeInv
<1>5. exiter' # "gc"
  BY Zenon DEF Lock, Put, MainReturns, GcLock, SigInt, SigPipe, CallExit, dumpVars, RecInv, DequeInv
<1> QED BY Zenon, <1>1, <1>2, <1>3, <1>4, <1>5, SameDeque

\* The dump takes the mutex and writes the deque, or is cut off.
LEMMA DumpKeeps ==
  ASSUME RecInv, DumpLock \/ Dump \/ SecondExit
  PROVE  RecInv'
<1>1. UNCHANGED <<useTtl, mainPc, nread, blank, mq, pushed, exiter, second>>
  BY Zenon DEF DumpLock, Dump, SecondExit, mainVars
<1>2. RecTypeOK'
  BY Zenon, <1>1 DEF DumpLock, Dump, SecondExit, RecInv, RecTypeOK
<1>3. ReadInv'
  BY Zenon, <1>1 DEF RecInv, ReadInv
<1>4. mq_mtx' = "gc" => useTtl
  BY Zenon DEF DumpLock, Dump, SecondExit, RecInv, DequeInv, Nobody
<1>5. DequeInv'
  BY Zenon, <1>1, <1>4 DEF RecInv, DequeInv, Full
<1>6. DumpInv'
  BY Zenon, <1>1 DEF DumpLock, Dump, SecondExit, DumpInv
<1> QED BY Zenon, <1>2, <1>3, <1>5, <1>6 DEF RecInv

-----------------------------------------------------------------------------
\* The invariant holds in every state of the recorder.
LEMMA RecInvariance == RecSpec => []RecInv
<1>1. RecInit => RecInv
  <2> SUFFICES ASSUME RecInit PROVE RecInv
    BY Zenon
  <2>1. mq \in Seq(1..MaxIn) /\ dumped \in Seq(1..MaxIn) /\ Len(mq) = 0
    BY DEF RecInit
  <2>2. RecTypeOK
    <3>1. nread \in 0..MaxIn /\ pushed \in 0..MaxIn /\ (MaxNum > 0 => Len(mq) <= MaxNum)
      BY <2>1, RecorderAssumption DEF RecInit
    <3>2. useTtl \in BOOLEAN /\ blank \in BOOLEAN
      BY Zenon DEF RecInit
    <3> QED BY Zenon, <2>1, <3>1, <3>2 DEF RecInit, RecTypeOK
  <2>3. IsTail(mq, pushed)
    BY <2>1 DEF RecInit, IsTail
  <2>4. DequeInv
    BY <2>1, <2>3, RecorderAssumption DEF RecInit, DequeInv, Full, Nobody
  <2>5. ReadInv /\ DumpInv
    BY DEF RecInit, ReadInv, DumpInv, Exited
  <2> QED BY Zenon, <2>2, <2>4, <2>5 DEF RecInv
<1>2. RecInv /\ [RecNext]_recVars => RecInv'
  <2> SUFFICES ASSUME RecInv, [RecNext]_recVars PROVE RecInv'
    BY Zenon
  <2>1. CASE UNCHANGED recVars
    BY <2>1 DEF recVars, mainVars, dumpVars, RecInv, RecTypeOK, ReadInv, DequeInv, DumpInv, Full, Exited
  <2>2. CASE Push
    BY Zenon, <2>2, PushKeeps
  <2>3. CASE GcDrop
    BY Zenon, <2>3, GcDropKeeps
  <2>4. ASSUME NEW b \in BOOLEAN, Get(b) PROVE RecInv'
    BY Zenon, <2>4, GetKeeps
  <2>5. CASE Lock \/ Put \/ MainReturns \/ GcLock \/ SigInt \/ SigPipe
    BY Zenon, <2>5, ControlKeeps
  <2>6. CASE DumpLock \/ Dump \/ SecondExit
    BY Zenon, <2>6, DumpKeeps
  <2> QED BY Zenon, <2>1, <2>2, <2>3, <2>4, <2>5, <2>6 DEF RecNext, MainRuns
<1> QED BY <1>1, <1>2, PTL DEF RecSpec

\* The state of the recorder stays type correct: the deque never has more
\* messages than WISSBI_RECORD_MAX_MSGNUM, although the limit is tested with
\* == (record.cpp:92) and two threads remove messages.
THEOREM RecTypeCorrect == RecSpec => []RecTypeOK
<1>1. RecInv => RecTypeOK
  BY Zenon DEF RecInv
<1> QED BY <1>1, RecInvariance, PTL

\* What dump_mq_and_exit writes (record.cpp:24-38) is a tail of the recorded
\* lines without a gap, of the full length if there is no time to live:
\* whatever the limit and the input, and whoever calls exit() and when, as
\* long as a second call does not cut the dump off.
THEOREM DumpsTail == RecSpec => []DumpIsTail
<1>1. RecInv => DumpIsTail
  <2> SUFFICES ASSUME RecInv, dumpPc = "done"
               PROVE  /\ dumped = [j \in 1..Len(dumped) |-> pushed - Len(dumped) + j]
                      /\ IF useTtl THEN Len(dumped) <= Full ELSE Len(dumped) = Full
    BY Zenon DEF DumpIsTail, Full
  <2>1. dumped = mq /\ mq \in Seq(1..MaxIn)
    BY Zenon DEF RecInv, DumpInv, RecTypeOK
  <2>2. mq = [j \in 1..Len(mq) |-> mq[j]]
    BY <2>1
  <2>3. \A j \in 1..Len(mq) : mq[j] = pushed - Len(mq) + j
    BY Zenon DEF RecInv, DequeInv, IsTail
  <2>4. mq = [j \in 1..Len(mq) |-> pushed - Len(mq) + j]
    BY Zenon, <2>2, <2>3
  <2>5. IF useTtl THEN Len(mq) <= Full ELSE Len(mq) = Full
    BY Zenon DEF RecInv, DequeInv
  <2> QED BY Zenon, <2>1, <2>4, <2>5
<1> QED BY <1>1, RecInvariance, PTL

-----------------------------------------------------------------------------
(* The log tools.                                                          *)

Item == Glyph \cup {Newline}

\* Text that is not an announcement, and that of file f.
IsText(e) == e.c \in {"x", "\\"}
Own(f) == {Char(f), Backslash(f)}

\* In the stream q a file's name stands at j, or before all of q if j is 0, and
\* there is no other name up to k.
Named(q, j, k) ==
  (j = 0 \/ q[j].c = "==>") /\ \A z \in (j + 1)..(k - 1) : q[z].c # "==>"

\* The name at j, which is l before all of q.
NameAt(q, l, j) == IF j = 0 THEN l ELSE q[j].file

\* A name has a line of its own.
AloneInv(q) ==
  \A j \in 1..Len(q) :
    q[j].c = "==>" => j < Len(q) /\ q[j + 1] = Newline /\ (j = 1 \/ q[j - 1] = Newline)

\* Each character is of the file that was named last before it, and what comes
\* next would be of g.
NamesInv(q, l, g) ==
  /\ \A j \in 0..Len(q), k \in 1..Len(q) :
       j < k /\ Named(q, j, k) /\ IsText(q[k]) => q[k].file = NameAt(q, l, j)
  /\ \A j \in 0..Len(q) : Named(q, j, Len(q) + 1) => NameAt(q, l, j) = g

\* A part of one of n lines.
Part(n) == [line : 1..n, len : Nat, more : BOOLEAN]

\* A line ends behind the j-th part of s, and which one.
Ends(s, j) == j = 0 \/ ~s[j].more
LineAt(s, j) == IF j = 0 THEN 0 ELSE s[j].line

\* The parts are those of whole lines, in order: up to the end of a line, they
\* are of the line after the one that ended before them.
PartsInv(s) ==
  /\ Ends(s, Len(s))
  /\ \A j \in 0..Len(s), k \in 1..Len(s) :
       j < k /\ Ends(s, j) /\ (\A z \in (j + 1)..(k - 1) : s[z].more) => s[k].line = LineAt(s, j) + 1

\* The entries of b are of the lines after line n, in order.
InOrder(b, n) == \A k \in 1..Len(b) : \A j \in 1..Len(b[k]) : b[k][j] = n + k

\* The columnizer has taken whole lines, and has them in order.
ShowInv(s, d) ==
  /\ Ends(s, d.taken) /\ Len(d.shown) + Len(d.buffer) = LineAt(s, d.taken)
  /\ InOrder(d.shown, 0) /\ InOrder(d.buffer, Len(d.shown))

\* At the end everything has been shown.
ClosedInv ==
  ~display.open =>
    /\ pieces = MaxPieces /\ ~HasLine /\ \A f \in Files : fresh[f] = <<>>
    /\ Done = Len(lines) /\ (Plain(lines) => Len(display.shown) = Len(lines))

\* Unless a log has had text that looks like an announcement, what tail has not
\* printed of a file is the file's own, and what it printed is in the order of
\* its names.
StreamInv ==
  ~posing =>
    /\ \A f \in Files : fresh[f] \in Seq(Own(f) \cup {Newline})
    /\ AloneInv(fifo) /\ NamesInv(fifo, current_logger, last)

LinesInv == Attributed /\ FitsMessage /\ \A k \in 1..Len(lines) : lines[k].text # <<>>

ShowsInv == Plain(lines) => PartsInv(sent) /\ ShowInv(sent, display)

LogInv == LogTypeOK /\ StreamInv /\ LinesInv /\ ShowsInv /\ ClosedInv

-----------------------------------------------------------------------------
\* What is in the stream: text, names and newlines can be told apart.
LEMMA ItemFacts ==
  /\ \A e \in Item : IsText(e) \/ e.c = "==>" \/ e = Newline
  /\ \A e \in Item : (e # Newline => e \in Glyph) /\ (e.c = "==>" => e.file \in Files)
  /\ \A f : \A e \in Own(f) : IsText(e) /\ e.c # "==>" /\ e.file = f /\ (f \in Files => e \in Glyph)
  /\ \A f : ~IsText(Header(f)) /\ Header(f).c = "==>" /\ Header(f).file = f
  /\ \A f \in Files : Header(f) \in Glyph /\ Header(f) \in Item
  /\ Newline.c = "\n" /\ ~IsText(Newline) /\ Newline.c # "==>" /\ Newline \in Item
<1>1. \A f : \A e \in Own(f) : IsText(e) /\ e.c # "==>" /\ e.file = f
  BY DEF Own, IsText, Char, Backslash
<1>2. \A f : ~IsText(Header(f)) /\ Header(f).c = "==>" /\ Header(f).file = f
  BY DEF IsText, Header
<1>3. Newline.c = "\n" /\ ~IsText(Newline) /\ Newline.c # "==>"
  BY DEF IsText, Newline
<1>4. /\ \A f \in Files : Header(f) \in Glyph /\ Own(f) \subseteq Glyph
      /\ Newline \in Item /\ Glyph \subseteq Item
  BY Zenon DEF Item, Glyph, Own
<1>5. ASSUME NEW e \in Item
      PROVE  /\ IsText(e) \/ e.c = "==>" \/ e = Newline
             /\ e # Newline => e \in Glyph
             /\ e.c = "==>" => e.file \in Files
  <2>1. CASE \E f \in Files : e \in Own(f)
    BY Zenon, <2>1, <1>1, <1>4
  <2>2. CASE \E f \in Files : e = Header(f)
    BY Zenon, <2>2, <1>2, <1>4
  <2>3. CASE e = Newline
    BY Zenon, <2>3, <1>3
  <2> QED BY Zenon, <2>1, <2>2, <2>3 DEF Item, Glyph, Own
<1> QED BY Zenon, <1>1, <1>2, <1>3, <1>4, <1>5

\* A function of the first n numbers is a sequence.
LEMMA Listed ==
  ASSUME NEW S, NEW n \in Nat, NEW f \in [1..n -> S]
  PROVE  f \in Seq(S) /\ Len(f) = n
  OBVIOUS

\* What stands where in two sequences put together.
LEMMA Joined ==
  ASSUME NEW S, NEW s \in Seq(S), NEW t \in Seq(S)
  PROVE  /\ s \o t \in Seq(S) /\ Len(s \o t) = Len(s) + Len(t) /\ Len(s) \in Nat /\ Len(t) \in Nat
         /\ \A z \in 1..Len(s) : (s \o t)[z] = s[z]
         /\ \A z \in (Len(s) + 1)..(Len(s) + Len(t)) : (s \o t)[z] = t[z - Len(s)]
  OBVIOUS

\* The length of two sequences joined.
LEMMA JoinLen ==
  ASSUME NEW S, NEW s \in Seq(S), NEW t \in Seq(S)
  PROVE  s \o t \in Seq(S) /\ Len(s \o t) = Len(s) + Len(t)
  BY Zenon, Joined

\* What stands behind the first k of a sequence.
LEMMA Behind ==
  ASSUME NEW S, NEW s \in Seq(S), NEW k \in 0..Len(s)
  PROVE  /\ SubSeq(s, k + 1, Len(s)) \in Seq(S) /\ Len(SubSeq(s, k + 1, Len(s))) = Len(s) - k
         /\ Len(s) \in Nat
         /\ \A z \in 1..(Len(s) - k) : SubSeq(s, k + 1, Len(s))[z] = s[k + z]
  OBVIOUS

\* tail prints more of the file it is at: a name is as before.
LEMMA MoreText ==
  ASSUME NEW q \in Seq(Item), NEW t \in Seq(Item), NEW l, NEW g, AloneInv(q), NamesInv(q, l, g),
         \A z \in 1..Len(t) : t[z] \in Own(g) \cup {Newline}
  PROVE  AloneInv(q \o t) /\ NamesInv(q \o t, l, g)
<1> DEFINE p == q \o t
<1>1. /\ p \in Seq(Item) /\ Len(p) = Len(q) + Len(t) /\ Len(q) \in Nat /\ Len(t) \in Nat
      /\ \A z \in 1..Len(q) : p[z] = q[z]
      /\ \A z \in (Len(q) + 1)..(Len(q) + Len(t)) : p[z] = t[z - Len(q)]
  BY Zenon, Joined
<1>2. \A z \in (Len(q) + 1)..(Len(q) + Len(t)) :
        /\ p[z].c # "==>" /\ (IsText(p[z]) => p[z].file = g)
  <2> SUFFICES ASSUME NEW z \in (Len(q) + 1)..(Len(q) + Len(t))
               PROVE  p[z].c # "==>" /\ (IsText(p[z]) => p[z].file = g)
    BY Zenon
  <2>1. z - Len(q) \in 1..Len(t)
    BY <1>1
  <2>2. p[z] \in Own(g) \/ p[z] = Newline
    BY Zenon, <1>1, <2>1
  <2> QED BY Zenon, <2>2, ItemFacts
<1> HIDE DEF p
<1>3. ASSUME NEW j \in 0..Len(p), NEW k, k \in 1..(Len(p) + 1), j < k, Named(p, j, k)
      PROVE  j \in 0..Len(q) /\ Named(q, j, IF k <= Len(q) THEN k ELSE Len(q) + 1)
             /\ NameAt(p, l, j) = NameAt(q, l, j)
  <2>1. j <= Len(q)
    BY <1>1, <1>2, <1>3 DEF Named
  <2>2. j \in 0..Len(q) /\ (j # 0 => j \in 1..Len(q))
    BY <1>1, <2>1
  <2>3. (j = 0 \/ q[j].c = "==>") /\ NameAt(p, l, j) = NameAt(q, l, j)
    BY Zenon, <1>1, <1>3, <2>2 DEF Named, NameAt
  <2> DEFINE e == IF k <= Len(q) THEN k ELSE Len(q) + 1
  <2>4. \A z \in (j + 1)..(e - 1) : z \in (j + 1)..(k - 1) /\ z \in 1..Len(q)
    BY <1>1, <1>3, <2>2
  <2>5. \A z \in (j + 1)..(e - 1) : q[z].c # "==>"
    BY Zenon, <1>1, <1>3, <2>4 DEF Named
  <2> QED BY Zenon, <2>2, <2>3, <2>5 DEF Named, e
<1>4. AloneInv(p)
  <2> SUFFICES ASSUME NEW j \in 1..Len(p), p[j].c = "==>"
               PROVE  j < Len(p) /\ p[j + 1] = Newline /\ (j = 1 \/ p[j - 1] = Newline)
    BY Zenon DEF AloneInv
  <2>1. j \in 1..Len(q) /\ p[j] = q[j]
    BY <1>1, <1>2
  <2>2. j < Len(q) /\ q[j + 1] = Newline /\ (j = 1 \/ q[j - 1] = Newline)
    BY Zenon, <2>1 DEF AloneInv
  <2>3. j < Len(p) /\ j + 1 \in 1..Len(q) /\ (j = 1 \/ j - 1 \in 1..Len(q))
    BY <1>1, <2>1, <2>2
  <2> QED BY Zenon, <1>1, <2>2, <2>3
<1>5. ASSUME NEW j \in 0..Len(p), NEW k \in 1..Len(p), j < k, Named(p, j, k), IsText(p[k])
      PROVE  p[k].file = NameAt(p, l, j)
  <2>0. k \in 1..(Len(p) + 1)
    BY <1>1
  <2>1. CASE k <= Len(q)
    <3>1. k \in 1..Len(q) /\ p[k] = q[k]
      BY <1>1, <2>1
    <3>2. Named(q, j, k) /\ j \in 0..Len(q) /\ NameAt(p, l, j) = NameAt(q, l, j)
      BY Zenon, <1>3, <1>5, <2>0, <2>1
    <3> QED BY Zenon, <1>5, <3>1, <3>2 DEF NamesInv
  <2>2. CASE ~(k <= Len(q))
    <3>1. k \in (Len(q) + 1)..(Len(q) + Len(t))
      BY <1>1, <2>2
    <3>2. Named(q, j, Len(q) + 1) /\ j \in 0..Len(q) /\ NameAt(p, l, j) = NameAt(q, l, j)
      BY Zenon, <1>3, <1>5, <2>0, <2>2
    <3> QED BY Zenon, <1>2, <1>5, <3>1, <3>2 DEF NamesInv
  <2> QED BY Zenon, <2>1, <2>2
<1>6. ASSUME NEW j \in 0..Len(p), Named(p, j, Len(p) + 1) PROVE NameAt(p, l, j) = g
  <2>1. Len(p) + 1 \in 1..(Len(p) + 1) /\ j < Len(p) + 1 /\ ~(Len(p) + 1 <= Len(q))
    BY <1>1
  <2>2. Named(q, j, Len(q) + 1) /\ j \in 0..Len(q) /\ NameAt(p, l, j) = NameAt(q, l, j)
    BY Zenon, <1>3, <1>6, <2>1
  <2> QED BY Zenon, <2>2 DEF NamesInv
<1> QED BY Zenon, <1>4, <1>5, <1>6 DEF NamesInv, p

\* tail turns to another file: its name is announced.
LEMMA NewName ==
  ASSUME NEW q \in Seq(Item), NEW l, NEW g, NEW f \in Files, AloneInv(q), NamesInv(q, l, g)
  PROVE  LET p == q \o <<Newline, Header(f), Newline>>
         IN  p \in Seq(Item) /\ AloneInv(p) /\ NamesInv(p, l, f)
<1> DEFINE t == <<Newline, Header(f), Newline>>
           p == q \o t
           n == Len(q)
<1>1. t \in Seq(Item) /\ Len(t) = 3 /\ t[1] = Newline /\ t[2] = Header(f) /\ t[3] = Newline
  BY ItemFacts
<1> HIDE DEF t
<1>2. /\ p \in Seq(Item) /\ Len(p) = n + 3 /\ n \in Nat
      /\ \A z \in 1..n : p[z] = q[z]
      /\ \A z \in (n + 1)..(n + 3) : p[z] = t[z - n]
  <2>1. /\ p \in Seq(Item) /\ Len(p) = n + Len(t) /\ n \in Nat
        /\ \A z \in 1..n : p[z] = q[z]
        /\ \A z \in (n + 1)..(n + Len(t)) : p[z] = t[z - n]
    BY Zenon, <1>1, Joined
  <2> QED BY Zenon, <1>1, <2>1
<1>3. p[n + 1] = Newline /\ p[n + 2] = Header(f) /\ p[n + 3] = Newline
  <2> HIDE DEF p, n
  <2>1. n \in Nat
    BY Zenon, <1>2
  <2>2. \A z \in 1..3 : n + z \in (n + 1)..(n + 3) /\ (n + z) - n = z
    BY ONLY SMTT(30), <2>1
  <2>3. 1 \in 1..3 /\ 2 \in 1..3 /\ 3 \in 1..3
    OBVIOUS
  <2> QED BY Zenon, <1>1, <1>2, <2>2, <2>3
<1>4. Newline.c = "\n" /\ Header(f).c = "==>" /\ Header(f).file = f /\ ~IsText(Newline) /\ ~IsText(Header(f))
  BY Zenon, ItemFacts
<1> HIDE DEF p, n
<1>5. AloneInv(p)
  <2> SUFFICES ASSUME NEW j \in 1..Len(p), p[j].c = "==>"
               PROVE  j < Len(p) /\ p[j + 1] = Newline /\ (j = 1 \/ p[j - 1] = Newline)
    BY Zenon DEF AloneInv
  <2>1. CASE j \in 1..n
    <3>1. j < n /\ q[j + 1] = Newline /\ (j = 1 \/ q[j - 1] = Newline)
      BY Zenon, <1>2, <2>1 DEF AloneInv, n
    <3>2. j < Len(p) /\ j + 1 \in 1..n /\ (j = 1 \/ j - 1 \in 1..n)
      BY <1>2, <2>1, <3>1
    <3> QED BY Zenon, <1>2, <3>1, <3>2
  <2>2. CASE j = n + 2
    BY <1>2, <1>3, <2>2
  <2> QED BY <1>2, <1>3, <1>4, <2>1, <2>2
<1>6. ASSUME NEW j \in 0..Len(p), NEW k \in 1..Len(p), j < k, Named(p, j, k), IsText(p[k])
      PROVE  p[k].file = NameAt(p, l, j)
  <2>1. k \in 1..n /\ j \in 0..n
    BY <1>2, <1>3, <1>4, <1>6
  <2>2. Named(q, j, k) /\ NameAt(p, l, j) = NameAt(q, l, j) /\ p[k] = q[k]
    BY <1>2, <1>6, <2>1 DEF Named, NameAt
  <2> QED BY Zenon, <1>6, <2>1, <2>2 DEF NamesInv, n
<1>7. ASSUME NEW j \in 0..Len(p), Named(p, j, Len(p) + 1) PROVE NameAt(p, l, j) = f
  <2>1. j = n + 2
    BY <1>2, <1>3, <1>4, <1>7 DEF Named
  <2> QED BY <1>2, <1>3, <1>4, <2>1 DEF NameAt
<1> QED BY Zenon, <1>2, <1>5, <1>6, <1>7 DEF NamesInv, p, t

\* The transformer takes the first line, of k items: the names of what is left
\* are as before, if m is the one that holds at the end of the line.
LEMMA LineTaken ==
  ASSUME NEW q \in Seq(Item), NEW l, NEW g, AloneInv(q), NamesInv(q, l, g),
         NEW k \in 1..Len(q), NEW b \in 0..k, Named(q, b, k + 1), NEW m, m = NameAt(q, l, b)
  PROVE  LET p == SubSeq(q, k + 1, Len(q))
         IN  p \in Seq(Item) /\ AloneInv(p) /\ NamesInv(p, m, g)
<1> DEFINE p == SubSeq(q, k + 1, Len(q))
<1>1. /\ p \in Seq(Item) /\ Len(p) = Len(q) - k /\ Len(q) \in Nat
      /\ \A z \in 1..(Len(q) - k) : p[z] = q[k + z]
  <2>1. k \in 0..Len(q)
    OBVIOUS
  <2> QED BY Zenon, <2>1, Behind
<1> HIDE DEF p
<1>2. AloneInv(p)
  <2> SUFFICES ASSUME NEW j \in 1..Len(p), p[j].c = "==>"
               PROVE  j < Len(p) /\ p[j + 1] = Newline /\ (j = 1 \/ p[j - 1] = Newline)
    BY Zenon DEF AloneInv
  <2>1. k + j \in 1..Len(q) /\ p[j] = q[k + j]
    BY <1>1
  <2>2. k + j < Len(q) /\ q[(k + j) + 1] = Newline /\ (k + j = 1 \/ q[(k + j) - 1] = Newline)
    BY Zenon, <2>1 DEF AloneInv
  <2>3. j < Len(p) /\ j + 1 \in 1..(Len(q) - k) /\ (j = 1 \/ j - 1 \in 1..(Len(q) - k))
    BY <1>1, <2>2
  <2>4. k + (j + 1) = (k + j) + 1 /\ k + (j - 1) = (k + j) - 1 /\ (k + j = 1 => j = 1)
    BY <1>1
  <2>5. p[j + 1] = q[k + (j + 1)]
    BY Zenon, <1>1, <2>3
  <2>6. CASE j # 1
    <3>1. p[j - 1] = q[k + (j - 1)]
      BY Zenon, <1>1, <2>3, <2>6
    <3> QED BY Zenon, <2>2, <2>3, <2>4, <2>5, <2>6, <3>1
  <2> QED BY Zenon, <2>2, <2>3, <2>4, <2>5, <2>6
<1>3. ASSUME NEW j \in 0..Len(p), NEW z, z \in 1..(Len(p) + 1), j < z, Named(p, j, z)
      PROVE  LET a == IF j = 0 THEN b ELSE k + j
             IN  a \in 0..Len(q) /\ a < k + z /\ Named(q, a, k + z) /\ NameAt(q, l, a) = NameAt(p, m, j)
  <2>1. CASE j = 0
    <3>1. b \in 0..Len(q) /\ b < k + z
      BY <1>1, <1>3
    <3>2. ASSUME NEW d \in (b + 1)..((k + z) - 1) PROVE q[d].c # "==>"
      <4>1. CASE d <= k
        BY <4>1 DEF Named
      <4>2. CASE ~(d <= k)
        <5>1. d - k \in (j + 1)..(z - 1) /\ d - k \in 1..(Len(q) - k) /\ k + (d - k) = d
          BY <1>1, <1>3, <2>1, <4>2
        <5> QED BY Zenon, <1>1, <1>3, <5>1 DEF Named
      <4> QED BY Zenon, <4>1, <4>2
    <3>3. b = 0 \/ q[b].c = "==>"
      BY Zenon DEF Named
    <3>4. NameAt(p, m, j) = m
      BY Zenon, <2>1 DEF NameAt
    <3>5. Named(q, b, k + z)
      BY Zenon, <3>2, <3>3 DEF Named
    <3> QED BY Zenon, <2>1, <3>1, <3>4, <3>5
  <2>2. CASE j # 0
    <3>1. k + j \in 1..Len(q) /\ k + j < k + z /\ p[j] = q[k + j] /\ k + j # 0
      BY <1>1, <1>3, <2>2
    <3>2. ASSUME NEW d \in (k + j + 1)..((k + z) - 1) PROVE q[d].c # "==>"
      <4>1. d - k \in (j + 1)..(z - 1) /\ d - k \in 1..(Len(q) - k) /\ k + (d - k) = d
        BY <1>1, <1>3
      <4> QED BY Zenon, <1>1, <1>3, <4>1 DEF Named
    <3>3. q[k + j].c = "==>" /\ NameAt(q, l, k + j) = NameAt(p, m, j) /\ k + j \in 0..Len(q)
      BY <1>3, <2>2, <3>1 DEF Named, NameAt
    <3>4. Named(q, k + j, k + z)
      BY Zenon, <3>2, <3>3 DEF Named
    <3> QED BY Zenon, <2>2, <3>1, <3>3, <3>4
  <2> QED BY Zenon, <2>1, <2>2
<1>4. ASSUME NEW j \in 0..Len(p), NEW z \in 1..Len(p), j < z, Named(p, j, z), IsText(p[z])
      PROVE  p[z].file = NameAt(p, m, j)
  <2>1. z \in 1..(Len(p) + 1) /\ k + z \in 1..Len(q) /\ p[z] = q[k + z]
    BY <1>1
  <2>2. PICK a \in 0..Len(q) : a < k + z /\ Named(q, a, k + z) /\ NameAt(q, l, a) = NameAt(p, m, j)
    BY Zenon, <1>3, <1>4, <2>1
  <2> QED BY Zenon, <1>4, <2>1, <2>2 DEF NamesInv
<1>5. ASSUME NEW j \in 0..Len(p), Named(p, j, Len(p) + 1) PROVE NameAt(p, m, j) = g
  <2>1. Len(p) + 1 \in 1..(Len(p) + 1) /\ j < Len(p) + 1 /\ k + (Len(p) + 1) = Len(q) + 1
    BY <1>1
  <2>2. PICK a \in 0..Len(q) : Named(q, a, k + (Len(p) + 1)) /\ NameAt(q, l, a) = NameAt(p, m, j)
    BY Zenon, <1>3, <1>5, <2>1
  <2> QED BY Zenon, <2>1, <2>2 DEF NamesInv
<1> QED BY Zenon, <1>1, <1>2, <1>4, <1>5 DEF NamesInv, p

-----------------------------------------------------------------------------
\* What read does with text that has no backslash of its own.
LEMMA EscapedIs ==
  ASSUME NEW S, NEW t \in Seq(S), \A j \in 1..Len(t) : t[j].c # "\\"
  PROVE  ~Escaped(t) /\ \A f : Escaped(Append(t, Backslash(f)))
<1>1. ~Escaped(t)
  <2> SUFFICES ASSUME NEW n \in 1..Len(t), \A j \in (Len(t) - n + 1)..Len(t) : t[j].c = "\\" PROVE FALSE
    BY Zenon DEF Escaped
  <2>1. Len(t) \in (Len(t) - n + 1)..Len(t) /\ Len(t) \in 1..Len(t)
    OBVIOUS
  <2> QED BY Zenon, <2>1
<1>2. ASSUME NEW f PROVE Escaped(Append(t, Backslash(f)))
  <2> DEFINE u == Append(t, Backslash(f))
             n == Len(t)
  <2>1. n \in Nat /\ Len(u) = n + 1 /\ \A z \in 1..n : u[z] = t[z]
    OBVIOUS
  <2>2. u[n + 1] = Backslash(f)
    OBVIOUS
  <2>3. Backslash(f).c = "\\"
    BY Zenon DEF Backslash
  <2> HIDE DEF u, n
  <2>4. /\ 1 \in 1..Len(u) /\ 1 % 2 = 1 /\ (1 = Len(u) \/ Len(u) - 1 \in 1..n)
        /\ \A j \in (Len(u) - 1 + 1)..Len(u) : j = n + 1
    BY <2>1
  <2>5. 1 = Len(u) \/ u[Len(u) - 1].c # "\\"
    BY Zenon, <2>1, <2>4 DEF n
  <2> QED BY Zenon, <2>2, <2>3, <2>4, <2>5 DEF Escaped, u
<1> QED BY Zenon, <1>1, <1>2

\* Where a chunk stands in a line of n characters.
LEMMA ChunkAt ==
  ASSUME NEW c \in Nat \ {0}, NEW w \in Nat, NEW r \in Nat, NEW n, n = c * w + r, NEW j \in 1..w
  PROVE  /\ c * (j - 1) + 1 \in Nat \ {0} /\ c * j \in Nat /\ c * j <= n
         /\ c * j = (c * (j - 1) + 1) + c - 1
<1>1. c * (j - 1) \in Nat /\ c * (w - j) \in Nat
  OBVIOUS
<1>2. c * j = c * (j - 1) + c /\ c * w = c * j + c * (w - j)
  OBVIOUS
<1> QED BY <1>1, <1>2

\* Part of a sequence.
LEMMA Between ==
  ASSUME NEW S, NEW s \in Seq(S), NEW a \in Nat \ {0}, NEW b \in Nat, b <= Len(s), a <= b + 1
  PROVE  /\ SubSeq(s, a, b) \in Seq(S) /\ Len(SubSeq(s, a, b)) = b - a + 1
         /\ \A z \in 1..(b - a + 1) : SubSeq(s, a, b)[z] = s[a + z - 1]
  OBVIOUS

\* Of a sequence with no backslash a part has none.
LEMMA StillPlain ==
  ASSUME NEW S, NEW s \in Seq(S), NEW a \in Nat \ {0}, NEW b \in Nat, b <= Len(s), a <= b + 1,
         \A j \in 1..Len(s) : s[j].c # "\\"
  PROVE  \A z \in 1..Len(SubSeq(s, a, b)) : SubSeq(s, a, b)[z].c # "\\"
<1> SUFFICES ASSUME NEW z \in 1..Len(SubSeq(s, a, b)) PROVE SubSeq(s, a, b)[z].c # "\\"
  BY Zenon
<1>1. /\ Len(SubSeq(s, a, b)) = b - a + 1
      /\ \A y \in 1..(b - a + 1) : SubSeq(s, a, b)[y] = s[a + y - 1]
  BY Zenon, Between
<1>2. z \in 1..(b - a + 1)
  BY Zenon, <1>1
<1>3. a + z - 1 \in 1..Len(s)
  BY <1>2
<1> QED BY Zenon, <1>1, <1>2, <1>3

\* sed: a line has at least one part, each fits a message, and unless the line
\* ends with a chunk or has a backslash its last part, alone, is not joined with
\* the next.
LEMMA BrokenIs ==
  ASSUME NEW k, NEW s \in Seq(Glyph), s # <<>>
  PROVE  /\ Broken(k, s) \in Seq([line : {k}, len : Nat, more : BOOLEAN]) /\ Len(Broken(k, s)) \in Nat \ {0}
         /\ \A j \in 1..Len(Broken(k, s)) : Broken(k, s)[j].line = k /\ Broken(k, s)[j].len < MessageSize
         /\ Len(s) % Chunk # 0 /\ (\A j \in 1..Len(s) : s[j].c # "\\") =>
              /\ ~Broken(k, s)[Len(Broken(k, s))].more
              /\ \A j \in 1..(Len(Broken(k, s)) - 1) : Broken(k, s)[j].more
<1> DEFINE n == Len(s)
           w == n \div Chunk
           r == n % Chunk
           z == IF r = 0 THEN w ELSE w + 1
           chunk(j) == SubSeq(s, Chunk * (j - 1) + 1, Chunk * j)
           left == SubSeq(s, Chunk * w + 1, n)
           Text(j) == IF j <= w THEN Append(chunk(j), Backslash(NoFile)) ELSE left
           Entry(j) == [line |-> k, len |-> Len(Text(j)), more |-> Escaped(Text(j))]
<1>0. n \in Nat \ {0}
  OBVIOUS
<1>1. w \in Nat /\ r \in 0..(Chunk - 1) /\ n = Chunk * w + r
  <2> HIDE DEF n
  <2> QED BY <1>0, LogAssumption
<1>2. Chunk \in Nat \ {0} /\ MessageSize \in Nat /\ Chunk + 1 < MessageSize
  BY Zenon, LogAssumption
<1>3. Broken(k, s) = [j \in 1..z |-> Entry(j)]
  BY Zenon DEF Broken
<1> HIDE DEF w, r, n
<1>4. z \in Nat \ {0}
  <2>1. w = 0 => n = r
    BY <1>1, <1>2
  <2> QED BY <1>0, <1>1, <2>1
<1>5. ASSUME NEW j \in 1..w
      PROVE  /\ Len(Text(j)) = Chunk + 1
             /\ (\A y \in 1..n : s[y].c # "\\") => Escaped(Text(j))
  <2> DEFINE a == Chunk * (j - 1) + 1
             b == Chunk * j
  <2>1. a \in Nat \ {0} /\ b \in Nat /\ b <= n /\ b = a + Chunk - 1
    <3>1. r \in Nat
      BY <1>1, <1>2
    <3> QED BY Zenon, <1>1, <1>2, <3>1, ChunkAt
  <2> HIDE DEF a, b
  <2>2. a <= b + 1 /\ b - a + 1 = Chunk
    BY <1>2, <2>1
  <2>3. SubSeq(s, a, b) \in Seq(Glyph) /\ Len(SubSeq(s, a, b)) = b - a + 1
    BY Zenon, <2>1, <2>2, Between DEF n
  <2>4. Text(j) = Append(SubSeq(s, a, b), Backslash(NoFile))
    <3>1. j <= w
      BY <1>1
    <3> QED BY Zenon, <3>1 DEF a, b
  <2> HIDE DEF Text
  <2>5. Len(Text(j)) = Chunk + 1
    BY <2>2, <2>3, <2>4
  <2>6. ASSUME \A y \in 1..n : s[y].c # "\\" PROVE Escaped(Text(j))
    <3>1. \A y \in 1..Len(SubSeq(s, a, b)) : SubSeq(s, a, b)[y].c # "\\"
      BY Zenon, <2>1, <2>2, <2>6, StillPlain DEF n
    <3> QED BY Zenon, <2>3, <2>4, <3>1, EscapedIs
  <2> QED BY Zenon, <2>5, <2>6
<1>6. ASSUME NEW j, ~(j <= w)
      PROVE  Len(Text(j)) = r /\ ((\A y \in 1..n : s[y].c # "\\") => ~Escaped(Text(j)))
  <2> DEFINE a == Chunk * w + 1
  <2>0. Chunk * w \in Nat
    BY <1>1, <1>2
  <2>1. a \in Nat \ {0} /\ n \in Nat /\ n <= n /\ a <= n + 1 /\ n - a + 1 = r
    BY <1>0, <1>1, <1>2, <2>0
  <2> HIDE DEF a
  <2>2. Text(j) = SubSeq(s, a, n)
    BY Zenon, <1>6 DEF a
  <2> HIDE DEF Text
  <2>3. SubSeq(s, a, n) \in Seq(Glyph) /\ Len(SubSeq(s, a, n)) = r
    BY Zenon, <2>1, Between DEF n
  <2>4. ASSUME \A y \in 1..n : s[y].c # "\\" PROVE ~Escaped(Text(j))
    <3>1. \A y \in 1..Len(SubSeq(s, a, n)) : SubSeq(s, a, n)[y].c # "\\"
      BY Zenon, <2>1, <2>4, StillPlain DEF n
    <3> QED BY Zenon, <2>2, <2>3, <3>1, EscapedIs
  <2> QED BY Zenon, <2>2, <2>3, <2>4
<1> HIDE DEF Text
<1>7. \A j \in 1..z : /\ Entry(j) \in [line : {k}, len : Nat, more : BOOLEAN]
                      /\ Entry(j).line = k /\ Entry(j).len < MessageSize /\ (Entry(j).more <=> Escaped(Text(j)))
  <2>1. \A j \in 1..z : j \in 1..w \/ ~(j <= w)
    BY <1>1, <1>4
  <2>2. Chunk + 1 \in Nat /\ r \in Nat /\ r < MessageSize
    BY <1>1, <1>2
  <2>3. \A j : Escaped(Text(j)) \in BOOLEAN
    BY Zenon DEF Escaped
  <2>4. \A j \in 1..z : Len(Text(j)) \in Nat /\ Len(Text(j)) < MessageSize
    BY Zenon, <1>2, <1>5, <1>6, <2>1, <2>2
  <2> QED BY Zenon, <2>3, <2>4
<1>8. /\ Broken(k, s) \in Seq([line : {k}, len : Nat, more : BOOLEAN]) /\ Len(Broken(k, s)) = z
      /\ \A j \in 1..z : Broken(k, s)[j] = Entry(j)
  <2> HIDE DEF Entry, z
  <2>1. Broken(k, s) \in [1..z -> [line : {k}, len : Nat, more : BOOLEAN]]
    BY Zenon, <1>3, <1>7
  <2>2. Broken(k, s) \in Seq([line : {k}, len : Nat, more : BOOLEAN]) /\ Len(Broken(k, s)) = z
    BY Zenon, <1>4, <2>1, Listed
  <2> QED BY Zenon, <1>3, <2>2
<1> HIDE DEF Entry
<1>9. r # 0 => z \in 1..z /\ ~(z <= w) /\ \A j \in 1..(z - 1) : j \in 1..z /\ j \in 1..w
  BY <1>1
<1> HIDE DEF z
<1>10. ASSUME r # 0, \A j \in 1..n : s[j].c # "\\"
       PROVE  ~Broken(k, s)[z].more /\ \A j \in 1..(z - 1) : Broken(k, s)[j].more
  BY Zenon, <1>5, <1>6, <1>7, <1>8, <1>9, <1>10
<1> QED BY Zenon, <1>4, <1>7, <1>8, <1>10 DEF r, n

\* sed keeps the parts in order.
LEMMA PartsKeep ==
  ASSUME NEW N \in Nat, NEW s \in Seq(Part(N)), NEW t \in Seq(Part(N)), PartsInv(s),
         Len(t) # 0, ~t[Len(t)].more, \A j \in 1..(Len(t) - 1) : t[j].more,
         \A j \in 1..Len(t) : t[j].line = LineAt(s, Len(s)) + 1
  PROVE  PartsInv(s \o t)
<1> DEFINE p == s \o t
<1>1. /\ p \in Seq(Part(N)) /\ Len(p) = Len(s) + Len(t) /\ Len(s) \in Nat /\ Len(t) \in Nat
      /\ \A z \in 1..Len(s) : p[z] = s[z]
      /\ \A z \in (Len(s) + 1)..(Len(s) + Len(t)) : p[z] = t[z - Len(s)]
  BY Zenon, Joined
<1> HIDE DEF p
<1>2. \A z \in (Len(s) + 1)..(Len(p) - 1) : p[z].more
  <2> SUFFICES ASSUME NEW z \in (Len(s) + 1)..(Len(p) - 1) PROVE p[z].more
    BY Zenon
  <2>1. z - Len(s) \in 1..(Len(t) - 1) /\ z \in (Len(s) + 1)..(Len(s) + Len(t))
    BY <1>1
  <2> QED BY Zenon, <1>1, <2>1
<1>3. Ends(p, Len(p))
  <2>1. Len(p) \in (Len(s) + 1)..(Len(s) + Len(t)) /\ Len(p) - Len(s) = Len(t)
    BY <1>1
  <2> QED BY Zenon, <1>1, <2>1 DEF Ends
<1>4. ASSUME NEW j \in 0..Len(p), NEW k \in 1..Len(p), j < k, Ends(p, j),
             \A z \in (j + 1)..(k - 1) : p[z].more
      PROVE  p[k].line = LineAt(p, j) + 1
  <2>1. CASE k <= Len(s)
    <3>1. j \in 0..Len(s) /\ k \in 1..Len(s) /\ Ends(s, j) /\ LineAt(p, j) = LineAt(s, j) /\ p[k] = s[k]
      BY <1>1, <1>4, <2>1 DEF Ends, LineAt
    <3>2. \A z \in (j + 1)..(k - 1) : z \in 1..Len(s)
      BY <1>1, <2>1
    <3>3. \A z \in (j + 1)..(k - 1) : s[z].more
      BY Zenon, <1>1, <1>4, <3>2
    <3> QED BY Zenon, <1>4, <3>1, <3>3 DEF PartsInv
  <2>2. CASE ~(k <= Len(s))
    <3>1. ~(j < Len(s))
      <4> SUFFICES ASSUME j < Len(s) PROVE FALSE
        BY Zenon
      <4>1. Len(s) \in (j + 1)..(k - 1) /\ Len(s) \in 1..Len(s) /\ Len(s) # 0
        BY <1>1, <1>4, <2>2
      <4> QED BY Zenon, <1>1, <1>4, <4>1 DEF PartsInv, Ends
    <3>2. ~(j > Len(s))
      <4> SUFFICES ASSUME j > Len(s) PROVE FALSE
        BY Zenon
      <4>1. j \in (Len(s) + 1)..(Len(p) - 1) /\ j # 0
        BY <1>1, <1>4
      <4> QED BY Zenon, <1>2, <1>4, <4>1 DEF Ends
    <3>3. j = Len(s) /\ k \in (Len(s) + 1)..(Len(s) + Len(t)) /\ k - Len(s) \in 1..Len(t)
      BY <1>1, <2>2, <3>1, <3>2
    <3>4. LineAt(p, j) = LineAt(s, j)
      BY <1>1, <3>3 DEF LineAt
    <3> QED BY Zenon, <1>1, <3>3, <3>4
  <2> QED BY Zenon, <2>1, <2>2
<1> QED BY Zenon, <1>3, <1>4 DEF PartsInv, p

\* What the columnizer takes next is all of the next line.
LEMMA NextLine ==
  ASSUME NEW N \in Nat, NEW s \in Seq(Part(N)), PartsInv(s), NEW m \in 0..Len(s), Ends(s, m),
         NEW k \in 1..(Len(s) - m), ~s[m + k].more, \A j \in 1..(k - 1) : s[m + j].more
  PROVE  /\ \A j \in 1..k : s[m + j].line = LineAt(s, m) + 1
         /\ Ends(s, m + k) /\ LineAt(s, m + k) = LineAt(s, m) + 1
<1>1. Len(s) \in Nat
  OBVIOUS
<1>2. ASSUME NEW j \in 1..k PROVE s[m + j].line = LineAt(s, m) + 1
  <2>1. m + j \in 1..Len(s) /\ m < m + j
    BY <1>1
  <2>2. ASSUME NEW z \in (m + 1)..((m + j) - 1) PROVE s[z].more
    <3>1. z - m \in 1..(k - 1) /\ m + (z - m) = z
      BY <1>1
    <3> QED BY Zenon, <3>1
  <2> QED BY Zenon, <2>1, <2>2 DEF PartsInv
<1>3. k \in 1..k /\ m + k # 0
  BY <1>1
<1> QED BY Zenon, <1>2, <1>3 DEF Ends, LineAt

\* Two runs of lines in order, put together.
LEMMA RunsJoin ==
  ASSUME NEW S, NEW a \in Seq(S), NEW b \in Seq(S), NEW n \in Nat,
         InOrder(a, n), InOrder(b, n + Len(a))
  PROVE  InOrder(a \o b, n)
<1> DEFINE p == a \o b
<1>1. /\ Len(p) = Len(a) + Len(b) /\ Len(a) \in Nat /\ Len(b) \in Nat
      /\ \A z \in 1..Len(a) : p[z] = a[z]
      /\ \A z \in (Len(a) + 1)..(Len(a) + Len(b)) : p[z] = b[z - Len(a)]
  BY Zenon, Joined
<1> HIDE DEF p
<1>2. ASSUME NEW k \in 1..Len(p), NEW j \in 1..Len(p[k]) PROVE p[k][j] = n + k
  <2>1. CASE k <= Len(a)
    <3>1. k \in 1..Len(a)
      BY <1>1, <2>1
    <3> QED BY Zenon, <1>1, <3>1 DEF InOrder
  <2>2. CASE ~(k <= Len(a))
    <3>1. /\ k \in (Len(a) + 1)..(Len(a) + Len(b)) /\ k - Len(a) \in 1..Len(b)
          /\ (n + Len(a)) + (k - Len(a)) = n + k
      BY <1>1, <2>2
    <3> QED BY Zenon, <1>1, <3>1 DEF InOrder
  <2> QED BY Zenon, <2>1, <2>2
<1> QED BY Zenon, <1>2 DEF InOrder, p

\* One more line behind a run.
LEMMA RunGrows ==
  ASSUME NEW S, NEW b \in Seq(S), NEW w \in S, NEW n \in Nat, InOrder(b, n),
         \A j \in 1..Len(w) : w[j] = (n + Len(b)) + 1
  PROVE  Append(b, w) \in Seq(S) /\ Len(Append(b, w)) = Len(b) + 1 /\ InOrder(Append(b, w), n)
<1> DEFINE p == Append(b, w)
<1>1. /\ p \in Seq(S) /\ Len(p) = Len(b) + 1 /\ Len(b) \in Nat
      /\ \A z \in 1..Len(b) : p[z] = b[z]
  OBVIOUS
<1>2. p[Len(b) + 1] = w
  OBVIOUS
<1> HIDE DEF p
<1>3. ASSUME NEW k \in 1..Len(p), NEW j \in 1..Len(p[k]) PROVE p[k][j] = n + k
  <2>1. CASE k <= Len(b)
    <3>1. k \in 1..Len(b)
      BY <1>1, <2>1
    <3> QED BY Zenon, <1>1, <3>1 DEF InOrder
  <2>2. CASE ~(k <= Len(b))
    <3>1. k = Len(b) + 1 /\ n + (Len(b) + 1) = (n + Len(b)) + 1
      BY <1>1, <2>2
    <3> QED BY Zenon, <1>2, <3>1
  <2> QED BY Zenon, <2>1, <2>2
<1> QED BY Zenon, <1>1, <1>3 DEF InOrder, p

-----------------------------------------------------------------------------
\* The types, with names for the sets.
Line == [logger : Files \cup {NoFile}, text : Seq(Glyph)]
Display(m, n) ==
  [taken : 0..m, buffer : Seq(Seq(1..n)), shown : Seq(Seq(1..n)), open : BOOLEAN]

\* The type invariant in terms of the sets of this module.
LEMMA TypeIs ==
  LogTypeOK <=>
    /\ fresh \in [Files -> Seq(Item)] /\ posing \in BOOLEAN
    /\ pieces \in 0..MaxPieces /\ last \in Files /\ current_logger \in Files \cup {NoFile}
    /\ fifo \in Seq(Item) /\ lines \in Seq(Line)
    /\ sent \in Seq(Part(Len(lines))) /\ display \in Display(Len(sent), Len(lines))
  BY Zenon DEF LogTypeOK, Item, Line, Part, Display

\* A sequence over a set is one over a larger set.
LEMMA Wider == ASSUME NEW S, NEW T, S \subseteq T, NEW s \in Seq(S) PROVE s \in Seq(T)
  OBVIOUS

\* What is in a sequence.
LEMMA ElementOf == ASSUME NEW S, NEW s \in Seq(S), NEW z \in 1..Len(s) PROVE s[z] \in S
  OBVIOUS

\* A sequence is one over any set that has what is in it.
LEMMA Narrower ==
  ASSUME NEW S, NEW T, NEW s \in Seq(S), \A z \in 1..Len(s) : s[z] \in T PROVE s \in Seq(T)
  OBVIOUS

\* The end of the columnizer stays what it is while nothing of it changes, and
\* has not come while there is work before it.
LEMMA NotClosed == ASSUME display.open, UNCHANGED display PROVE ClosedInv'
  BY Zenon DEF ClosedInv

\* What a program writes is text.
LEMMA PieceIs == ASSUME NEW f \in Files, NEW s \in Piece(f) PROVE s \in Seq(Glyph)
<1>1. CASE \E g \in Files : s = <<Header(g)>>
  <2>1. PICK g \in Files : s = <<Header(g)>>
    BY Zenon, <1>1
  <2>2. Header(g) \in Glyph
    BY Zenon, ItemFacts
  <2> QED BY <2>1, <2>2
<1>2. CASE \E n \in 0..MaxLength, b \in BOOLEAN :
             s = [k \in 1..n |-> IF k = n /\ b THEN Backslash(f) ELSE Char(f)]
  <2>1. PICK n \in 0..MaxLength, b \in BOOLEAN :
          s = [k \in 1..n |-> IF k = n /\ b THEN Backslash(f) ELSE Char(f)]
    BY Zenon, <1>2
  <2>2. n \in Nat
    BY LogAssumption
  <2>3. s \in [1..n -> Glyph]
    BY Zenon, <2>1 DEF Glyph
  <2> QED BY Zenon, <2>2, <2>3, Listed
<1> QED BY <1>1, <1>2 DEF Piece

\* A program writes to its log.
LEMMA LogStep ==
  ASSUME LogInv, NEW f \in Files, NEW s \in Piece(f), NEW newline \in BOOLEAN, Log(f, s, newline)
  PROVE  LogInv'
<1> DEFINE u == IF newline THEN <<Newline>> ELSE <<>>
<1>1. /\ pieces < MaxPieces /\ pieces' = pieces + 1
      /\ fresh' = [fresh EXCEPT ![f] = @ \o s \o u]
      /\ posing' = (posing \/ s \notin Seq(Own(f)))
      /\ UNCHANGED <<last, fifo, current_logger, lines, sent, display>>
  BY Zenon DEF Log, Own
<1>2. pieces \in 0..MaxPieces /\ MaxPieces \in Nat /\ fresh \in [Files -> Seq(Item)] /\ posing \in BOOLEAN
  BY Zenon, LogAssumption, TypeIs DEF LogInv
<1>3. pieces' \in 0..MaxPieces /\ pieces # MaxPieces /\ posing' \in BOOLEAN
  BY <1>1, <1>2
<1>4. \A T : Newline \in T => u \in Seq(T)
  <2>1. \A T : Newline \in T => <<Newline>> \in Seq(T) /\ <<>> \in Seq(T)
    OBVIOUS
  <2> QED BY Zenon, <2>1
<1> HIDE DEF u
<1>5. ASSUME NEW T, Newline \in T, fresh[f] \in Seq(T), s \in Seq(T)
      PROVE  (fresh[f] \o s) \o u \in Seq(T)
  <2>1. fresh[f] \o s \in Seq(T)
    BY Zenon, <1>5, Joined
  <2> QED BY Zenon, <1>4, <1>5, <2>1, Joined
<1>6. fresh'[f] = (fresh[f] \o s) \o u /\ DOMAIN fresh' = Files /\ fresh' = [g \in Files |-> fresh'[g]]
      /\ \A g \in Files : g # f => fresh'[g] = fresh[g]
  BY Zenon, <1>1, <1>2
<1>7. ASSUME ~posing' PROVE \A g \in Files : fresh'[g] \in Seq(Own(g) \cup {Newline})
  <2>1. ~posing /\ s \in Seq(Own(f))
    BY Zenon, <1>1, <1>7
  <2>2. Own(f) \subseteq Own(f) \cup {Newline} /\ Newline \in Own(f) \cup {Newline}
    BY Zenon
  <2>3. s \in Seq(Own(f) \cup {Newline})
    BY Zenon, <2>1, <2>2, Wider
  <2>4. \A g \in Files : fresh[g] \in Seq(Own(g) \cup {Newline})
    BY Zenon, <2>1 DEF LogInv, StreamInv
  <2>5. fresh'[f] \in Seq(Own(f) \cup {Newline})
    BY Zenon, <1>5, <1>6, <2>2, <2>3, <2>4
  <2> QED BY Zenon, <1>6, <2>4, <2>5
<1>8. fresh' \in [Files -> Seq(Item)]
  <2>0. Glyph \subseteq Item /\ Newline \in Item
    BY Zenon DEF Item
  <2>1. s \in Seq(Item)
    BY Zenon, <2>0, PieceIs, Wider
  <2>2. fresh'[f] \in Seq(Item)
    BY Zenon, <1>2, <1>5, <1>6, <2>0, <2>1
  <2>3. \A g \in Files : fresh'[g] \in Seq(Item)
    BY Zenon, <1>2, <1>6, <2>2
  <2> QED BY Zenon, <1>6, <2>3
<1>9. LogTypeOK'
  BY Zenon, <1>1, <1>3, <1>8, TypeIs DEF LogInv, LogTypeOK, Item
<1>10. StreamInv'
  BY Zenon, <1>1, <1>7 DEF LogInv, StreamInv
<1>11. LinesInv' /\ ShowsInv'
  BY Zenon, <1>1 DEF LogInv, LinesInv, ShowsInv, Attributed, FitsMessage
<1>12. ClosedInv'
  BY Zenon, <1>1, <1>3, NotClosed DEF LogInv, ClosedInv
<1> QED BY Zenon, <1>9, <1>10, <1>11, <1>12 DEF LogInv

\* tail prints what is new in a file.
LEMMA TailStep == ASSUME LogInv, NEW f \in Files, TailReads(f) PROVE LogInv'
<1> DEFINE h == IF last = f THEN <<>> ELSE <<Newline, Header(f), Newline>>
           q == fifo \o h
<1>1. /\ fresh[f] # <<>> /\ fifo' = q \o fresh[f] /\ last' = f /\ fresh' = [fresh EXCEPT ![f] = <<>>]
      /\ UNCHANGED <<pieces, current_logger, lines, sent, display, posing>>
  BY Zenon DEF TailReads
<1>2. fresh \in [Files -> Seq(Item)] /\ fifo \in Seq(Item) /\ fresh[f] \in Seq(Item)
  BY Zenon, TypeIs DEF LogInv
<1>3. q \in Seq(Item)
  <2>1. Newline \in Item /\ Header(f) \in Item
    BY Zenon, ItemFacts
  <2>2. <<Newline, Header(f), Newline>> \in Seq(Item) /\ <<>> \in Seq(Item)
    BY <2>1
  <2> QED BY Zenon, <1>2, <2>2, Joined
<1>4. fifo' \in Seq(Item)
  BY Zenon, <1>1, <1>2, <1>3, Joined
<1>5. ASSUME ~posing
      PROVE  /\ AloneInv(fifo') /\ NamesInv(fifo', current_logger, f)
             /\ \A g \in Files : fresh[g] \in Seq(Own(g) \cup {Newline})
  <2>1. /\ AloneInv(fifo) /\ NamesInv(fifo, current_logger, last)
        /\ \A g \in Files : fresh[g] \in Seq(Own(g) \cup {Newline})
    BY Zenon, <1>5 DEF LogInv, StreamInv
  <2>2. AloneInv(q) /\ NamesInv(q, current_logger, f)
    <3>1. CASE last = f
      <4>1. q = fifo
        BY <1>2, <3>1
      <4> QED BY Zenon, <2>1, <3>1, <4>1
    <3>2. CASE last # f
      <4>1. q = fifo \o <<Newline, Header(f), Newline>>
        BY Zenon, <3>2
      <4> HIDE DEF q
      <4> QED BY Zenon, <1>2, <2>1, <4>1, NewName
    <3> QED BY Zenon, <3>1, <3>2
  <2> HIDE DEF q
  <2>3. \A z \in 1..Len(fresh[f]) : fresh[f][z] \in Own(f) \cup {Newline}
    BY Zenon, <2>1, ElementOf
  <2> QED BY Zenon, <1>1, <1>2, <1>3, <2>1, <2>2, <2>3, MoreText
<1>6. \A S : <<>> \in Seq(S)
  OBVIOUS
<1>7. LogTypeOK'
  <2>1. fresh' \in [Files -> Seq(Item)]
    BY Zenon, <1>1, <1>2, <1>6
  <2> QED BY Zenon, <1>1, <1>4, <2>1, TypeIs DEF LogInv, LogTypeOK, Item
<1>8. StreamInv'
  BY Zenon, <1>1, <1>2, <1>5, <1>6 DEF StreamInv
<1>9. LinesInv' /\ ShowsInv'
  BY Zenon, <1>1 DEF LogInv, LinesInv, ShowsInv, Attributed, FitsMessage
<1>10. ClosedInv'
  BY Zenon, <1>1, NotClosed DEF LogInv, ClosedInv
<1> QED BY Zenon, <1>7, <1>8, <1>9, <1>10 DEF LogInv

\* More lines: what is there of parts and of lines shown is as it was.
LEMMA MoreLines ==
  ASSUME LogTypeOK, NEW m \in Nat, Len(lines) <= m
  PROVE  /\ Len(lines) \in Nat /\ sent \in Seq(Part(m)) /\ display \in Display(Len(sent), m)
<1>1. lines \in Seq(Line) /\ sent \in Seq(Part(Len(lines))) /\ display \in Display(Len(sent), Len(lines))
  BY Zenon, TypeIs
<1>2. Len(lines) \in Nat
  BY <1>1
<1>3. 1..Len(lines) \subseteq 1..m
  BY <1>2
<1>4. Part(Len(lines)) \subseteq Part(m)
  BY Zenon, <1>3 DEF Part
<1>5. sent \in Seq(Part(m))
  BY Zenon, <1>1, <1>4, Wider
<1>6. Seq(1..Len(lines)) \subseteq Seq(1..m)
  BY Zenon, <1>3, Wider
<1>7. Seq(Seq(1..Len(lines))) \subseteq Seq(Seq(1..m))
  BY Zenon, <1>6, Wider
<1>8. display \in Display(Len(sent), m)
  BY Zenon, <1>1, <1>7 DEF Display
<1> QED BY Zenon, <1>2, <1>5, <1>8

\* The transformer takes a line.
LEMMA TransformStep == ASSUME LogInv, Transform PROVE LogInv'
<1>1. PICK k \in 1..Len(fifo) :
        /\ LineEnds(k) /\ fifo' = SubSeq(fifo, k + 1, Len(fifo))
        /\ LET line == SubSeq(fifo, 1, k - 1) IN
           IF line = <<>> THEN UNCHANGED <<current_logger, lines>>
           ELSE IF IsHeader(line) THEN current_logger' = NameIn(line) /\ UNCHANGED lines
           ELSE lines' = Append(lines, [logger |-> current_logger, text |-> line])
                /\ UNCHANGED current_logger
  BY Zenon DEF Transform
<1>2. UNCHANGED <<fresh, pieces, last, sent, display, posing>>
  BY Zenon DEF Transform
<1> DEFINE line == SubSeq(fifo, 1, k - 1)
<1>3. fifo \in Seq(Item) /\ current_logger \in Files \cup {NoFile} /\ lines \in Seq(Line)
  BY Zenon, TypeIs DEF LogInv
<1>4. fifo[k] = Newline /\ \A j \in 1..(k - 1) : fifo[j] # Newline
  BY Zenon, <1>1 DEF LineEnds
<1>5. Len(fifo) \in Nat /\ k \in Nat \ {0} /\ k <= Len(fifo) /\ \A j \in 1..Len(fifo) : fifo[j] \in Item
  BY <1>3
<1>6. line \in Seq(Item) /\ Len(line) = k - 1 /\ \A j \in 1..(k - 1) : line[j] = fifo[j]
  BY <1>3, <1>5
<1>7. line = <<>> <=> k = 1
  BY <1>3, <1>5
<1> HIDE DEF line
<1>8. display.open
  <2>1. HasLine
    BY Zenon, <1>4 DEF HasLine
  <2> QED BY Zenon, <2>1 DEF LogInv, ClosedInv
<1>9. /\ fifo' \in Seq(Item) /\ current_logger' \in Files \cup {NoFile}
      /\ \/ UNCHANGED lines
         \/ lines' = Append(lines, [logger |-> current_logger, text |-> line]) /\ k # 1
  <2>1. k \in 0..Len(fifo)
    BY <1>5
  <2>2. fifo' \in Seq(Item)
    BY Zenon, <1>1, <1>3, <2>1, Behind
  <2>3. ASSUME k # 1, IsHeader(line) PROVE NameIn(line) \in Files \cup {NoFile}
    <3>1. 1 \in 1..(k - 1) /\ 1 \in 1..Len(fifo)
      BY <1>5, <2>3
    <3>2. line[1] \in Item
      BY Zenon, <1>5, <1>6, <3>1
    <3> QED BY Zenon, <2>3, <3>2, ItemFacts DEF IsHeader, NameIn
  <2> QED BY Zenon, <1>1, <1>3, <1>7, <2>2, <2>3 DEF line
<1>14. ASSUME ~posing
       PROVE  /\ AloneInv(fifo') /\ NamesInv(fifo', current_logger', last)
              /\ \/ UNCHANGED lines
                 \/ \A j \in 1..(k - 1) : fifo[j].file = current_logger
  <2>0. Newline.c # "==>" /\ AloneInv(fifo) /\ NamesInv(fifo, current_logger, last)
    BY Zenon, <1>14, ItemFacts DEF LogInv, StreamInv
  <2>1. CASE k = 1
    <3>1. UNCHANGED <<current_logger, lines>>
      BY Zenon, <1>1, <1>7, <2>1 DEF line
    <3>2. 0 \in 0..k /\ Named(fifo, 0, k + 1) /\ current_logger = NameAt(fifo, current_logger, 0)
      BY <1>4, <2>0, <2>1 DEF Named, NameAt
    <3>3. AloneInv(fifo') /\ NamesInv(fifo', current_logger, last)
      BY Zenon, <1>1, <1>3, <2>0, <3>2, LineTaken
    <3> QED BY Zenon, <3>1, <3>3
  <2>2. CASE k # 1 /\ fifo[1].c = "==>"
    <3>1. 1 \in 1..(k - 1) /\ 1 \in 1..Len(fifo)
      BY <1>5, <2>2
    <3>2. fifo[1 + 1] = Newline
      BY Zenon, <2>0, <2>2, <3>1 DEF AloneInv
    <3>3. k = 2 /\ k - 1 = 1
      BY <1>4, <1>5, <2>2, <3>2
    <3>4. IsHeader(line) /\ NameIn(line) = fifo[1].file
      BY Zenon, <1>6, <2>2, <3>1, <3>3 DEF IsHeader, NameIn
    <3>5. current_logger' = fifo[1].file /\ UNCHANGED lines
      BY Zenon, <1>1, <1>7, <2>2, <3>4 DEF line
    <3>6. 1 \in 0..k /\ Named(fifo, 1, k + 1) /\ fifo[1].file = NameAt(fifo, current_logger, 1)
      BY <2>0, <2>2, <3>2, <3>3 DEF Named, NameAt
    <3>7. AloneInv(fifo') /\ NamesInv(fifo', fifo[1].file, last)
      BY Zenon, <1>1, <1>3, <2>0, <3>6, LineTaken
    <3> QED BY Zenon, <3>5, <3>7
  <2>3. CASE k # 1 /\ fifo[1].c # "==>"
    <3>1. 1 \in 1..(k - 1)
      BY <1>5, <2>3
    <3>2. UNCHANGED current_logger
      BY Zenon, <1>1, <1>6, <1>7, <2>3, <3>1 DEF line, IsHeader
    <3>3. ASSUME NEW j \in 1..(k - 1) PROVE fifo[j].c # "==>"
      <4>1. j \in 1..Len(fifo) /\ (j = 1 \/ j - 1 \in 1..(k - 1))
        BY <1>5
      <4> QED BY Zenon, <1>4, <2>0, <2>3, <4>1 DEF AloneInv
    <3>4. ASSUME NEW j \in 1..(k - 1) PROVE fifo[j].file = current_logger
      <4>1. j \in 1..Len(fifo) /\ 0 \in 0..Len(fifo) /\ 0 < j
        BY <1>5
      <4>2. IsText(fifo[j])
        BY Zenon, <1>4, <1>5, <3>3, <4>1, ItemFacts
      <4>3. \A z \in (0 + 1)..(j - 1) : z \in 1..(k - 1)
        BY <1>5
      <4>4. Named(fifo, 0, j) /\ NameAt(fifo, current_logger, 0) = current_logger
        BY Zenon, <3>3, <4>3 DEF Named, NameAt
      <4> QED BY Zenon, <2>0, <4>1, <4>2, <4>4 DEF NamesInv
    <3>5. 0 \in 0..k /\ Named(fifo, 0, k + 1) /\ current_logger = NameAt(fifo, current_logger, 0)
      <4>1. \A z \in (0 + 1)..((k + 1) - 1) : z \in 1..(k - 1) \/ z = k
        BY <1>5
      <4>2. 0 \in 0..k
        BY <1>5
      <4> QED BY Zenon, <1>4, <2>0, <3>3, <4>1, <4>2 DEF Named, NameAt
    <3>6. AloneInv(fifo') /\ NamesInv(fifo', current_logger, last)
      BY Zenon, <1>1, <1>3, <2>0, <3>5, LineTaken
    <3> QED BY Zenon, <3>2, <3>4, <3>6
  <2> QED BY Zenon, <2>1, <2>2, <2>3
<1>10. StreamInv'
  BY Zenon, <1>2, <1>14 DEF LogInv, StreamInv
<1>11. ClosedInv'
  BY Zenon, <1>2, <1>8, NotClosed
<1>12. CASE UNCHANGED lines
  <2>1. LogTypeOK'
    BY Zenon, <1>2, <1>9, <1>12, TypeIs DEF LogInv, LogTypeOK, Item
  <2>2. LinesInv' /\ ShowsInv'
    BY Zenon, <1>2, <1>12 DEF LogInv, LinesInv, ShowsInv, Attributed, FitsMessage
  <2> QED BY Zenon, <1>10, <1>11, <2>1, <2>2 DEF LogInv
<1>13. CASE lines' = Append(lines, [logger |-> current_logger, text |-> line]) /\ k # 1
  <2> DEFINE e == [logger |-> current_logger, text |-> line]
             n == Len(lines)
  <2>1. \A j \in 1..Len(line) : line[j] \in Glyph
    <3>1. \A j \in 1..(k - 1) : j \in 1..Len(fifo)
      BY <1>5
    <3> QED BY Zenon, <1>4, <1>5, <1>6, <3>1, ItemFacts
  <2>2. line \in Seq(Glyph)
    BY Zenon, <1>6, <2>1, Narrower
  <2>3. e \in Line /\ e.text = line /\ e.logger = current_logger
    BY Zenon, <1>3, <2>2 DEF Line
  <2> HIDE DEF e
  <2>4. /\ lines' \in Seq(Line) /\ Len(lines') = n + 1 /\ n \in Nat
        /\ \A z \in 1..n : lines'[z] = lines[z]
    BY <1>3, <1>13, <2>3 DEF e
  <2>5. lines'[n + 1] = e
    BY <1>3, <1>13 DEF e
  <2>6. n <= n + 1 /\ n + 1 \in Nat /\ \A z \in 1..(n + 1) : z \in 1..n \/ z = n + 1
    BY <2>4
  <2>7. sent \in Seq(Part(n + 1)) /\ display \in Display(Len(sent), n + 1)
    BY Zenon, <2>6, MoreLines DEF LogInv
  <2> HIDE DEF n
  <2>8. LogTypeOK'
    BY Zenon, <1>2, <1>9, <2>4, <2>7, TypeIs DEF LogInv, LogTypeOK, Item, Line, Part, Display
  <2>9. LinesInv'
    <3>1. FitsMessage'
      BY Zenon, <1>2 DEF LogInv, LinesInv, FitsMessage
    <3>2. Attributed'
      <4> SUFFICES ASSUME ~posing
                   PROVE  \A z \in 1..Len(lines') : \A j \in 1..Len(lines'[z].text) :
                            lines'[z].text[j].file = lines'[z].logger
        BY Zenon, <1>2 DEF Attributed
      <4>1. \A z \in 1..n : \A j \in 1..Len(lines[z].text) : lines[z].text[j].file = lines[z].logger
        BY Zenon DEF LogInv, LinesInv, Attributed, n
      <4>2. lines' # lines
        <5>1. lines' = lines => n + 1 = n
          BY Zenon, <2>4 DEF n
        <5> QED BY <2>4, <5>1
      <4>3. \A j \in 1..Len(e.text) : e.text[j].file = e.logger
        <5>1. \A j \in 1..(k - 1) : fifo[j].file = current_logger
          BY Zenon, <1>14, <4>2
        <5>2. \A j \in 1..Len(line) : line[j].file = current_logger
          BY Zenon, <1>6, <5>1
        <5> QED BY Zenon, <2>3, <5>2
      <4> QED BY Zenon, <2>4, <2>5, <2>6, <4>1, <4>3
    <3>3. \A z \in 1..Len(lines') : lines'[z].text # <<>>
      BY Zenon, <1>7, <1>13, <2>3, <2>4, <2>5, <2>6 DEF LogInv, LinesInv, n
    <3> QED BY Zenon, <3>1, <3>2, <3>3 DEF LinesInv
  <2>10. ShowsInv'
    <3>1. \A z \in 1..n : z \in 1..(n + 1)
      BY <2>4
    <3>2. Plain(lines') => Plain(lines)
      BY Zenon, <2>4, <3>1 DEF Plain, n
    <3> QED BY Zenon, <1>2, <3>2 DEF LogInv, ShowsInv
  <2> QED BY Zenon, <1>10, <1>11, <2>8, <2>9, <2>10 DEF LogInv
<1> QED BY Zenon, <1>9, <1>12, <1>13

\* sed writes the parts of the next line.
LEMMA SedStep == ASSUME LogInv, Sed PROVE LogInv'
<1> DEFINE k == Done + 1
           x == lines[k].text
           t == Broken(k, x)
           N == Len(lines)
<1>1. k <= N /\ sent' = sent \o t /\ UNCHANGED <<fresh, pieces, last, fifo, current_logger, lines, display, posing>>
  BY Zenon DEF Sed
<1>2. lines \in Seq(Line) /\ sent \in Seq(Part(N)) /\ display \in Display(Len(sent), N)
  BY Zenon, TypeIs DEF LogInv
<1>3. N \in Nat /\ Len(sent) \in Nat
  BY <1>2
<1>4. Done = LineAt(sent, Len(sent)) /\ Done \in 0..N
  <2>1. CASE sent = <<>>
    BY <1>3, <2>1 DEF Done, LineAt
  <2>2. CASE sent # <<>>
    <3>1. Len(sent) # 0 /\ sent[Len(sent)] \in Part(N)
      BY <1>2, <2>2
    <3> QED BY <1>3, <2>2, <3>1 DEF Done, LineAt, Part
  <2> QED BY Zenon, <2>1, <2>2
<1>5. k \in 1..N
  BY <1>1, <1>3, <1>4
<1> HIDE DEF k, N
<1>6. x \in Seq(Glyph) /\ x # <<>>
  <2>1. lines[k] \in Line /\ lines[k].text # <<>>
    BY Zenon, <1>2, <1>5, ElementOf DEF LogInv, LinesInv, N
  <2> QED BY Zenon, <2>1 DEF Line
<1> HIDE DEF x
<1>7. /\ t \in Seq([line : {k}, len : Nat, more : BOOLEAN]) /\ Len(t) \in Nat \ {0}
      /\ \A j \in 1..Len(t) : t[j].line = k /\ t[j].len < MessageSize
      /\ Len(x) % Chunk # 0 /\ (\A j \in 1..Len(x) : x[j].c # "\\") =>
           ~t[Len(t)].more /\ \A j \in 1..(Len(t) - 1) : t[j].more
  BY Zenon, <1>6, BrokenIs
<1> HIDE DEF t
<1>8. t \in Seq(Part(N))
  <2>1. [line : {k}, len : Nat, more : BOOLEAN] \subseteq Part(N)
    BY Zenon, <1>5 DEF Part
  <2> QED BY Zenon, <1>7, <2>1, Wider
<1>9. /\ sent' \in Seq(Part(N)) /\ Len(sent') = Len(sent) + Len(t)
      /\ \A z \in 1..Len(sent) : sent'[z] = sent[z]
      /\ \A z \in (Len(sent) + 1)..(Len(sent) + Len(t)) : sent'[z] = t[z - Len(sent)]
  BY Zenon, <1>1, <1>2, <1>8, Joined
<1>10. LogTypeOK'
  <2>1. 0..Len(sent) \subseteq 0..Len(sent')
    BY <1>3, <1>7, <1>9
  <2>2. display \in Display(Len(sent'), N)
    BY Zenon, <1>2, <2>1 DEF Display
  <2> QED BY Zenon, <1>1, <1>9, <2>2 DEF LogInv, LogTypeOK, Part, Display, N
<1>11. StreamInv'
  BY Zenon, <1>1 DEF LogInv, StreamInv
<1>12. LinesInv'
  <2>1. ASSUME NEW z \in 1..Len(sent') PROVE sent'[z].len < MessageSize
    <3>1. CASE z <= Len(sent)
      <4>1. z \in 1..Len(sent)
        BY <1>3, <3>1
      <4> QED BY Zenon, <1>9, <4>1 DEF LogInv, LinesInv, FitsMessage
    <3>2. CASE ~(z <= Len(sent))
      <4>1. z \in (Len(sent) + 1)..(Len(sent) + Len(t)) /\ z - Len(sent) \in 1..Len(t)
        BY <1>3, <1>7, <1>9, <3>2
      <4> QED BY Zenon, <1>7, <1>9, <4>1
    <3> QED BY Zenon, <3>1, <3>2
  <2> QED BY Zenon, <1>1, <2>1 DEF LogInv, LinesInv, Attributed, FitsMessage
<1>13. ShowsInv'
  <2> SUFFICES ASSUME Plain(lines) PROVE PartsInv(sent') /\ ShowInv(sent', display)
    BY Zenon, <1>1 DEF ShowsInv
  <2>1. PartsInv(sent) /\ ShowInv(sent, display)
    BY Zenon DEF LogInv, ShowsInv
  <2>2. Len(x) % Chunk # 0 /\ \A j \in 1..Len(x) : x[j].c # "\\"
    BY Zenon, <1>5 DEF Plain, N, x
  <2>3. PartsInv(sent \o t)
    <3>1. Len(t) # 0 /\ k = LineAt(sent, Len(sent)) + 1
      BY Zenon, <1>4, <1>7 DEF k
    <3> QED BY Zenon, <1>2, <1>3, <1>7, <1>8, <2>1, <2>2, <3>1, PartsKeep
  <2>4. display.taken \in 0..Len(sent)
    BY Zenon, <1>2 DEF Display
  <2>5. display.taken = 0 \/ display.taken \in 1..Len(sent)
    BY <1>3, <2>4
  <2>6. ShowInv(sent', display)
    BY Zenon, <1>9, <2>1, <2>5 DEF ShowInv, Ends, LineAt
  <2> QED BY Zenon, <1>1, <2>3, <2>6
<1>14. ClosedInv'
  <2>1. Done # Len(lines)
    BY <1>3, <1>4, <1>5 DEF k, N
  <2> QED BY Zenon, <1>1, <2>1, NotClosed DEF LogInv, ClosedInv
<1> QED BY Zenon, <1>10, <1>11, <1>12, <1>13, <1>14 DEF LogInv

\* Sums of lengths.
LEMMA Plus ==
  ASSUME NEW a \in Nat, NEW b \in Nat
  PROVE  (a + (b + 1)) + 0 = (a + b) + 1 /\ a + (b + 1) = (a + b) + 1 /\ (a + b) + 0 = a + b
  OBVIOUS

\* The columnizer takes a line, or comes to its end.
LEMMA ColumnizeStep == ASSUME LogInv, Columnize PROVE LogInv'
<1> DEFINE m == display.taken
           N == Len(lines)
           rest == SubSeq(sent, m + 1, Len(sent))
<1>1. display.open /\ UNCHANGED <<fresh, pieces, last, fifo, current_logger, lines, sent, posing>>
  BY Zenon DEF Columnize
<1>2. /\ lines \in Seq(Line) /\ sent \in Seq(Part(N)) /\ m \in 0..Len(sent)
      /\ display.buffer \in Seq(Seq(1..N)) /\ display.shown \in Seq(Seq(1..N))
      /\ display \in Display(Len(sent), N)
  BY Zenon, TypeIs DEF LogInv, Display
<1>3. N \in Nat /\ Len(sent) \in Nat /\ Len(display.shown) \in Nat /\ Len(display.buffer) \in Nat
  BY <1>2
<1>0. LET L == Len(display.shown)
          B == Len(display.buffer)
      IN  (L + (B + 1)) + 0 = (L + B) + 1 /\ L + (B + 1) = (L + B) + 1 /\ (L + B) + 0 = L + B
  BY Zenon, <1>3, Plus
<1>4. /\ rest \in Seq(Part(N)) /\ Len(rest) = Len(sent) - m
      /\ \A z \in 1..(Len(sent) - m) : rest[z] = sent[m + z]
  BY Zenon, <1>2, Behind
<1> HIDE DEF rest, m, N
<1>5. StreamInv' /\ LinesInv'
  BY Zenon, <1>1 DEF LogInv, StreamInv, LinesInv, Attributed, FitsMessage
<1>6. ASSUME NEW k \in 1..Len(rest), ~rest[k].more, \A j \in 1..(k - 1) : rest[j].more,
             LET b == Append(display.buffer, [j \in 1..k |-> rest[j].line])
             IN  display' = [display EXCEPT !.taken = @ + k,
                               !.buffer = IF Len(b) > Height \div 2 THEN <<>> ELSE b,
                               !.shown  = IF Len(b) > Height \div 2 THEN @ \o b ELSE @]
      PROVE  LogTypeOK' /\ ShowsInv' /\ ClosedInv'
  <2> DEFINE w == [j \in 1..k |-> rest[j].line]
             b == Append(display.buffer, w)
             buf == IF Len(b) > Height \div 2 THEN <<>> ELSE b
             sho == IF Len(b) > Height \div 2 THEN display.shown \o b ELSE display.shown
  <2>1. k \in Nat \ {0} /\ k \in 1..(Len(sent) - m) /\ m + k \in 0..Len(sent)
    BY <1>2, <1>3, <1>4, <1>6
  <2>2. \A j \in 1..k : j \in 1..(Len(sent) - m) /\ j \in 1..Len(rest) /\ m + j \in 1..Len(sent)
    BY <1>2, <1>3, <1>4, <2>1
  <2>3. w \in Seq(1..N) /\ Len(w) = k /\ \A j \in 1..k : w[j] = sent[m + j].line
    <3>0. \A j \in 1..k : rest[j] \in Part(N)
      BY Zenon, <1>4, <2>2, ElementOf
    <3>1. \A j \in 1..k : rest[j].line \in 1..N
      BY Zenon, <3>0 DEF Part
    <3>2. w \in [1..k -> 1..N]
      BY Zenon, <3>1
    <3>3. w \in Seq(1..N) /\ Len(w) = k
      <4> HIDE DEF w
      <4> QED BY Zenon, <2>1, <3>2, Listed
    <3> QED BY Zenon, <1>4, <2>2, <3>3
  <2>4. display' = [display EXCEPT !.taken = m + k, !.buffer = buf, !.shown = sho]
    BY Zenon, <1>6 DEF m
  <2> HIDE DEF w
  <2>5. b \in Seq(Seq(1..N))
    BY <1>2, <2>3
  <2> HIDE DEF b
  <2>6. buf \in Seq(Seq(1..N)) /\ sho \in Seq(Seq(1..N))
    <3>1. display.shown \o b \in Seq(Seq(1..N))
      BY Zenon, <1>2, <2>5, JoinLen
    <3>2. <<>> \in Seq(Seq(1..N))
      OBVIOUS
    <3> QED BY Zenon, <1>2, <2>5, <3>1, <3>2
  <2> HIDE DEF buf, sho
  <2>7. /\ display'.taken = m + k /\ display'.buffer = buf /\ display'.shown = sho /\ display'.open
        /\ display' \in Display(Len(sent), N)
    BY Zenon, <1>1, <1>2, <2>1, <2>4, <2>6 DEF Display
  <2>8. LogTypeOK'
    BY Zenon, <1>1, <2>7 DEF LogInv, LogTypeOK, Part, Display, N
  <2>9. ClosedInv'
    BY Zenon, <2>7 DEF ClosedInv
  <2>10. ASSUME PartsInv(sent), ShowInv(sent, display) PROVE ShowInv(sent, display')
    <3>0. /\ Ends(sent, m) /\ Len(display.shown) + Len(display.buffer) = LineAt(sent, m)
          /\ InOrder(display.shown, 0) /\ InOrder(display.buffer, Len(display.shown))
      BY Zenon, <2>10 DEF ShowInv, m
    <3>1. ~sent[m + k].more /\ \A j \in 1..(k - 1) : sent[m + j].more
      <4>1. k \in 1..k /\ \A j \in 1..(k - 1) : j \in 1..k
        BY <2>1
      <4> QED BY Zenon, <1>4, <1>6, <2>2, <4>1
    <3>2. /\ \A j \in 1..k : sent[m + j].line = LineAt(sent, m) + 1
          /\ Ends(sent, m + k) /\ LineAt(sent, m + k) = LineAt(sent, m) + 1
      BY Zenon, <1>2, <1>3, <2>1, <2>10, <3>0, <3>1, NextLine
    <3>3. \A j \in 1..Len(w) : w[j] = (Len(display.shown) + Len(display.buffer)) + 1
      BY Zenon, <2>3, <3>0, <3>2
    <3>4. Len(b) = Len(display.buffer) + 1 /\ InOrder(b, Len(display.shown))
      BY Zenon, <1>2, <1>3, <2>3, <3>0, <3>3, RunGrows DEF b
    <3>5. InOrder(sho, 0) /\ InOrder(buf, Len(sho)) /\ Len(sho) + Len(buf) = LineAt(sent, m) + 1
      <4>1. CASE Len(b) > Height \div 2
        <5>1. sho = display.shown \o b /\ buf = <<>>
          BY Zenon, <4>1 DEF sho, buf
        <5>2. 0 + Len(display.shown) = Len(display.shown) /\ 0 \in Nat
          BY <1>3
        <5>3. InOrder(display.shown \o b, 0)
          BY Zenon, <1>2, <2>5, <3>0, <3>4, <5>2, RunsJoin
        <5>4. Len(display.shown \o b) = Len(display.shown) + Len(b)
          BY Zenon, <1>2, <2>5, JoinLen
        <5>5. InOrder(buf, Len(sho)) /\ Len(buf) = 0
          BY <5>1 DEF InOrder
        <5>6. Len(sho) + Len(buf) = LineAt(sent, m) + 1
          <6>1. Len(sho) = Len(display.shown) + (Len(display.buffer) + 1)
            BY Zenon, <3>4, <5>1, <5>4
          <6> QED BY Zenon, <1>0, <3>0, <5>5, <6>1
        <5> QED BY Zenon, <5>1, <5>3, <5>5, <5>6
      <4>2. CASE ~(Len(b) > Height \div 2)
        <5>1. sho = display.shown /\ buf = b
          BY Zenon, <4>2 DEF sho, buf
        <5>2. Len(sho) + Len(buf) = LineAt(sent, m) + 1
          BY Zenon, <1>0, <3>0, <3>4, <5>1
        <5> QED BY Zenon, <3>0, <3>4, <5>1, <5>2
      <4> QED BY Zenon, <4>1, <4>2
    <3> QED BY Zenon, <2>7, <3>2, <3>5 DEF ShowInv
  <2>11. ShowsInv'
    BY Zenon, <1>1, <2>10 DEF LogInv, ShowsInv
  <2> QED BY Zenon, <2>8, <2>9, <2>11
<1>7. ASSUME pieces = MaxPieces, ~HasLine, \A f \in Files : fresh[f] = <<>>, Done = Len(lines),
             \A k \in 1..Len(rest) : rest[k].more,
             display' = [display EXCEPT !.shown = @ \o display.buffer, !.buffer = <<>>, !.open = FALSE]
      PROVE  LogTypeOK' /\ ShowsInv' /\ ClosedInv'
  <2> DEFINE sho == display.shown \o display.buffer
  <2>1. sho \in Seq(Seq(1..N)) /\ Len(sho) = Len(display.shown) + Len(display.buffer)
    BY Zenon, <1>2, JoinLen
  <2>0. display' = [display EXCEPT !.shown = sho, !.buffer = <<>>, !.open = FALSE]
    BY Zenon, <1>7
  <2> HIDE DEF sho
  <2>2. /\ display'.taken = m /\ display'.buffer = <<>> /\ display'.shown = sho /\ display'.open = FALSE
        /\ display' \in Display(Len(sent), N)
    <3>1. <<>> \in Seq(Seq(1..N))
      OBVIOUS
    <3> QED BY Zenon, <1>2, <2>0, <2>1, <3>1 DEF Display, m
  <2>3. LogTypeOK'
    BY Zenon, <1>1, <2>2 DEF LogInv, LogTypeOK, Part, Display, N
  <2>4. ASSUME PartsInv(sent), ShowInv(sent, display)
        PROVE  ShowInv(sent, display') /\ Len(sho) = Len(lines)
    <3>0. /\ Ends(sent, m) /\ Len(display.shown) + Len(display.buffer) = LineAt(sent, m)
          /\ InOrder(display.shown, 0) /\ InOrder(display.buffer, Len(display.shown))
      BY Zenon, <2>4 DEF ShowInv, m
    <3>1. 0 + Len(display.shown) = Len(display.shown) /\ 0 \in Nat
      BY <1>3
    <3>2. InOrder(sho, 0)
      BY Zenon, <1>2, <3>0, <3>1, RunsJoin DEF sho
    <3>3. InOrder(<<>>, Len(sho)) /\ Len(<<>>) = 0
      BY DEF InOrder
    <3>4. Len(sho) + Len(<<>>) = LineAt(sent, m)
      BY Zenon, <1>0, <2>1, <3>0, <3>3
    <3>5. ShowInv(sent, display')
      BY Zenon, <2>2, <3>0, <3>2, <3>3, <3>4 DEF ShowInv
    <3>6. m = Len(sent)
      <4> SUFFICES ASSUME m # Len(sent) PROVE FALSE
        BY Zenon
      <4>1. Len(rest) \in 1..Len(rest) /\ Len(rest) \in 1..(Len(sent) - m) /\ m + Len(rest) = Len(sent)
            /\ Len(sent) # 0
        <5>1. m \in 0..Len(sent) /\ Len(sent) \in Nat /\ Len(rest) = Len(sent) - m /\ m # Len(sent)
          BY Zenon, <1>2, <1>3, <1>4
        <5> QED BY ONLY SMTT(30), <5>1
      <4>2. sent[Len(sent)].more
        BY Zenon, <1>4, <1>7, <4>1
      <4> QED BY Zenon, <2>4, <4>1, <4>2 DEF PartsInv, Ends
    <3>7. LineAt(sent, Len(sent)) = Done
      BY <1>2 DEF LineAt, Done
    <3> QED BY Zenon, <1>7, <2>1, <3>0, <3>5, <3>6, <3>7
  <2>5. ShowsInv'
    BY Zenon, <1>1, <2>4 DEF LogInv, ShowsInv
  <2>6. ClosedInv'
    BY Zenon, <1>1, <1>7, <2>2, <2>4 DEF LogInv, ShowsInv, ClosedInv, HasLine, Done
  <2> QED BY Zenon, <2>3, <2>5, <2>6
<1>8. LogTypeOK' /\ ShowsInv' /\ ClosedInv'
  <2>1. CASE \E k \in 1..Len(rest) :
               /\ ~rest[k].more /\ \A j \in 1..(k - 1) : rest[j].more
               /\ LET b == Append(display.buffer, [j \in 1..k |-> rest[j].line])
                  IN  display' = [display EXCEPT !.taken = @ + k,
                                    !.buffer = IF Len(b) > Height \div 2 THEN <<>> ELSE b,
                                    !.shown  = IF Len(b) > Height \div 2 THEN @ \o b ELSE @]
    BY Zenon, <1>6, <2>1
  <2>2. CASE /\ pieces = MaxPieces /\ ~HasLine /\ \A f \in Files : fresh[f] = <<>>
             /\ Done = Len(lines) /\ \A k \in 1..Len(rest) : rest[k].more
             /\ display' = [display EXCEPT !.shown = @ \o display.buffer, !.buffer = <<>>, !.open = FALSE]
    BY Zenon, <1>7, <2>2
  <2> QED BY Zenon, <2>1, <2>2 DEF Columnize, rest, m
<1> QED BY Zenon, <1>5, <1>8 DEF LogInv

-----------------------------------------------------------------------------
\* Nothing has been written, and tail has announced the first file.
LEMMA LogBegins == LogInit => LogInv
<1> SUFFICES ASSUME LogInit PROVE LogInv
  BY Zenon
<1> DEFINE q == <<Header(last), Newline>>
<1>1. /\ fresh = [f \in Files |-> <<>>] /\ pieces = 0 /\ last \in Files /\ fifo = q
      /\ current_logger = NoFile /\ lines = <<>> /\ sent = <<>>
      /\ display = [taken |-> 0, buffer |-> <<>>, shown |-> <<>>, open |-> TRUE]
      /\ posing = FALSE
  BY Zenon DEF LogInit
<1>2. q \in Seq(Item) /\ Len(q) = 2 /\ q[1] = Header(last) /\ q[2] = Newline
  BY <1>1, ItemFacts
<1>3. Header(last).c = "==>" /\ Header(last).file = last /\ Newline.c = "\n"
      /\ ~IsText(Header(last)) /\ ~IsText(Newline)
  BY Zenon, ItemFacts
<1> HIDE DEF q
<1>4. AloneInv(q) /\ NamesInv(q, NoFile, last)
  <2>1. AloneInv(q)
    BY <1>2, <1>3 DEF AloneInv
  <2>2. ASSUME NEW j \in 0..Len(q), NEW k \in 1..Len(q) PROVE ~IsText(q[k])
    BY <1>2, <1>3
  <2>3. ASSUME NEW j \in 0..Len(q), Named(q, j, Len(q) + 1) PROVE NameAt(q, NoFile, j) = last
    BY <1>2, <1>3, <2>3 DEF Named, NameAt
  <2>4. 0 \in 0..Len(q)
    BY <1>2
  <2> QED BY Zenon, <2>1, <2>2, <2>3, <2>4 DEF NamesInv
<1>5. \A S : <<>> \in Seq(S)
  OBVIOUS
<1>6. Len(lines) = 0 /\ Len(sent) = 0 /\ \A k : k \notin 1..0
  BY <1>1
<1>7. LogTypeOK
  <2>1. fresh \in [Files -> Seq(Item)]
    BY Zenon, <1>1, <1>5
  <2>2. pieces \in 0..MaxPieces
    BY <1>1, LogAssumption
  <2>3. display \in Display(Len(sent), Len(lines))
    <3>1. 0 \in 0..Len(sent)
      BY <1>6
    <3> QED BY Zenon, <1>1, <1>5, <3>1 DEF Display
  <2> QED BY Zenon, <1>1, <1>2, <1>5, <2>1, <2>2, <2>3, TypeIs
<1>8. StreamInv
  BY Zenon, <1>1, <1>4, <1>5 DEF StreamInv
<1>9. LinesInv
  BY Zenon, <1>6 DEF LinesInv, Attributed, FitsMessage
<1>10. ShowsInv /\ ClosedInv
  BY <1>1, <1>6 DEF ShowsInv, PartsInv, ShowInv, Ends, LineAt, InOrder, ClosedInv
<1> QED BY Zenon, <1>7, <1>8, <1>9, <1>10 DEF LogInv

\* In every behaviour of the log tools a line gets the name of the file it was
\* written to, unless a log has had text that looks like an announcement of
\* tail (wissbi_log_transformer.py); what is published fits a message (sed in
\* wissbi_log_collector.sh); and every line is shown whole, once and in order,
\* unless one ends with a chunk or holds a backslash (log_columnizer.sh).
THEOREM LogsAreShown == LogSpec => []LogsShown
<1>1. LogInit => LogInv
  BY Zenon, LogBegins
<1>2. ASSUME LogInv, [LogNext]_logVars PROVE LogInv'
  <2>1. CASE \E f \in Files : \E s \in Piece(f), newline \in BOOLEAN : Log(f, s, newline)
    BY Zenon, <1>2, <2>1, LogStep
  <2>2. CASE \E f \in Files : TailReads(f)
    BY Zenon, <1>2, <2>2, TailStep
  <2>3. CASE Transform
    BY Zenon, <1>2, <2>3, TransformStep
  <2>4. CASE Sed
    BY Zenon, <1>2, <2>4, SedStep
  <2>5. CASE Columnize
    BY Zenon, <1>2, <2>5, ColumnizeStep
  <2>6. CASE UNCHANGED logVars
    BY Zenon, <1>2, <2>6
       DEF logVars, LogInv, LogTypeOK, StreamInv, LinesInv, ShowsInv, ClosedInv, Attributed,
           FitsMessage, HasLine, Done
  <2> QED BY Zenon, <1>2, <2>1, <2>2, <2>3, <2>4, <2>5, <2>6 DEF LogNext
<1>3. LogInv => LogsShown
  <2> SUFFICES ASSUME LogInv PROVE LogsShown
    BY Zenon
  <2>1. ASSUME Plain(lines)
        PROVE  /\ InOrder(display.shown, 0)
               /\ ~display.open => Len(display.shown) = Len(lines)
    BY Zenon, <2>1 DEF LogInv, ShowsInv, ShowInv, ClosedInv
  <2>2. \A k \in 1..Len(display.shown) : 0 + k = k
    OBVIOUS
  <2>3. ShownWhole
    <3>1. ASSUME InOrder(display.shown, 0)
          PROVE  \A k \in 1..Len(display.shown) : \A j \in 1..Len(display.shown[k]) : display.shown[k][j] = k
      BY Zenon, <2>2, <3>1 DEF InOrder
    <3> SUFFICES ASSUME Plain(lines)
                 PROVE  /\ \A k \in 1..Len(display.shown) : \A j \in 1..Len(display.shown[k]) : display.shown[k][j] = k
                        /\ ~display.open => Len(display.shown) = Len(lines)
      BY Zenon DEF ShownWhole
    <3> QED BY Zenon, <2>1, <3>1
  <2> QED BY Zenon, <2>3 DEF LogsShown, LogInv, LinesInv
<1> QED BY <1>1, <1>2, <1>3, PTL DEF LogSpec

=============================================================================
