----------------------------- MODULE FilterDaemon ---------------------------
(***************************************************************************)
(* A daemon made with scripts/wissbi_filter_template.sh: start, stop,      *)
(* restart and status, and the processes they leave in the background.     *)
(* Every start makes a new generation g of each instance i:                *)
(*   head[i][g]   wissbi-sub, or the filter if there is no source, writing *)
(*                to the fifo; its pid is in PREFIX-i.pid;                 *)
(*   tail[i][g]   the shell that runs "cat fifo | filter | pub ; rm"; its  *)
(*                pid is in PREFIX-i.pid.wait.                             *)
(* With an extra source there is one more reader-side fifo, with a fixed   *)
(* name, and a shell that runs "sub > fifo ; rm fifo".                     *)
(***************************************************************************)
EXTENDS Integers

CONSTANTS Count,    \* WISSBI_FILTER_COUNT
          MaxGen,   \* bound on the starts
          MaxLines  \* bound on the lines a head prints

ASSUME DaemonAssumption == Count \in Nat \ {0} /\ MaxGen \in Nat /\ MaxLines \in Nat

Inst == 1..Count
Gen  == 1..MaxGen

\* Places in start(): mkfifo, then "&" and "echo $! > file" of each process.
Starting == {"extra", "xfork", "xpid", "head", "headpid", "tail", "tailpid"}

Ended == {"gone", "failed"}   \* the tail has ended; its filter had failed

VARIABLES pc, op, i, gen,        \* the script: place, command, loop, generation
          pidf, waitf,           \* generation in the pid files of i, 0: no file
          head, tail,            \* processes of each instance and generation
          wrote, took,           \* lines head wrote; lines the filter took
          cut,                   \* history: starts killed before "echo $!"
          extra,                 \* there is an extra source
          xfifo, xproc, xpidf    \* its fifo, its shells, its pid file

script == <<pc, op, i, gen, cut>>
files  == <<pidf, waitf>>
flow   == <<wrote, took>>
xvars  == <<extra, xfifo, xproc, xpidf>>
daemonVars == <<script, files, head, tail, flow, xvars>>

DaemonTypeOK ==
  /\ pc \in {"idle", "stopped", "kill", "wait"} \cup Starting
  /\ cut \subseteq (0..Count) \X Gen
  /\ op \in {"start", "stop"} /\ i \in 1..Count + 1 /\ gen \in 0..MaxGen
  /\ pidf \in [Inst -> 0..MaxGen] /\ waitf \in [Inst -> 0..MaxGen]
  /\ head \in [Inst -> [Gen -> {"none", "opening", "running", "term", "gone"}]]
  /\ tail \in [Inst -> [Gen -> {"none", "opening", "running", "nofilter"} \cup Ended]]
  /\ wrote \in [Inst -> [Gen -> 0..MaxLines]] /\ took \in [Inst -> [Gen -> 0..MaxLines]]
  /\ extra \in BOOLEAN /\ xfifo \in BOOLEAN /\ xpidf \in 0..MaxGen
  /\ xproc \in [Gen -> {"none", "running", "term", "gone"}]

ForAll(x) == [j \in Inst |-> [g \in Gen |-> x]]

DaemonInit ==
  /\ pc = "idle" /\ op = "stop" /\ i = 1 /\ gen = 0 /\ cut = {}
  /\ pidf = [j \in Inst |-> 0] /\ waitf = pidf
  /\ head = ForAll("none") /\ tail = head /\ wrote = ForAll(0) /\ took = wrote
  /\ extra \in BOOLEAN /\ xfifo = FALSE /\ xpidf = 0
  /\ xproc = [g \in Gen |-> "none"]

-----------------------------------------------------------------------------
(* The script.                                                             *)

\* "start" and "restart" stop first; "status" only reads.
Call(c) ==
  /\ pc \in {"idle", "stopped"} /\ (c = "start" => gen < MaxGen)
  /\ op' = c /\ pc' = "kill" /\ i' = 1
  /\ UNCHANGED <<gen, cut, files, head, tail, flow, xvars>>

\* kill of a process: a shell that still waits for the fifo dies at once, a
\* subscriber first cleans up.
Signalled(h) ==
  CASE h = "opening" -> "gone" [] h = "running" -> "term" [] OTHER -> h

\* Mutant: the pid file is removed and nothing killed.
StopKillForgets ==
  /\ pc = "kill" /\ i <= Count
  /\ pidf' = [pidf EXCEPT ![i] = 0] /\ i' = i + 1
  /\ UNCHANGED <<pc, op, gen, cut, waitf, head, tail, flow, xvars>>

\* stop(), first loop: kill what the pid file of i names, remove the file.
StopKill ==
  /\ pc = "kill" /\ i <= Count
  /\ head' = IF pidf[i] = 0 THEN head
             ELSE [head EXCEPT ![i][pidf[i]] = Signalled(@)]
  /\ pidf' = [pidf EXCEPT ![i] = 0] /\ i' = i + 1
  /\ UNCHANGED <<pc, op, gen, cut, waitf, tail, flow, xvars>>

\* ... then PREFIX-extra-0.pid; get_child_recursive finds the subscriber.
StopKillExtra ==
  /\ pc = "kill" /\ i = Count + 1
  /\ xproc' = IF xpidf # 0 /\ xproc[xpidf] = "running"
              THEN [xproc EXCEPT ![xpidf] = "term"] ELSE xproc
  /\ xpidf' = 0 /\ pc' = "wait" /\ i' = 1
  /\ UNCHANGED <<op, gen, cut, files, head, tail, flow, extra, xfifo>>

\* Mutant: the second loop waits for the process of the pid file, not of the
\* wait file.
StopWaitHead ==
  /\ pc = "wait" /\ i <= Count
  /\ waitf[i] # 0 => head[i][waitf[i]] = "gone"
  /\ waitf' = [waitf EXCEPT ![i] = 0] /\ i' = i + 1
  /\ UNCHANGED <<pc, op, gen, cut, pidf, head, tail, flow, xvars>>

\* stop(), second loop: wait until the shell of i has left /proc.
StopWait ==
  /\ pc = "wait" /\ i <= Count
  /\ waitf[i] # 0 => tail[i][waitf[i]] \in Ended
  /\ waitf' = [waitf EXCEPT ![i] = 0] /\ i' = i + 1
  /\ UNCHANGED <<pc, op, gen, cut, pidf, head, tail, flow, xvars>>

\* "is stopped"; for start and restart the next generation begins.
StopDone ==
  /\ pc = "wait" /\ i = Count + 1 /\ i' = 1
  /\ IF op = "stop" THEN pc' = "stopped" /\ UNCHANGED gen
                    ELSE pc' = "extra" /\ gen' = gen + 1
  /\ UNCHANGED <<op, cut, files, head, tail, flow, xvars>>

\* start(): the fifo of the extra source of instance i, if there is one.
\* mkfifo fails on a name that exists, and errexit ends the script.
StartExtra ==
  /\ pc = "extra"
  /\ CASE ~extra -> pc' = "head" /\ UNCHANGED xfifo
       [] extra /\ xfifo -> pc' = "idle" /\ UNCHANGED xfifo
       [] OTHER -> pc' = "xfork" /\ xfifo' = TRUE
  /\ UNCHANGED <<op, i, gen, cut, files, head, tail, flow, extra, xproc, xpidf>>

\* ... its shell, and then the pid file of that.  The file that an earlier
\* instance of this start left names a process that has ended, so none.
ForkExtra ==
  /\ pc = "xfork" /\ pc' = "xpid"
  /\ xproc' = [xproc EXCEPT ![gen] = "running"] /\ xpidf' = 0
  /\ UNCHANGED <<op, i, gen, cut, files, head, tail, flow, extra, xfifo>>

NameExtra ==
  /\ pc = "xpid" /\ pc' = "head" /\ xpidf' = gen
  /\ UNCHANGED <<op, i, gen, cut, files, head, tail, flow, extra, xfifo, xproc>>

\* ... the head of i: the shell that opens the fifo for writing.
StartHead ==
  /\ pc = "head" /\ pc' = "headpid"
  /\ head' = [head EXCEPT ![i][gen] = "opening"]
  /\ UNCHANGED <<op, i, gen, cut, files, tail, flow, xvars>>

NameHead ==
  /\ pc = "headpid" /\ pc' = "tail" /\ pidf' = [pidf EXCEPT ![i] = gen]
  /\ UNCHANGED <<op, i, gen, cut, waitf, head, tail, flow, xvars>>

\* ... its tail.
StartTail ==
  /\ pc = "tail" /\ pc' = "tailpid"
  /\ tail' = [tail EXCEPT ![i][gen] = "opening"]
  /\ UNCHANGED <<op, i, gen, cut, files, head, flow, xvars>>

\* After the last instance start() ends with status().
NameTail ==
  /\ pc = "tailpid" /\ waitf' = [waitf EXCEPT ![i] = gen]
  /\ IF i = Count THEN pc' = "idle" /\ UNCHANGED i ELSE pc' = "extra" /\ i' = i + 1
  /\ UNCHANGED <<op, gen, cut, pidf, head, tail, flow, xvars>>

\* The script is killed during start(), perhaps between "&" and "echo $!".
Killed ==
  /\ pc \in Starting /\ pc' = "idle"
  /\ cut' = CASE pc = "xpid" -> cut \cup {<<0, gen>>}
              [] pc \in {"headpid", "tailpid"} -> cut \cup {<<i, gen>>}
              [] OTHER -> cut
  /\ UNCHANGED <<op, i, gen, files, head, tail, flow, xvars>>

-----------------------------------------------------------------------------
(* The processes.                                                          *)

HeadGoes(j, g, from, to) == head[j][g] \in from /\ head' = [head EXCEPT ![j][g] = to]
TailGoes(j, g, from, to) == tail[j][g] \in from /\ tail' = [tail EXCEPT ![j][g] = to]

\* open() of a fifo returns when the other side opens it.
Opens(j, g) ==
  /\ HeadGoes(j, g, {"opening"}, "running") /\ TailGoes(j, g, {"opening"}, "running")
  /\ UNCHANGED <<script, files, flow, xvars>>

\* The head prints a line; with no reader left it gets a SIGPIPE.
Prints(j, g) ==
  /\ head[j][g] \in {"running", "term"} /\ wrote[j][g] < MaxLines
  /\ IF tail[j][g] \in Ended
     THEN HeadGoes(j, g, {"running", "term"}, "gone") /\ UNCHANGED wrote
     ELSE wrote' = [wrote EXCEPT ![j][g] = @ + 1] /\ UNCHANGED head
  /\ UNCHANGED <<script, files, tail, took, xvars>>

\* The head ends: it has cleaned up after the kill, or on its own.
HeadEnds(j, g) ==
  /\ HeadGoes(j, g, {"term", "running"}, "gone")
  /\ UNCHANGED <<script, files, tail, flow, xvars>>

\* The filter takes a line.
Takes(j, g) ==
  /\ tail[j][g] = "running" /\ took[j][g] < wrote[j][g]
  /\ took' = [took EXCEPT ![j][g] = @ + 1]
  /\ UNCHANGED <<script, files, head, tail, wrote, xvars>>

\* The filter fails; cat stays until it writes or reaches the end.
FilterDies(j, g) ==
  /\ TailGoes(j, g, {"running"}, "nofilter")
  /\ UNCHANGED <<script, files, head, flow, xvars>>

\* cat reaches the end of the fifo, or has a line and nobody to give it to;
\* the pipeline ends and the fifo is removed.
TailEnds(j, g) ==
  /\ \/ head[j][g] = "gone" /\ took[j][g] = wrote[j][g] /\ TailGoes(j, g, {"running"}, "gone")
     \/ /\ head[j][g] = "gone" \/ took[j][g] < wrote[j][g]
        /\ TailGoes(j, g, {"nofilter"}, "failed")
  /\ UNCHANGED <<script, files, head, flow, xvars>>

\* The subscriber of the extra source has ended; its shell removes the fifo.
ExtraEnds(g) ==
  /\ xproc[g] \in {"running", "term"}
  /\ xproc' = [xproc EXCEPT ![g] = "gone"] /\ xfifo' = FALSE
  /\ UNCHANGED <<script, files, head, tail, flow, extra, xpidf>>

-----------------------------------------------------------------------------
Stop    == StopKill \/ StopKillExtra \/ StopWait \/ StopDone
DaemonStart == StartExtra \/ ForkExtra \/ NameExtra \/ StartHead \/ NameHead
                 \/ StartTail \/ NameTail
Process(j, g) == Opens(j, g) \/ Prints(j, g) \/ HeadEnds(j, g) \/ Takes(j, g)
                   \/ FilterDies(j, g) \/ TailEnds(j, g)

DaemonNext ==
  \/ \E c \in {"start", "stop"} : Call(c)
  \/ Stop \/ DaemonStart \/ Killed
  \/ \E j \in Inst, g \in Gen : Process(j, g)
  \/ \E g \in Gen : ExtraEnds(g)

\* The script runs; a process that was killed ends; cat and the filter go on.
\* Nothing is assumed of a head that was not killed.
DaemonFairness ==
  /\ WF_daemonVars(Stop) /\ WF_daemonVars(DaemonStart)
  /\ \A j \in Inst, g \in Gen :
       /\ WF_daemonVars(head[j][g] = "term" /\ HeadEnds(j, g))
       /\ WF_daemonVars(Takes(j, g)) /\ WF_daemonVars(TailEnds(j, g))

DaemonSpec == DaemonInit /\ [][DaemonNext]_daemonVars /\ DaemonFairness

-----------------------------------------------------------------------------
(* Properties.                                                             *)

\* start is naming the process that it has just put in the background.
Underway(place, j, g) == pc = place /\ i = j /\ gen = g

InFiles(j, g) ==
  /\ head[j][g] = "running" => pidf[j] = g
  /\ head[j][g] = "opening" =>
       \/ pidf[j] = g
       \/ Underway("headpid", j, g)
       \/ <<j, g>> \in cut /\ tail[j][g] = "none"
  /\ tail[j][g] \in {"opening", "running", "nofilter"} =>
       waitf[j] = g \/ Underway("tailpid", j, g) \/ <<j, g>> \in cut

ExtraInFile(g) ==
  xproc[g] = "running" => xpidf = g \/ (pc = "xpid" /\ gen = g) \/ <<0, g>> \in cut

\* No stop, start, restart or killed start leaves a process behind that the
\* pid files do not name, but for the one whose start was killed between "&"
\* and "echo $!" (start() in wissbi_filter_template.sh); and a head of that
\* kind is harmless: a head that runs is always in the pid file of its
\* instance, so that two generations never both take messages for it, and a
\* head left without a name has no tail and waits in open() for ever.  The
\* variables keep their types.
NoOrphans == DaemonTypeOK /\ \A g \in Gen : ExtraInFile(g) /\ \A j \in Inst : InFiles(j, g)

\* When stop reports that the daemon is stopped, the filters that did not
\* fail have taken every line their subscribers printed, as
\* filter_template_test2.sh counts on, and no tail is left: except the tail of
\* a start that was killed before "echo $! > ...pid.wait", for which the
\* second loop of stop() does not wait.  That one has no more to come than
\* what a subscriber that was told to end still prints.
StopDrains == pc = "stopped" => \A j \in Inst, g \in Gen :
  /\ \/ tail[j][g] \in {"none"} \cup Ended
     \/ <<j, g>> \in cut /\ head[j][g] # "running"
  /\ tail[j][g] = "gone" => took[j][g] = wrote[j][g]

\* stop ends, whatever lines are under way and whatever filter has failed, if
\* each fifo was open on both sides when it began.  Otherwise it may not: a
\* head killed in open() leaves cat in open() for ever.
StopEnds ==
  (pc = "kill" /\ i = 1 /\ \A j \in Inst, g \in Gen : tail[j][g] # "opening")
    ~> pc \in {"stopped", "extra"}
=============================================================================
