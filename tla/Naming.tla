------------------------------- MODULE Naming -------------------------------
(***************************************************************************)
(* The names of the meta directory: the entry a subscriber creates         *)
(* (sub_entry.hpp), what a publisher reads out of a directory              *)
(* (sub_dir.hpp), and the message queue it uses for what it read           *)
(* (sysv_mq.hpp).  A name is a sequence of characters; an address is one   *)
(* item, as it holds none of the characters that matter here.              *)
(***************************************************************************)
EXTENDS Naturals, Sequences, SequencesExt

CONSTANTS Addrs,     \* addresses of the subscribers
          Names,     \* queue names, none of them empty
          MaxDirs    \* directories made, the root included

VARIABLES dirs,      \* directories under sub/, the root being <<>>
          files,     \* entries, <<directory, file name>>
          sub        \* [name, topic] of each subscriber, name <<>> if not running

vars == <<dirs, files, sub>>

Idle == [name |-> <<>>, topic |-> FALSE]
Runs(a) == sub[a] # Idle

-----------------------------------------------------------------------------
(* util.hpp                                                                *)

Replaced(s, c, d) == [i \in 1..Len(s) |-> IF s[i] = c THEN d ELSE s[i]]

EscapeSubFolderPath(s) ==
  LET r == Replaced(s, "/", "#") IN IF Last(r) = "#" THEN Front(r) ELSE r

UnescapeSubFolderPath(s) == Replaced(s, "#", "/")

-----------------------------------------------------------------------------
(* What a path names: empty components do not count.                       *)

Resolved(n) ==
  LET InWord(i) == n[i] # "/"
      Kept(i) == InWord(i) \/ /\ i < Len(n) /\ n[i + 1] # "/"
                              /\ \E j \in 1..i - 1 : InWord(j)
  IN FoldLeft(LAMBDA acc, i : IF Kept(i) THEN Append(acc, n[i]) ELSE acc,
              <<>>, [i \in 1..Len(n) |-> i])

\* mkdir(2) makes the last component only.
CanMake(d) == \A k \in 2..Len(d) : d[k] = "/" => SubSeq(d, 1, k - 1) \in dirs

TypeOK ==
  /\ dirs \subseteq {<<>>} \union {Resolved(n) : n \in Names}
  /\ \A f \in files : f[1] \in dirs
  /\ sub \in [Addrs -> [name : Names \union {<<>>}, topic : BOOLEAN]]

-----------------------------------------------------------------------------
(* SubEntry and SubDir                                                     *)

NodeName(a, name, topic) ==
  <<a, ",">> \o EscapeSubFolderPath(name) \o (IF topic THEN <<".", a>> ELSE <<>>)

\* The constructor: a directory that cannot be made makes open fail, and the
\* exception ends the subscriber.
SubEntry(a, name, topic) ==
  /\ ~Runs(a) /\ Cardinality(dirs \union {Resolved(name)}) <= MaxDirs
  /\ IF CanMake(Resolved(name))
     THEN /\ dirs' = dirs \union {Resolved(name)}
          /\ files' = files \union {<<Resolved(name), NodeName(a, name, topic)>>}
          /\ sub' = [sub EXCEPT ![a] = [name |-> name, topic |-> topic]]
     ELSE UNCHANGED vars

Unlink(a) ==
  /\ Runs(a) /\ sub' = [sub EXCEPT ![a] = Idle]
  /\ files' = files \ {<<Resolved(sub[a].name), NodeName(a, sub[a].name, sub[a].topic)>>}
  /\ UNCHANGED dirs

\* Mutant: the entry is split at its last comma.
SplitLast(e) ==
  LET i == CHOOSE k \in 1..Len(e) : e[k] = "," /\ \A j \in k + 1..Len(e) : e[j] # ","
  IN <<SubSeq(e, 1, i - 1), UnescapeSubFolderPath(SubSeq(e, i + 1, Len(e)))>>

\* Every entry holds a comma, the one after the address.
Split(e) ==
  LET i == CHOOSE k \in 1..Len(e) : e[k] = "," /\ \A j \in 1..k - 1 : e[j] # ","
  IN <<SubSeq(e, 1, i - 1), UnescapeSubFolderPath(SubSeq(e, i + 1, Len(e)))>>

\* Directories among the entries are skipped, so only files are listed.
GetSubList(dest) == {Split(f[2]) : f \in {g \in files : g[1] = Resolved(dest)}}

\* SysvMq::mq_init: the key file, within the process, of a branch.
KeyFile(branch) == EscapeSubFolderPath(branch)

Init == dirs = {<<>>} /\ files = {} /\ sub = [a \in Addrs |-> Idle]

Next == \E a \in Addrs : \/ \E name \in Names, topic \in BOOLEAN : SubEntry(a, name, topic)
                         \/ Unlink(a)

-----------------------------------------------------------------------------
Running(n) == {a \in Addrs : Runs(a) /\ Resolved(sub[a].name) = Resolved(n)}

\* A publisher finds every running subscriber of its destination and nobody
\* else, once and at its address, whatever characters the names hold and
\* however the two programs spell the path: SubDir::GetSubList reads back what
\* SubEntry wrote.
ListedRight ==
  \A a \in Addrs : Runs(a) =>
    LET l == GetSubList(sub[a].name)
    IN {e[1] : e \in l} = {<<b>> : b \in Running(sub[a].name)}
       /\ \A e, f \in l : e[1] = f[1] => e = f

\* A name with one slash or hash at most at its end: "q" and "q//" are one
\* directory and one key file, and two branches.
Plain(n) ==
  LET core == IF Last(n) \in {"/", "#"} THEN Front(n) ELSE n
  IN core # <<>> /\ Last(core) \notin {"/", "#"}

BranchOf(a) == (CHOOSE e \in GetSubList(sub[a].name) : e[1] = <<a>>)[2]

\* Two subscribers of one directory share a branch, and so the messages,
\* exactly if both are in queue mode under one name, a slash at the end
\* apart; and the queues of two branches are two queues.  Topic subscribers
\* get every message each.
SharedOrOwn ==
  \A a, b \in Addrs :
    (/\ a # b /\ Runs(a) /\ Runs(b)
     /\ Plain(sub[a].name) /\ Plain(sub[b].name)
     /\ Resolved(sub[a].name) = Resolved(sub[b].name)) =>
      /\ (BranchOf(a) = BranchOf(b)) <=>
           (/\ ~sub[a].topic /\ ~sub[b].topic
            /\ \E m \in {sub[a].name, Append(sub[a].name, "/")} :
                 m \in {sub[b].name, Append(sub[b].name, "/")})
      /\ KeyFile(BranchOf(a)) = KeyFile(BranchOf(b)) => BranchOf(a) = BranchOf(b)

=============================================================================
