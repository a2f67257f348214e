------------------------------- MODULE Metrics ------------------------------
(***************************************************************************)
(* The metrics of one wissbi-pub process on their way to the collector:    *)
(* counters that producer threads and the main thread increase, a reporter *)
(* thread that turns them into reports once a second, the last Report() of *)
(* the main thread (src/pub.cpp, src/metric_reporter.hpp), the input       *)
(* filter that both share (io_policy/string.hpp), the queue and producer   *)
(* thread of the destination wissbi.metric (src/connector.hpp), and        *)
(* scripts/wsbmetric.py, which adds the reports up.                        *)
(***************************************************************************)
EXTENDS Integers, Sequences, FiniteSets

CONSTANTS EnqList,    \* metric_list: one "enqueue" metric per destination
          Drop,       \* the only element of drop_metric_list
          NoReport,   \* an empty message, or a buffer read to its end
          Torn,       \* what two threads in one string buffer may leave
          MaxCount,   \* bound on the events of each metric
          QCap,       \* reports the metric queue holds before it is full
          UIntMod     \* 2^32, the range of atomic_uint and of the collector

Enqueue == {EnqList[i] : i \in 1..Len(EnqList)}
Metric  == Enqueue \cup {Drop}
Report  == Metric \X (1..MaxCount)

ASSUME MetricsAssumption ==
  /\ EnqList \in Seq(Enqueue) /\ Drop \notin Enqueue
  /\ NoReport \notin Report \cup {Torn} /\ Torn \notin Report
  /\ MaxCount \in Nat /\ QCap \in Nat \ {0} /\ UIntMod \in Nat

\* The process counts fewer than 2^32 events in its life: a report that met a
\* full queue is never subtracted from metric_pending_counter again.
ASSUME EventsAssumption == MaxCount * Cardinality(Metric) < UIntMod

Reporter == {"reporter", "main"}

\* The metrics a call of Report() goes through, by the thread that makes it.
ListOf(r) == IF r = "main" THEN EnqList ELSE EnqList \o <<Drop>>

VARIABLES
  last,                 \* last_processed of each metric
  pc, pos, val,         \* the two threads: where, which metric, last_processed
  buf, bad, msg,        \* shared: buf_, the stream's failbit, msg_buf_
  branch, mq, pending,  \* branch of wissbi.metric, its queue, its counter
  other,                \* reports in the queue of another branch
  prodPc, prodMsg,      \* its producer thread
  wire,                 \* reports written and not read by the collector
  counter, collecting,  \* counter_map of the collector; it has not failed
  count, lost,          \* history: events of each metric; those in reports lost
  first,                \* history: the counters the collector started from
  overlap,              \* history: the two threads met inside the filter
  elsewhere             \* history: reports the other branch has written

reportVars == <<pc, pos, val>>
filterVars == <<buf, bad, msg>>
queueVars  == <<branch, mq, pending, other>>
prodVars   == <<prodPc, prodMsg>>
colVars    == <<wire, counter, collecting>>
histVars   == <<count, lost, first, overlap, elsewhere>>
vars       == <<last, reportVars, filterVars, queueVars, prodVars, colVars,
                histVars>>

InFilter(r) == pc[r] \in {"send", "get", "put", "post"}
Other(r)    == CHOOSE q \in Reporter : q # r
Current(r)  == ListOf(r)[pos[r]]

TypeOK ==
  /\ last \in [Metric -> 0..(UIntMod - 1)]
  /\ pc \in [Reporter -> {"filter", "sleep", "next", "send", "get", "put",
                          "post", "wait", "exited"}]
  /\ pos \in [Reporter -> 1..(Len(EnqList) + 2)] /\ val \in [Reporter -> 0..MaxCount]
  /\ {buf, msg, prodMsg} \subseteq Report \cup {NoReport, Torn}
  /\ mq \in Seq(Report \cup {NoReport, Torn}) /\ Len(mq) <= QCap
  /\ other \in 0..QCap /\ elsewhere \in Nat
  /\ wire \in Seq(Report \cup {Torn})
  /\ {bad, branch, overlap} \subseteq BOOLEAN /\ pending \in 0..(UIntMod - 1)
  /\ prodPc \in {"none", "get", "write", "post"}
  /\ counter \in [Metric -> 0..(UIntMod - 1)] /\ collecting \in BOOLEAN

Init ==
  /\ last = [m \in Metric |-> 0] /\ count = last /\ lost = last
  /\ pc = [r \in Reporter |-> IF r = "main" THEN "filter" ELSE "sleep"]
  /\ pos = [r \in Reporter |-> 1] /\ val = [r \in Reporter |-> 0]
  /\ buf = NoReport /\ msg = NoReport /\ prodMsg = NoReport
  /\ bad = FALSE /\ branch = FALSE /\ overlap = FALSE
  /\ mq = <<>> /\ wire = <<>> /\ pending = 0 /\ prodPc = "none"
  /\ other = 0 /\ elsewhere = 0
  /\ \E c \in {0, UIntMod - 1} : counter = [m \in Metric |-> c]
  /\ first = counter /\ collecting = TRUE

-----------------------------------------------------------------------------
(* What is counted.                                                        *)

Count(m) ==
  /\ count[m] < MaxCount /\ pc["main"] # "exited"
  /\ last' = [last EXCEPT ![m] = (@ + 1) % UIntMod]
  /\ count' = [count EXCEPT ![m] = @ + 1]
  /\ UNCHANGED <<reportVars, filterVars, queueVars, prodVars, colVars, lost,
                 first, overlap, elsewhere>>

\* The post filter of a producer thread, which runs until the process ends.
Processed(m) == m \in Enqueue /\ Count(m)

\* The main thread's post filter after a Tee::Put that failed on a branch.
Dropped == pc["main"] = "filter" /\ Count(Drop)

-----------------------------------------------------------------------------
(* MetricReporter::Report, by the reporter thread and by the main thread.  *)

ReporterGoes(r, from, to, p) ==
  /\ pc["main"] # "exited" /\ pc[r] = from
  /\ pc' = [pc EXCEPT ![r] = to]
  /\ pos' = [pos EXCEPT ![r] = p]

\* A second has passed; FilterLoop and the first wait have ended.
Wake ==
  /\ ReporterGoes("reporter", "sleep", "next", 1)
  /\ UNCHANGED <<last, val, filterVars, queueVars, prodVars, colVars, histVars>>

FilterLoopEnds ==
  /\ ReporterGoes("main", "filter", "next", 1)
  /\ UNCHANGED <<last, val, filterVars, queueVars, prodVars, colVars, histVars>>

\* last_processed.exchange(0); a metric with nothing to report is skipped.
Exchange(r) ==
  /\ pos[r] <= Len(ListOf(r))
  /\ LET n == last[Current(r)] IN
     /\ IF n = 0 THEN ReporterGoes(r, "next", "next", pos[r] + 1)
                 ELSE ReporterGoes(r, "next", "send", pos[r])
     /\ last' = [last EXCEPT ![Current(r)] = 0]
     /\ val' = [val EXCEPT ![r] = n]
     /\ overlap' = (overlap \/ (n > 0 /\ InFilter(Other(r))))
  /\ UNCHANGED <<filterVars, queueVars, prodVars, colVars, count, lost, first,
                 elsewhere>>

\* The end of the list.
ReportDone(r) ==
  /\ pos[r] > Len(ListOf(r))
  /\ ReporterGoes(r, "next", IF r = "main" THEN "wait" ELSE "sleep", 1)
  /\ UNCHANGED <<last, val, filterVars, queueVars, prodVars, colVars, histVars>>

\* String::Send replaces the contents of buf_.
SendString(r) ==
  /\ ReporterGoes(r, "send", "get", pos[r])
  /\ buf' = <<Current(r), val[r]>>
  /\ UNCHANGED <<last, val, bad, msg, queueVars, prodVars, colVars, histVars>>

\* Length::Get of the shared filter.  At the end of buf_, or once the stream
\* has failed, it fails; nothing ever clears the stream.
GetString(r) ==
  /\ IF bad \/ buf = NoReport
     THEN /\ ReporterGoes(r, "get", "next", pos[r] + 1)
          /\ bad' = TRUE /\ msg' = NoReport /\ UNCHANGED buf
     ELSE /\ ReporterGoes(r, "get", "put", pos[r])
          /\ msg' = buf /\ buf' = NoReport /\ UNCHANGED bad
  /\ UNCHANGED <<last, val, queueVars, prodVars, colVars, histVars>>

\* The same while the other thread is changing buf_: any text may result.
GetTorn(r) ==
  /\ InFilter(Other(r))
  /\ ReporterGoes(r, "get", "put", pos[r])
  /\ msg' = Torn /\ buf' = NoReport
  /\ UNCHANGED <<last, val, bad, queueVars, prodVars, colVars, histVars>>

\* The values of the reports in s on metric m, and what losing x costs.
Value(x, m) == IF x \in Report /\ x[1] = m THEN x[2] ELSE 0
InSeq(s, m) ==
  LET sum[i \in 0..Len(s)] == IF i = 0 THEN 0 ELSE sum[i - 1] + Value(s[i], m)
  IN  sum[Len(s)]
Loses(x) == lost' = [m \in Metric |-> lost[m] + Value(x, m)]

\* Tee::Put: to the queue of each branch that is there and has room.  Of a
\* branch other than the one followed here only the number of reports is kept.
\* It returns true in any case.
PutReport(r) ==
  /\ ReporterGoes(r, "put", "post", pos[r])
  /\ IF branch /\ Len(mq) < QCap
     THEN mq' = Append(mq, msg) /\ UNCHANGED lost
     ELSE Loses(msg) /\ UNCHANGED mq
  /\ other' \in {other} \cup {n \in {other + 1} : n <= QCap}
  /\ UNCHANGED <<last, val, filterVars, branch, pending, prodVars, colVars,
                 count, first, overlap, elsewhere>>

\* The post filter: one more is pending, whatever happened to it.
PostReport(r) ==
  /\ ReporterGoes(r, "post", "next", pos[r] + 1)
  /\ pending' = (pending + 1) % UIntMod
  /\ UNCHANGED <<last, val, filterVars, branch, mq, other, prodVars, colVars, histVars>>

\* The last wait ends, by the counter or by the timeout, and main() returns.
WaitEnds ==
  /\ ReporterGoes("main", "wait", "exited", 1)
  /\ UNCHANGED <<last, val, filterVars, queueVars, prodVars, colVars, histVars>>

-----------------------------------------------------------------------------
(* The Connector and the producer thread of wissbi.metric.                 *)

ProducerGoes(from, to) ==
  /\ pc["main"] # "exited" /\ prodPc = from /\ prodPc' = to
  /\ UNCHANGED <<last, reportVars, filterVars, count, first, overlap>>

\* A metric subscriber is found: its branch is made, its thread started.
Open ==
  /\ ProducerGoes("none", "get") /\ branch' = TRUE
  /\ UNCHANGED <<mq, pending, other, prodMsg, colVars, lost, elsewhere>>

ProdGet ==
  /\ mq # <<>> /\ ProducerGoes("get", "write")
  /\ prodMsg' = Head(mq) /\ mq' = Tail(mq)
  /\ UNCHANGED <<branch, pending, other, colVars, lost, elsewhere>>

ProdWrite ==
  /\ prodMsg # NoReport /\ ProducerGoes("write", "post")
  /\ wire' = Append(wire, prodMsg)
  /\ UNCHANGED <<queueVars, prodMsg, counter, collecting, lost, elsewhere>>

\* Mutant: the thread's FilterLoop counts the message twice.
ProdPostTwice ==
  /\ ProducerGoes("post", "get")
  /\ pending' = (pending + UIntMod - 2) % UIntMod /\ prodMsg' = NoReport
  /\ UNCHANGED <<branch, mq, other, colVars, lost, elsewhere>>

ProdPost ==
  /\ ProducerGoes("post", "get")
  /\ pending' = (pending + UIntMod - 1) % UIntMod /\ prodMsg' = NoReport
  /\ UNCHANGED <<branch, mq, other, colVars, lost, elsewhere>>

\* Mutant: a report that could not be written is forgotten.
ProdForgets ==
  /\ ProducerGoes("write", "none") /\ prodMsg' = NoReport
  /\ UNCHANGED <<queueVars, colVars, lost, elsewhere>>

\* The write is refused or fails: the message goes back on the queue if there
\* is room, and the thread ends.
ProdFails ==
  /\ ProducerGoes("write", "none") /\ prodMsg' = NoReport
  /\ IF Len(mq) < QCap THEN mq' = Append(mq, prodMsg) /\ UNCHANGED lost
                       ELSE Loses(prodMsg) /\ UNCHANGED mq
  /\ UNCHANGED <<branch, pending, other, colVars, elsewhere>>

\* The thread of another branch writes a report and counts it, or loses it.
OtherPost ==
  /\ pc["main"] # "exited" /\ other > 0 /\ other' = other - 1
  /\ \/ /\ pending' = (pending + UIntMod - 1) % UIntMod
        /\ elsewhere' = elsewhere + 1
     \/ UNCHANGED <<pending, elsewhere>>
  /\ UNCHANGED <<last, reportVars, filterVars, branch, mq, prodVars, colVars,
                 count, lost, first, overlap>>

-----------------------------------------------------------------------------
(* wsbmetric.py, behind a wissbi-sub that is not followed here.            *)

Add(c, n) == IF c + n > UIntMod - 1 THEN c + n - (UIntMod - 1) - 1 ELSE c + n

\* A line that has no three fields ends the script.
Collect ==
  /\ collecting /\ wire # <<>> /\ wire' = Tail(wire)
  /\ collecting' = (Head(wire) # Torn)
  /\ counter' = IF Head(wire) = Torn THEN counter
                ELSE [counter EXCEPT ![Head(wire)[1]] = Add(@, Head(wire)[2])]
  /\ UNCHANGED <<last, reportVars, filterVars, queueVars, prodVars, histVars>>

Next ==
  \/ \E m \in Enqueue : Processed(m)
  \/ Dropped \/ Wake \/ FilterLoopEnds \/ WaitEnds \/ Collect
  \/ \E r \in Reporter :
       \/ Exchange(r) \/ ReportDone(r) \/ SendString(r) \/ GetString(r)
       \/ GetTorn(r) \/ PutReport(r) \/ PostReport(r)
  \/ Open \/ ProdGet \/ ProdWrite \/ ProdPost \/ ProdFails
  \/ OtherPost

Spec == Init /\ [][Next]_vars

-----------------------------------------------------------------------------
(* Properties.                                                             *)

\* The part of metric m that the two threads have taken and not queued yet.
InHand(m) ==
  LET mine == {r \in Reporter : /\ pc[r] \in {"send", "get", "put"}
                                /\ Current(r) = m}
  IN  IF mine = {} THEN 0 ELSE val[CHOOSE r \in mine : TRUE]

Underway(m) ==
  last[m] + InHand(m) + InSeq(mq, m) + InSeq(wire, m) + lost[m]
    + (IF prodPc = "write" THEN Value(prodMsg, m) ELSE 0)

\* No event is counted twice and none disappears: what the collector shows has
\* grown, modulo 2^32, by the events counted less those still in a counter, a
\* thread, the queue or a socket, and less those in reports that met a full
\* queue or no subscriber.  The one exception is a reporter thread that is
\* inside the shared filter when the main thread enters it (pub.cpp:101).
\* The variables keep their types, the collector's sums their 32 bits.
CountsConserved ==
  /\ TypeOK
  /\ ~overlap => \A m \in Metric :
       (counter[m] + Underway(m)) % UIntMod = (first[m] + count[m]) % UIntMod

\* When the main thread finds metric_pending_counter at 0 and the reporter
\* thread is not inside the filter, every report that was queued has been
\* written, the last ones included: it may return and remove the queue.  But
\* for as many as other branches have written: a report counts once when it is
\* queued (pub.cpp:58) and once for each branch that has written it
\* (connector.hpp:92).
FinalReportWritten ==
  pc["main"] = "wait" /\ pending = 0 /\ ~overlap /\ ~InFilter("reporter") =>
    Len(mq) + (IF prodPc = "write" THEN 1 ELSE 0) <= elsewhere
=============================================================================
