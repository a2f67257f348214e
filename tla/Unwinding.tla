----------------------------- MODULE Unwinding ------------------------------
(***************************************************************************)
(* How a thrown exception finds its handler: the personality function of   *)
(* the bundled libcxxrt (exception.cc) and the tables it reads             *)
(* (dwarf_eh.h), called twice for the frames of a stack.  The tables are   *)
(* bytes, as the compiler lays them out from what a frame declares; the    *)
(* entries of the type table stand for themselves.                         *)
(***************************************************************************)
EXTENDS Integers, Sequences, SequencesExt

CONSTANTS Shapes,      \* frames: [sites, ip, encoding], without sites if a
                       \* frame has no tables
          MaxFrames,   \* frames of a stack
          Thrown,      \* types thrown
          Bases        \* pairs <<base, derived>>

VARIABLES stack,       \* frames, innermost first
          type,        \* type of the exception
          phase,       \* "search", "cleanup", "landed", "terminate"
          at,          \* the frame being looked at
          handler,     \* the frame phase 1 stopped at
          catchTemp,   \* landing pad and selector saved by phase 1, or <<0, 0>>
          landings     \* <<frame, pad, selector>> of the contexts installed

vars == <<stack, type, phase, at, handler, catchTemp, landings>>

-----------------------------------------------------------------------------
(* dwarf_eh.h.  d is a sequence of bytes, p an index; a read returns the   *)
(* value and the index after it.                                           *)

read_leb128(d, p) ==
  LET n == CHOOSE k \in 0..4 : d[p + k] < 128 /\ \A j \in 0..k - 1 : d[p + j] >= 128
      from[j \in 0..5] == IF j > n THEN 0 ELSE (d[p + j] % 128) + 128 * from[j + 1]
  IN [value |-> from[0], bits |-> 7 * (n + 1), next |-> p + n + 1]

read_uleb128(d, p) == LET r == read_leb128(d, p) IN <<r.value, r.next>>

read_sleb128(d, p) ==
  LET r == read_leb128(d, p)
  IN <<IF r.value \div 2^(r.bits - 1) = 1 THEN r.value - 2^r.bits ELSE r.value, r.next>>

\* A little-endian number of n bytes; the values read here fit 31 bits.
Fixed(d, p, n) ==
  LET from[j \in 0..n] == IF j = n THEN 0 ELSE d[p + j] + 256 * from[j + 1] IN from[0]

read_value(encoding, d, p) ==
  CASE encoding = 1 -> read_uleb128(d, p)
    [] encoding = 9 -> read_sleb128(d, p)
    [] encoding = 2 -> <<Fixed(d, p, 2), p + 2>>
    [] encoding = 3 -> <<Fixed(d, p, 4), p + 4>>
    [] encoding = 4 -> <<Fixed(d, p, 8), p + 8>>

omit == 255

\* The landing pads are relative to the start of the function unless the
\* header says otherwise.
parse_lsda(d) ==
  LET value[p \in Nat] == read_uleb128(d, p)
      pads  == IF d[1] = omit THEN <<0, 2>> ELSE read_value(d[1] % 16, d, 2)
      types == IF d[pads[2]] = omit THEN pads[2] + 1 ELSE value[pads[2] + 1][2]
      size  == value[types + 1]
  IN [landing_pads |-> pads[1], encoding |-> d[types], call_site_table |-> size[2],
      action_table |-> size[2] + size[1]]

Header ==
  [landing_pads : Nat, encoding : Nat, call_site_table : Nat, action_table : Nat]

NotFound == [found |-> FALSE, pad |-> 0, action |-> 0]

\* Mutant: the return address is taken for the address of the call.
CallWithin(start, size, ip) == start <= ip /\ ip < start + size

Within(start, size, ip) == start < ip /\ ip <= start + size

\* The loop runs once more when it stands at the end of the call sites, and
\* then reads the first action record.
dwarf_eh_find_callsite(d, ip) ==
  LET field[e \in Nat, p \in Nat, k \in 1..4] ==
        IF k = 1 THEN read_value(e, d, p)
        ELSE read_value(IF k = 4 THEN 1 ELSE e, d, field[e, p, k - 1][2])
      go[lsda \in Header, p \in Nat] ==
        IF p > lsda.action_table THEN NotFound
        ELSE LET start == field[lsda.encoding, p, 1]
                 size  == field[lsda.encoding, p, 2]
                 pad   == field[lsda.encoding, p, 3]
                 act   == field[lsda.encoding, p, 4]
             IN IF start[1] > ip THEN NotFound
                ELSE IF Within(start[1], size[1], ip)
                THEN [found |-> TRUE,
                      pad |-> IF pad[1] = 0 THEN 0 ELSE lsda.landing_pads + pad[1],
                      action |-> IF act[1] = 0 THEN 0 ELSE lsda.action_table + act[1] - 1]
                ELSE go[lsda, act[2]]
  IN go[parse_lsda(d), parse_lsda(d).call_site_table]

-----------------------------------------------------------------------------
(* exception.cc: what an action record says about an exception.            *)

\* The type table of every frame, and the exception specifications behind it:
\* lists of indices, each ended by 0.
TypeTable == <<"base", "derived", "other", "any">>
SpecTable == <<1, 0, 3, 0>>

get_type_info_entry(filter) == TypeTable[filter]

\* A catch-all, the type itself, or a base of it.
check_type_signature(t, handlerType) ==
  handlerType = "any" \/ handlerType = t \/ <<handlerType, t>> \in Bases

\* The types listed from an index of the specification table on.
Listed(filter) ==
  LET stop == CHOOSE k \in -filter..Len(SpecTable) :
                SpecTable[k] = 0 /\ \A j \in -filter..k - 1 : SpecTable[j] # 0
  IN {get_type_info_entry(SpecTable[k]) : k \in -filter..stop - 1}

check_action_record(d, record, t) ==
  LET value[p \in Nat] == read_sleb128(d, p)
      go[p \in Nat, found \in {"none", "cleanup"}, sel \in Int] ==
        LET f == value[p]
            g == value[f[2]]
            Rest(h, s) == IF g[1] = 0 THEN <<h, s>> ELSE go[f[2] + g[1], h, s]
        IN IF f[1] > 0
           THEN IF check_type_signature(t, get_type_info_entry(f[1]))
                THEN <<"catch", f[1]>> ELSE Rest(found, sel)
           ELSE IF f[1] < 0
           THEN IF \E h \in Listed(f[1]) : check_type_signature(t, h)
                THEN Rest(found, f[1]) ELSE <<"catch", f[1]>>
           ELSE Rest("cleanup", 0)
  IN IF record = 0 THEN <<"cleanup", 0>> ELSE go[record, "none", 0]

-----------------------------------------------------------------------------
(* The compiler: the bytes for what a frame declares.  A site is           *)
(* [start, size, pad, clauses]; a clause is the filter of its record: 0 a  *)
(* cleanup, positive a catch, negative a specification.  A chain of        *)
(* records is written from its end, so that links point backwards.         *)

Uleb(n) == IF n < 128 THEN <<n>> ELSE <<128 + (n % 128), n \div 128>>
Sleb(n) == <<n % 128>>
Number(enc, n) ==
  LET width == CASE enc = 2 -> 2 [] enc = 3 -> 4 [] enc = 4 -> 8
  IN IF enc = 1 THEN Uleb(n)
     ELSE [k \in 1..width |-> CASE k = 1 -> n % 256 [] k = 2 -> n \div 256 [] OTHER -> 0]

Records(clauses) ==
  FlattenSeq([k \in 1..Len(clauses) |->
    Sleb(clauses[Len(clauses) + 1 - k]) \o Sleb(IF k = 1 THEN 0 ELSE -3)])

ActionsBefore(sites, k) ==
  FlattenSeq([j \in 1..k - 1 |-> Records(sites[j].clauses)])

SiteBytes(enc, sites, k) ==
  LET s == sites[k]
      first == Len(ActionsBefore(sites, k)) + 2 * Len(s.clauses) - 1
  IN Number(enc, s.start) \o Number(enc, s.size) \o Number(enc, s.pad)
     \o Uleb(IF s.clauses = <<>> THEN 0 ELSE first)

Lsda(enc, sites) ==
  LET table == FlattenSeq([k \in 1..Len(sites) |-> SiteBytes(enc, sites, k)])
  IN <<omit, 155, 0, enc>> \o Uleb(Len(table)) \o table
     \o ActionsBefore(sites, Len(sites) + 1) \o <<0, 0, 0, 0>>

-----------------------------------------------------------------------------
(* The two phases.  The unwinder (external) calls the personality function *)
(* for one frame after the other.                                          *)

Frame == stack[at]
Found == dwarf_eh_find_callsite(Frame.lsda, Frame.ip)
Action(c) == check_action_record(Frame.lsda, c.action, type)

Continue ==
  IF at < Len(stack)
  THEN at' = at + 1 /\ UNCHANGED <<stack, type, phase, handler, catchTemp, landings>>
  ELSE phase' = "terminate" /\ UNCHANGED <<stack, type, at, handler, catchTemp, landings>>

HandlerFound(saved) ==
  /\ handler' = at /\ at' = 1 /\ phase' = "cleanup" /\ catchTemp' = saved
  /\ UNCHANGED <<stack, type, landings>>

\* A frame without a call site for the address is where the search ends: the
\* second phase finds no landing pad saved, and terminates.
Search ==
  /\ phase = "search"
  /\ \/ Frame.sites = <<>> /\ Continue
     \/ /\ Frame.sites # <<>>
        /\ \E c \in {Found} :
             \/ ~c.found /\ HandlerFound(catchTemp)
             \/ c.found /\ \E a \in {Action(c)} :
                  IF a[1] = "catch" THEN HandlerFound(<<c.pad, a[2]>>) ELSE Continue

\* _URC_INSTALL_CONTEXT; a cleanup goes on with _Unwind_Resume.
Install(pad, selector) ==
  /\ landings' = Append(landings, <<at, pad, selector>>)
  /\ IF at = handler THEN phase' = "landed" /\ UNCHANGED at
     ELSE at' = at + 1 /\ UNCHANGED phase

Cleanup ==
  /\ phase = "cleanup" /\ at < handler
  /\ \/ Frame.sites = <<>> /\ Continue
     \/ /\ Frame.sites # <<>>
        /\ \E c \in {Found} : \E a \in {Action(c)} :
             IF c.pad = 0 \/ a[1] # "cleanup" THEN Continue
             ELSE Install(c.pad, a[2]) /\ UNCHANGED <<stack, type, handler, catchTemp>>

HandlerFrame ==
  /\ phase = "cleanup" /\ at = handler
  /\ IF catchTemp[1] = 0
     THEN phase' = "terminate" /\ UNCHANGED <<stack, type, at, handler, catchTemp, landings>>
     ELSE Install(catchTemp[1], catchTemp[2]) /\ catchTemp' = <<0, 0>>
          /\ UNCHANGED <<stack, type, handler>>

Compiled == {[sites |-> f.sites, ip |-> f.ip, lsda |-> Lsda(f.encoding, f.sites)] : f \in Shapes}

Init ==
  /\ stack \in UNION {[1..n -> Compiled] : n \in 1..MaxFrames}
  /\ type \in Thrown /\ phase = "search" /\ at = 1 /\ handler = 0
  /\ catchTemp = <<0, 0>> /\ landings = <<>>

Next == Search \/ Cleanup \/ HandlerFrame

-----------------------------------------------------------------------------
(* What a frame declares, read without the tables.                         *)

Site(f) == {k \in 1..Len(f.sites) :
              f.sites[k].start < f.ip /\ f.ip <= f.sites[k].start + f.sites[k].size}
Covers(f) == f.sites = <<>> \/ Site(f) # {}
Clauses(f) == IF Site(f) = {} THEN <<>> ELSE f.sites[CHOOSE k \in Site(f) : TRUE].clauses
Pad(f) == IF Site(f) = {} THEN 0 ELSE f.sites[CHOOSE k \in Site(f) : TRUE].pad

Stops(f) == {k \in 1..Len(Clauses(f)) :
  LET c == Clauses(f)[k]
      Takes(h) == h \in {type, "any"} \/ <<h, type>> \in Bases
  IN \/ c > 0 /\ Takes(TypeTable[c])
     \/ c = -1 /\ ~Takes("base")
     \/ c = -2
     \/ c = -3 /\ ~Takes("other")}

Catches(f) == Stops(f) # {}
CleansUp(f) == Pad(f) # 0 /\ (Clauses(f) = <<>> \/ \E k \in 1..Len(Clauses(f)) : Clauses(f)[k] = 0)

\* The frame that decides: the innermost that catches, or that has no call
\* site for the address the exception left it at.
Decides == {i \in 1..Len(stack) :
  /\ Catches(stack[i]) \/ ~Covers(stack[i])
  /\ \A j \in 1..i - 1 : ~Catches(stack[j]) /\ Covers(stack[j])}

\* An exception lands in the innermost handler that takes its type, with the
\* selector of that handler's first clause that does: __gxx_personality_v0
\* finds in bytes what the frames declare.
LandsRight ==
  phase = "landed" =>
    \E i \in Decides :
      /\ Catches(stack[i])
      /\ Last(landings) =
           <<i, Pad(stack[i]), Clauses(stack[i])[CHOOSE k \in Stops(stack[i]) :
                                                   \A j \in Stops(stack[i]) : k <= j]>>

\* On the way every cleanup between the throw and the handler runs, once and
\* from the inside out, and nothing else does; and the program is terminated
\* exactly when there is no handler, in which case nothing is cleaned up, or
\* when the exception leaves a place that has no call site.
CleanupsRun ==
  /\ phase = "landed" =>
       [k \in 1..Len(landings) - 1 |-> landings[k][1]] =
         SelectSeq([i \in 1..handler - 1 |-> i], LAMBDA i : CleansUp(stack[i]))
  /\ phase = "terminate" =>
       /\ \A i \in Decides : ~Catches(stack[i])
       /\ Decides = {} => landings = <<>>

=============================================================================
