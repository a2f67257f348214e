----------------------------- MODULE Formatting -----------------------------
(***************************************************************************)
(* The formats of Punct against what they are for: amounts laid out as C11 *)
(* 7.11.2.1 says, and where not, how; dates whose format is recovered from *)
(* a sample, numbers whose digits are grouped right, and printf formats    *)
(* that fit.                                                               *)
(***************************************************************************)
EXTENDS Punct

CONSTANTS MaxDigits,    \* digits of a number
          Groupings,    \* values of grouping()
          Dates         \* formats of dates and times

VARIABLE job

Init == job = [kind |-> "none"]

\* A locale's conventions for money; 127 is CHAR_MAX, "not available".
Layouts == [cs_precedes : {0, 1, 127}, sep_by_space : {0, 1, 2, 127}, sign_posn : {0, 1, 2, 3, 4, 127}]
Locales(p, n, symbol, bad) ==
  [decimal_point |-> ".", thousands_sep |-> "", grouping |-> <<3>>,
   frac_digits |-> "2", int_frac_digits |-> "CHAR_MAX",
   positive_sign |-> <<>>, negative_sign |-> <<"-">>, p |-> p, n |-> n, int_p |-> p, int_n |-> n,
   currency_symbol |-> <<"$">>, int_curr_symbol |-> symbol, bad |-> bad]

Money ==
  \E p, n \in Layouts, sep \in BOOLEAN, intl, wide, bad \in BOOLEAN :
    /\ p # n => p.sep_by_space = 1 /\ n.sign_posn \in {0, 3}
    /\ LET lc == Locales(p, n, IF sep THEN <<"U", "S", "D", Space>> ELSE <<"U", "S", "D">>,
                         IF bad THEN {"negative"} ELSE {})
       IN job' = [kind |-> "money", p |-> p, n |-> n, sep |-> sep /\ intl,
                  symbol |-> IF intl THEN <<"U", "S", "D">> ELSE <<"$">>,
                  punct |-> CASE ~intl /\ ~wide -> init_char(lc)
                              [] intl /\ ~wide  -> init_char_intl(lc)
                              [] ~intl /\ wide  -> init_wchar(lc)
                              [] OTHER          -> init_wchar_intl(lc),
                  bad |-> bad /\ wide]

\* Every division of some digits into groups.
Grouping ==
  \E digits \in 1..MaxDigits, n \in 1..3, grouping \in Groupings :
    \E g \in [1..n -> 0..MaxDigits] :
      /\ digits = g[1] + (IF n > 1 THEN g[2] ELSE 0) + (IF n > 2 THEN g[3] ELSE 0)
      /\ job' = [kind |-> "grouping", g |-> g, digits |-> digits, grouping |-> grouping,
                 ok |-> check_grouping(grouping, g)]

\* The calls in the header's num_put, with the size of their array.
Numbers ==
  \E flags \in SUBSET {"showpos", "showbase", "showpoint", "oct", "hex", "uppercase",
                       "fixed", "scientific"},
     call \in {<<6, <<"l">>, "int">>, <<8, <<"l", "l">>, "int">>, <<8, <<>>, "float">>,
               <<8, <<"L">>, "float">>}, signd \in BOOLEAN :
    job' = [kind |-> "number", room |-> call[1],
            fmt |-> IF call[3] = "int" THEN format_int(call[2], signd, flags)
                    ELSE format_float(call[2], flags)]

\* strftime (external) on the sample time.
Text(c) ==
  CASE c = "%A" -> <<"Saturday">>  [] c = "%a" -> <<"Sat">>
    [] c = "%B" -> <<"December">>  [] c = "%b" -> <<"Dec">> [] c = "%p" -> <<"PM">>
    [] c = "%Y" -> <<"2", "0", "6", "1">>  [] c = "%y" -> <<"6", "1">>
    [] c = "%m" -> <<"1", "2">>  [] c = "%d" -> <<"3", "1">>  [] c = "%H" -> <<"2", "3">>
    [] c = "%I" -> <<"1", "1">>  [] c = "%M" -> <<"5", "5">>  [] c = "%S" -> <<"5", "9">>
    [] c = "%%" -> <<"%">>       [] OTHER -> <<c>>

Time ==
  \E format \in Dates, fmt \in {"c", "r", "x", "X"}, digitMonths, wide, bad \in BOOLEAN :
    LET text[k \in 0..Len(format)] == IF k = 0 THEN <<>> ELSE text[k - 1] \o Text(format[k])
        x == IF wide THEN analyze_wchar(text[Len(format)], fmt, digitMonths, bad)
                     ELSE analyze(text[Len(format)], fmt, digitMonths)
    IN job' = IF x = <<"runtime_error">> THEN [kind |-> "failed"]
              ELSE [kind |-> "time", format |-> format, x |-> x,
                    order |-> IF wide THEN date_order_wchar(x) ELSE date_order(x),
                    digits |-> fmt = "x" /\ digitMonths]

Next == job.kind = "none" /\ (Money \/ Grouping \/ Numbers \/ Time)

-----------------------------------------------------------------------------
(* What the formats should be.                                             *)

\* __money_put::__format on a pattern: the sign's first character is at its
\* place, the rest of it at the end.  The value is one character.
SignHead(sign) == IF sign = <<>> THEN <<>> ELSE <<Head(sign)>>
SignRest(sign) == IF sign = <<>> THEN <<>> ELSE Tail(sign)
Put(pattern, symbol, sign, shown) ==
  LET field(k) == CASE pattern[k] = "symbol" -> IF shown THEN symbol ELSE <<>>
                    [] pattern[k] = "sign"   -> SignHead(sign)
                    [] pattern[k] = "value"  -> <<"1">>
                    [] pattern[k] = "space"  -> <<Space>>
                    [] OTHER -> <<>>
  IN field(1) \o field(2) \o field(3) \o field(4) \o SignRest(sign)

\* C11: the order of sign, symbol and value, and where the space is.
Order(m) ==
  LET both == IF m.cs_precedes = 1 THEN <<"C", "V">> ELSE <<"V", "C">> IN
  CASE m.sign_posn \in {0, 1} -> <<"S">> \o both
    [] m.sign_posn = 2 -> Append(both, "S")
    [] m.sign_posn = 3 -> IF m.cs_precedes = 1 THEN <<"S", "C", "V">> ELSE <<"V", "S", "C">>
    [] m.sign_posn = 4 -> IF m.cs_precedes = 1 THEN <<"C", "S", "V">> ELSE <<"V", "C", "S">>
SpaceAt(m) ==
  LET o       == Order(m)
      Sides(k) == {o[k], o[k + 1]}
      middle  == m.sign_posn = 0 \/ o[2] = "V"   \* symbol and sign are not adjacent
  IN CASE m.sep_by_space = 0 \/ (m.sep_by_space = 2 /\ m.sign_posn = 0) -> 0
       [] m.sep_by_space = 1 -> CHOOSE k \in 1..2 : "V" \in Sides(k) /\ (middle => "C" \in Sides(k))
       [] m.sep_by_space = 2 -> CHOOSE k \in 1..2 :
                                  Sides(k) = IF middle THEN {"S", "V"} ELSE {"S", "C"}
\* Where the library departs from C11: with parentheses and the symbol first,
\* the space is in front of the symbol; and a symbol that has its separator
\* keeps it, on the side of the value, where no space is asked for.
GapAt(m, sep) == IF m.cs_precedes = 1 /\ m.sign_posn = 0 /\ m.sep_by_space = 1 /\ ~sep
                 THEN 1 ELSE SpaceAt(m)
SymbolIn(m, symbol, sep) ==
  IF ~sep \/ SpaceAt(m) # 0 THEN symbol
  ELSE IF m.cs_precedes = 1 THEN Append(symbol, Space) ELSE <<Space>> \o symbol

Expected(m, symbol, sep, sign) ==
  LET part(k) == CASE Order(m)[k] = "S" -> SignHead(sign)
                   [] Order(m)[k] = "C" -> SymbolIn(m, symbol, sep) [] OTHER -> <<"1">>
      gap(k)  == IF GapAt(m, sep) = k THEN <<Space>> ELSE <<>>
  IN part(1) \o gap(1) \o part(2) \o gap(2) \o part(3) \o SignRest(sign)

Available(m) == 127 \notin {m.cs_precedes, m.sep_by_space, m.sign_posn}

\* Negative amounts, and positive ones of a locale that treats both alike, are
\* laid out as C11 says, but for the two departures above and nothing else.
MoneyLaidOut ==
  job.kind = "money" /\ job.punct.ok /\ Available(job.n) =>
    /\ Put(job.punct.neg_format, job.punct.curr_symbol, job.punct.negative_sign, TRUE)
         = Expected(job.n, job.symbol, job.sep, job.punct.negative_sign)
    /\ job.p = job.n =>
         Put(job.punct.pos_format, job.punct.curr_symbol, job.punct.positive_sign, TRUE)
           = Expected(job.n, job.symbol, job.sep, job.punct.positive_sign)

\* In an amount shown without its symbol, the space that sep_by_space 1 asks for
\* goes away with the symbol, unless the sign stands between symbol and value:
\* there it stays, against the comment on __init_pat.
SpaceGoesWithSymbol ==
  job.kind = "money" /\ job.punct.ok /\ Available(job.n) /\ job.n.sep_by_space = 1 =>
    LET s == Put(job.punct.neg_format, job.punct.curr_symbol, job.punct.negative_sign, FALSE)
    IN (\E k \in 1..Len(s) : s[k] = Space) <=> Order(job.n)[2] = "S"

\* Where every group has a size, exactly one division of the digits is accepted:
\* the one with full groups from the right.
GroupingUnique ==
  job.kind = "grouping" /\ job.grouping # <<>>
      /\ (\A k \in 1..Len(job.grouping) : Limited(job.grouping[k])) =>
    LET size(k) == job.grouping[IF k < Len(job.grouping) THEN k ELSE Len(job.grouping)]
        n == Len(job.g)
        rest[k \in 0..n] == IF k = 0 THEN job.digits ELSE rest[k - 1] - size(k)
    IN job.ok <=> /\ rest[n - 1] > 0 /\ rest[n] <= 0
                  /\ \A k \in 1..n - 1 : job.g[n + 1 - k] = size(k)

\* A format, with its % and the terminating NUL, fits the caller's array.
FormatFits == job.kind = "number" => Len(job.fmt) + 2 <= job.room

\* The format found from the sample is the locale's own; month names that start
\* with a digit are read as numbers in a date.  Runs of spaces become one.
FormatRecovered ==
  job.kind = "time" =>
    LET f    == job.format
        kept == SelectSeq([k \in 1..Len(f) |-> k],
                          LAMBDA k : ~(f[k] = Space /\ k > 1 /\ f[k - 1] = Space))
    IN job.x = [j \in 1..Len(kept) |->
                  IF job.digits /\ f[kept[j]] \in {"%B", "%b"} THEN "%m" ELSE f[kept[j]]]

\* The order of day, month and year is the one in which the locale's own format
\* has them first, if the library has a name for it.
DateOrderFound ==
  job.kind = "time" =>
    LET kind(c) == CASE c = "%d" -> "d" [] c \in {"%y", "%Y"} -> "y" [] c = "%m" -> "m"
                     [] c \in {"%B", "%b"} /\ job.digits -> "m" [] OTHER -> "other"
        s     == SelectSeq(job.format, LAMBDA c : c \in Conversions)
        first == <<kind(s[1]), kind(s[2]), kind(s[3])>>
    IN job.order = CASE Len(s) < 3 -> "no_order"
                     [] Len(s) >= 3 /\ first = <<"d", "m", "y">> -> "dmy"
                     [] Len(s) >= 3 /\ first = <<"m", "d", "y">> -> "mdy"
                     [] Len(s) >= 3 /\ first = <<"y", "m", "d">> -> "ymd"
                     [] Len(s) >= 3 /\ first = <<"y", "d", "m">> -> "ydm"
                     [] OTHER -> "no_order"
=============================================================================
