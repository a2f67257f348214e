-------------------------------- MODULE Punct -------------------------------
(***************************************************************************)
(* How the bundled C++ library (3rd_party/libcxx/src/locale.cpp) derives   *)
(* formats from a locale of the C library: the patterns of money amounts,  *)
(* the formats of dates and times, the printf formats of numbers, and the  *)
(* check of the grouping of digits.                                        *)
(***************************************************************************)
EXTENDS Integers, Sequences

Space == " "

-----------------------------------------------------------------------------
(* Money.  A symbol is a sequence of characters; an international one of 4 *)
(* has its separator at the end.                                           *)

Pat(a, b, c, d, symbol) == [field |-> <<a, b, c, d>>, symbol |-> symbol]
Default(symbol)         == Pat("symbol", "sign", "none", "value", symbol)


\* The space that belongs to the symbol, unless its own separator is there;
\* and the symbol without its separator.
SpaceBefore(symbol, sep) == IF sep THEN symbol ELSE <<Space>> \o symbol
SpaceAfter(symbol, sep)  == IF sep THEN symbol ELSE Append(symbol, Space)
NoFirst(symbol, sep)     == IF sep THEN Tail(symbol) ELSE symbol
NoLast(symbol, sep)      == IF sep THEN SubSeq(symbol, 1, Len(symbol) - 1) ELSE symbol

\* cs_precedes = 0.  The separator was moved to the front of the symbol.
ValueFirst(s, sep, sep_by_space, sign_posn) ==
  LET at == <<sign_posn, sep_by_space>> IN
  CASE at \in {<<0, 0>>, <<0, 2>>, <<1, 0>>} -> Pat("sign", "value", "none", "symbol", s)
    [] at \in {<<0, 1>>, <<1, 1>>} ->
         Pat("sign", "value", "none", "symbol", SpaceBefore(s, sep))
    [] at = <<1, 2>> -> Pat("sign", "space", "value", "symbol", NoFirst(s, sep))
    [] at \in {<<2, 0>>, <<4, 0>>} -> Pat("value", "none", "symbol", "sign", s)
    [] at \in {<<2, 1>>, <<4, 1>>} ->
         Pat("value", "none", "symbol", "sign", SpaceBefore(s, sep))
    [] at \in {<<2, 2>>, <<4, 2>>} ->
         Pat("value", "symbol", "space", "sign", NoFirst(s, sep))
    [] at = <<3, 0>> -> Pat("value", "none", "sign", "symbol", s)
    [] at = <<3, 1>> -> Pat("value", "space", "sign", "symbol", NoFirst(s, sep))
    [] at = <<3, 2>> -> Pat("value", "sign", "none", "symbol", SpaceBefore(s, sep))
    [] OTHER -> Default(s)

\* cs_precedes = 1.
SymbolFirst(s, sep, sep_by_space, sign_posn) ==
  LET at == <<sign_posn, sep_by_space>> IN
  CASE at \in {<<0, 0>>, <<0, 2>>, <<1, 0>>, <<3, 0>>} ->
         Pat("sign", "symbol", "none", "value", s)
    [] at = <<0, 1>> -> Pat("sign", "symbol", "none", "value", SpaceBefore(s, sep))
    [] at \in {<<1, 1>>, <<3, 1>>} ->
         Pat("sign", "symbol", "none", "value", SpaceAfter(s, sep))
    [] at \in {<<1, 2>>, <<3, 2>>} ->
         Pat("sign", "space", "symbol", "value", NoLast(s, sep))
    [] at = <<2, 0>> -> Pat("symbol", "none", "value", "sign", s)
    [] at = <<2, 1>> -> Pat("symbol", "none", "value", "sign", SpaceAfter(s, sep))
    [] at = <<2, 2>> -> Pat("symbol", "value", "space", "sign", NoLast(s, sep))
    [] at = <<4, 0>> -> Pat("symbol", "sign", "none", "value", s)
    [] at = <<4, 1>> -> Pat("symbol", "sign", "space", "value", NoLast(s, sep))
    [] at = <<4, 2>> -> Pat("symbol", "none", "sign", "value", SpaceAfter(s, sep))
    [] OTHER -> Default(s)

\* __init_pat: the pattern, and the symbol with its spaces.
init_pat(symbol, intl, m) ==
  LET sep     == intl /\ Len(symbol) = 4
      rotated == IF sep THEN <<symbol[4], symbol[1], symbol[2], symbol[3]>> ELSE symbol
  IN CASE m.cs_precedes = 0 -> ValueFirst(rotated, sep, m.sep_by_space, m.sign_posn)
       [] m.cs_precedes = 1 -> SymbolFirst(symbol, sep, m.sep_by_space, m.sign_posn)
       [] OTHER -> Default(symbol)

\* The rest of init(): values the C library leaves open come from the base
\* class, and the symbol is spaced for negative amounts.  bad holds the strings
\* that cannot be converted to wide characters.
MoneyInit(lc, symbol, frac, p, n, intl, bad) ==
  LET pos == init_pat(symbol, intl, p)
      neg == init_pat(symbol, intl, n)
  IN IF "symbol" \in bad \/ (p.sign_posn # 0 /\ "positive" \in bad)
                         \/ (n.sign_posn # 0 /\ "negative" \in bad)
     THEN [ok |-> FALSE]
     ELSE [ok |-> TRUE,
           decimal_point |-> IF lc.decimal_point = "" THEN "base" ELSE lc.decimal_point,
           thousands_sep |-> IF lc.thousands_sep = "" THEN "base" ELSE lc.thousands_sep,
           frac_digits   |-> IF frac = "CHAR_MAX" THEN "base" ELSE frac,
           grouping      |-> lc.grouping,
           curr_symbol   |-> neg.symbol,
           positive_sign |-> IF p.sign_posn = 0 THEN <<"(", ")">> ELSE lc.positive_sign,
           negative_sign |-> IF n.sign_posn = 0 THEN <<"(", ")">> ELSE lc.negative_sign,
           pos_format    |-> pos.field,
           neg_format    |-> neg.field]

\* moneypunct_byname<char, false> ... <wchar_t, true>::init.
init_char(lc)       == MoneyInit(lc, lc.currency_symbol, lc.frac_digits, lc.p, lc.n, FALSE, {})
init_char_intl(lc)  == MoneyInit(lc, lc.int_curr_symbol, lc.int_frac_digits,
                                 lc.int_p, lc.int_n, TRUE, {})
init_wchar(lc)      == MoneyInit(lc, lc.currency_symbol, lc.frac_digits, lc.p, lc.n, FALSE, lc.bad)
init_wchar_intl(lc) == MoneyInit(lc, lc.int_curr_symbol, lc.int_frac_digits,
                                 lc.int_p, lc.int_n, TRUE, lc.bad)

-----------------------------------------------------------------------------
(* Digits.                                                                 *)

CharMax == 127
Limited(n) == 0 < n /\ n < CharMax

\* __check_grouping: g are the lengths of the groups as they were read.
check_grouping(grouping, g) ==
  LET At(k) == grouping[IF k < Len(grouping) THEN k ELSE Len(grouping)]
      r     == [k \in 1..Len(g) |-> g[Len(g) + 1 - k]]
  IN \/ grouping = <<>>
     \/ /\ \A k \in 1..Len(r) - 1 : Limited(At(k)) => r[k] = At(k)
        /\ Limited(At(Len(r))) => r[Len(r)] <= At(Len(r)) /\ r[Len(r)] # 0

\* The printf formats; flags is the set of the flags that are on.
If(b, s) == IF b THEN s ELSE <<>>
format_int(len, signd, flags) ==
  If("showpos" \in flags, <<"+">>) \o If("showbase" \in flags, <<"#">>) \o len \o
  <<IF flags \cap {"oct", "dec", "hex"} = {"oct"} THEN "o"
    ELSE IF flags \cap {"oct", "dec", "hex"} = {"hex"}
    THEN IF "uppercase" \in flags THEN "X" ELSE "x"
    ELSE IF signd THEN "d" ELSE "u">>

format_float(len, flags) ==
  LET field == flags \cap {"fixed", "scientific"}
      up    == "uppercase" \in flags
  IN If("showpos" \in flags, <<"+">>) \o If("showpoint" \in flags, <<"#">>) \o
     If(field # {"fixed", "scientific"}, <<".", "*">>) \o len \o
     <<CASE field = {"fixed"}      -> IF up THEN "F" ELSE "f"
         [] field = {"scientific"} -> IF up THEN "E" ELSE "e"
         [] field = {"fixed", "scientific"} -> IF up THEN "A" ELSE "a"
         [] OTHER -> IF up THEN "G" ELSE "g">>

-----------------------------------------------------------------------------
(* Dates and times.  A text is a sequence of characters, in which a name   *)
(* of a weekday or month, or AM or PM, is one item.                        *)

Digits == {"0", "1", "2", "3", "4", "5", "6", "7", "8", "9"}
Value(d) == CHOOSE n \in 0..9 : d = <<"0", "1", "2", "3", "4", "5", "6", "7", "8", "9">>[n + 1]

\* What the sample time 23:55:59 on Saturday 31 December 2061 shows.
Shown(n) ==
  CASE n = 6   -> "%w"  [] n = 7   -> "%u"  [] n = 11  -> "%I"  [] n = 12   -> "%m"
    [] n = 23  -> "%H"  [] n = 31  -> "%d"  [] n = 55  -> "%M"  [] n = 59   -> "%S"
    [] n = 61  -> "%y"  [] n = 364 -> "%j"  [] n = 2061 -> "%Y" [] OTHER -> "none"

\* __get_up_to_n_digits: how many digits are taken, and their value.
UpTo(text, n) ==
  CHOOSE k \in 1..n : /\ k <= Len(text) /\ \A j \in 1..k : text[j] \in Digits
                      /\ k < n /\ k < Len(text) => text[k + 1] \notin Digits
Number(text) == LET v[k \in 0..Len(text)] == IF k = 0 THEN 0 ELSE v[k - 1] * 10 + Value(text[k])
                IN v[Len(text)]

\* One turn of the loop of __analyze: the items it takes, and what it adds.
First(text, fmt, digitMonths) ==
  CASE text[1] = Space ->
         <<CHOOSE k \in 1..Len(text) : /\ \A j \in 1..k : text[j] = Space
                                       /\ k < Len(text) => text[k + 1] # Space, <<Space>>>>
    [] text[1] = "Saturday" -> <<1, <<"%A">>>>
    [] text[1] = "Sat"      -> <<1, <<"%a">>>>
    [] text[1] = "December" -> <<1, <<IF fmt = "x" /\ digitMonths THEN "%m" ELSE "%B">>>>
    [] text[1] = "Dec"      -> <<1, <<IF fmt = "x" /\ digitMonths THEN "%m" ELSE "%b">>>>
    [] text[1] = "PM"       -> <<1, <<"%p">>>>
    [] text[1] \in Digits   ->
         LET n == UpTo(text, 4)
             s == Shown(Number(SubSeq(text, 1, n)))
         IN <<n, IF s # "none" THEN <<s>> ELSE SubSeq(text, 1, n)>>
    [] text[1] = "%"        -> <<1, <<"%%">>>>
    [] OTHER                -> <<1, <<text[1]>>>>

\* __analyze: the format behind the sample text.
analyze(text, fmt, digitMonths) ==
  LET go[p \in Nat] ==
        IF p = Len(text) THEN <<>>
        ELSE LET t == First(SubSeq(text, p + 1, Len(text)), fmt, digitMonths)
             IN t[2] \o go[p + t[1]]
  IN go[0]

\* __analyze for wchar_t: the sample is converted to wide characters first,
\* which may fail.
analyze_wchar(text, fmt, digitMonths, bad) ==
  IF bad THEN <<"runtime_error">> ELSE analyze(text, fmt, digitMonths)

Conversions == {"%A", "%a", "%B", "%b", "%p", "%w", "%u", "%I", "%m", "%H", "%d", "%M",
                "%S", "%y", "%j", "%Y", "%%"}

\* __do_date_order: the first three conversions of __x_, which has at least one.
date_order(x) ==
  LET s == SelectSeq(x, LAMBDA i : i \in Conversions)
      Is(a, b, c) == Len(s) >= 3 /\ s[1] \in a /\ s[2] \in b /\ s[3] \in c
      Y == {"%y", "%Y"}  M == {"%m"}  D == {"%d"}
  IN CASE Is(Y, M, D) -> "ymd" [] Is(Y, D, M) -> "ydm"
       [] Is(M, D, Y) -> "mdy" [] Is(D, M, Y) -> "dmy" [] OTHER -> "no_order"

\* The same code for wchar_t.
date_order_wchar(x) == date_order(x)
=============================================================================
