------------------------------- MODULE Codecvt ------------------------------
(***************************************************************************)
(* The Unicode conversions of the bundled C++ library                      *)
(* (3rd_party/libcxx/src/locale.cpp) as functions, and the 14 codecvt      *)
(* facets made of them.  A conversion gets a window of its input, the room *)
(* it has, the facet's Maxcode and its mode, and returns the result, how   *)
(* many input units it used, and what it wrote.  Units are numbers, bit    *)
(* operations on them are written with \div and %.                         *)
(***************************************************************************)
EXTENDS Integers, Sequences

Result(r, n, o) == [res |-> r, used |-> n, out |-> o]
Fails(r)        == Result(r, 0, <<>>)
From(s, p)      == SubSeq(s, p + 1, Len(s))
Starts(s, b)    == Len(s) >= Len(b) /\ SubSeq(s, 1, Len(b)) = b

\* The byte order marks, and when a conversion writes or skips them.
BOM8  == <<239, 187, 191>>
BOMbe == <<254, 255>>
BOMle == <<255, 254>>
Modes == [generate_header : BOOLEAN, consume_header : BOOLEAN]

\* The loop of the conversions to bytes: one character after the other, until
\* the input ends, a character is in error, or there is no room.
OutLoop(Char(_, _), frm, room, bom, mode) ==
  LET go[p \in Nat, o \in Seq(Nat)] ==
        IF p = Len(frm) THEN Result("ok", p, o)
        ELSE LET c == Char(From(frm, p), room - Len(o)) IN
             IF c.res # "ok" THEN Result(c.res, p, o)
             ELSE go[p + c.used, o \o c.out]
  IN IF ~mode.generate_header THEN go[0, <<>>]
     ELSE IF room < Len(bom) THEN Fails("partial") ELSE go[0, bom]

Skipped(frm, bom, mode) == IF mode.consume_header /\ Starts(frm, bom) THEN Len(bom) ELSE 0

\* The loop of the conversions from bytes: until fewer than "unit" bytes are
\* left or the output is full.
InLoop(Char(_, _), frm, room, bom, mode, unit) ==
  LET go[p \in Nat, o \in Seq(Nat)] ==
        IF p > Len(frm) - unit \/ Len(o) >= room
        THEN Result(IF p < Len(frm) THEN "partial" ELSE "ok", p, o)
        ELSE LET c == Char(From(frm, p), room - Len(o)) IN
             IF c.res # "ok" THEN Result(c.res, p, o)
             ELSE go[p + c.used, o \o c.out]
  IN go[Skipped(frm, bom, mode), <<>>]

\* The loop of the _length functions: Size gives <<bytes, units>> of the first
\* character, or <<0, 0>> to stop; at most mx units are counted.
LengthLoop(Size(_, _), frm, mx, bom, mode, unit) ==
  LET go[p \in Nat, n \in Nat] ==
        IF p > Len(frm) - unit \/ n >= mx THEN p
        ELSE LET z == Size(From(frm, p), mx - n) IN
             IF z[1] = 0 THEN p ELSE go[p + z[1], n + z[2]]
  IN go[Skipped(frm, bom, mode), 0]

-----------------------------------------------------------------------------
(* UTF-8.                                                                  *)

Surrogate(c) == c \div 2048 = 27             \* (c & 0xF800) == 0xD800
High(c)      == c \div 1024 = 54             \* (c & 0xFC00) == 0xD800
Low(c)       == c \div 1024 = 55             \* (c & 0xFC00) == 0xDC00
Joined(c1, c2) == ((c1 % 1024) \div 64 + 1) * 65536 + (c1 % 64) * 1024 + (c2 % 1024)

\* Mutant: the plane is not reduced by one.
PairUnreduced(c) == <<55296 + (c \div 65536) * 64 + (c % 65536) \div 1024, 56320 + (c % 1024)>>

Pair(c) == <<55296 + (c \div 65536 - 1) * 64 + (c % 65536) \div 1024, 56320 + (c % 1024)>>

Utf8Bytes(c) ==
  CASE c \in 0..127 -> <<c>>
    [] c \in 128..2047 -> <<192 + c \div 64, 128 + (c % 64)>>
    [] c \in 2048..65535 -> <<224 + c \div 4096, 128 + (c % 4096) \div 64, 128 + (c % 64)>>
    [] OTHER     -> <<240 + c \div 262144, 128 + (c % 262144) \div 4096,
                      128 + (c % 4096) \div 64, 128 + (c % 64)>>

\* b is written if there is room for it.
Write(n, b, room) == IF room < Len(b) THEN Fails("partial") ELSE Result("ok", n, b)

utf16_to_utf8(frm, room, Maxcode, mode) ==
  LET Char(s, left) ==
        IF s[1] > Maxcode \/ Low(s[1]) THEN Fails("error")
        ELSE IF ~High(s[1]) THEN Write(1, Utf8Bytes(s[1]), left)
        ELSE IF Len(s) < 2 THEN Fails("partial")
        ELSE IF ~Low(s[2]) THEN Fails("error")
        ELSE IF left < 4 THEN Fails("partial")
        ELSE IF Joined(s[1], s[2]) > Maxcode THEN Fails("error")
        ELSE Write(2, Utf8Bytes(Joined(s[1], s[2])), left)
  IN OutLoop(Char, frm, room, BOM8, mode)

\* The overload for 32-bit units looks at the low 16 bits of each.
utf16_to_utf8_32(frm, room, Maxcode, mode) ==
  utf16_to_utf8([k \in 1..Len(frm) |-> frm[k] % 65536], room, Maxcode, mode)

Trail(c) == c \div 64 = 2                    \* (c & 0xC0) == 0x80

\* The first character of s: how long it is, whether its bytes are those of a
\* character, and its code.  Too short an input is seen before a wrong byte.
Utf8Char(s, longest) ==
  LET c1 == s[1]
      n  == CASE c1 \in 0..127 -> 1 [] c1 \in 194..223 -> 2 [] c1 \in 224..239 -> 3
              [] c1 \in 240..244 /\ longest = 4 -> 4 [] OTHER -> 0
      second == CASE c1 = 224 -> s[2] \div 32 = 5    \* A0..BF
                  [] c1 = 237 -> s[2] \div 32 = 4    \* 80..9F
                  [] c1 = 240 -> s[2] \in 144..191
                  [] c1 = 244 -> s[2] \div 16 = 8    \* 80..8F
                  [] OTHER -> Trail(s[2])
      code == CASE n = 1 -> c1
                [] n = 2 -> (c1 % 32) * 64 + (s[2] % 64)
                [] n = 3 -> (c1 % 16) * 4096 + (s[2] % 64) * 64 + (s[3] % 64)
                [] n = 4 -> (c1 % 8) * 262144 + (s[2] % 64) * 4096 + (s[3] % 64) * 64
                              + (s[4] % 64)
  IN IF n = 0 THEN Fails("error")
     ELSE IF Len(s) < n THEN Fails("partial")
     ELSE IF n > 1 /\ ~(second /\ \A k \in 3..n : Trail(s[k])) THEN Fails("error")
     ELSE Result("ok", n, <<code>>)

\* A lead byte above Maxcode is an error before anything else is looked at.
utf8_to_utf16(frm, room, Maxcode, mode) ==
  LET Char(s, left) ==
        LET c == Utf8Char(s, 4) IN
        IF s[1] > Maxcode THEN Fails("error")
        ELSE IF c.res # "ok" THEN c
        ELSE IF c.used = 4 /\ left < 2 THEN Fails("partial")
        ELSE IF c.out[1] > Maxcode THEN Fails("error")
        ELSE [c EXCEPT !.out = IF c.used = 4 THEN Pair(c.out[1]) ELSE @]
  IN InLoop(Char, frm, room, BOM8, mode, 1)

\* The overload that stores 32-bit units; they are the same ones.
utf8_to_utf16_32(frm, room, Maxcode, mode) == utf8_to_utf16(frm, room, Maxcode, mode)

utf8_to_utf16_length(frm, mx, Maxcode, mode) ==
  LET Size(s, left) ==
        LET c == Utf8Char(s, 4) IN
        IF \/ s[1] > Maxcode \/ c.res # "ok"
           \/ c.used = 4 /\ left < 2
           \/ c.out[1] > Maxcode
        THEN <<0, 0>> ELSE <<c.used, IF c.used = 4 THEN 2 ELSE 1>>
  IN LengthLoop(Size, frm, mx, BOM8, mode, 1)

ucs4_to_utf8(frm, room, Maxcode, mode) ==
  LET Char(s, left) == IF Surrogate(s[1]) \/ s[1] > Maxcode THEN Fails("error")
                       ELSE Write(1, Utf8Bytes(s[1]), left)
  IN OutLoop(Char, frm, room, BOM8, mode)

\* utf8_to_ucs4 and utf8_to_ucs2: the character, if it is not above Maxcode.
Utf8Upto(s, Maxcode, longest) ==
  LET c == Utf8Char(s, longest) IN
  IF c.res = "ok" /\ c.out[1] > Maxcode THEN Fails("error") ELSE c

utf8_to_ucs4(frm, room, Maxcode, mode) ==
  LET Char(s, left) == Utf8Upto(s, Maxcode, 4)
  IN InLoop(Char, frm, room, BOM8, mode, 1)

utf8_to_ucs4_length(frm, mx, Maxcode, mode) ==
  LET Size(s, left) == <<Utf8Upto(s, Maxcode, 4).used, 1>>
  IN LengthLoop(Size, frm, mx, BOM8, mode, 1)

ucs2_to_utf8(frm, room, Maxcode, mode) ==
  LET Char(s, left) == IF Surrogate(s[1]) \/ s[1] > Maxcode THEN Fails("error")
                       ELSE Write(1, Utf8Bytes(s[1]), left)
  IN OutLoop(Char, frm, room, BOM8, mode)

utf8_to_ucs2(frm, room, Maxcode, mode) ==
  LET Char(s, left) == Utf8Upto(s, Maxcode, 3)
  IN InLoop(Char, frm, room, BOM8, mode, 1)

utf8_to_ucs2_length(frm, mx, Maxcode, mode) ==
  LET Size(s, left) == <<Utf8Upto(s, Maxcode, 3).used, 1>>
  IN LengthLoop(Size, frm, mx, BOM8, mode, 1)

-----------------------------------------------------------------------------
(* UTF-16, bytes in big-endian or little-endian order.                     *)

Bytes(c, be)  == IF be THEN <<c \div 256, c % 256>> ELSE <<c % 256, c \div 256>>
Unit(s, k, be) == IF be THEN s[k] * 256 + s[k + 1] ELSE s[k + 1] * 256 + s[k]

Ucs4Bytes(s, left, be, Maxcode) ==
  IF Surrogate(s[1]) \/ s[1] > Maxcode THEN Fails("error")
  ELSE IF s[1] < 65536 THEN Write(1, Bytes(s[1], be), left)
  ELSE Write(1, Bytes(Pair(s[1])[1], be) \o Bytes(Pair(s[1])[2], be), left)

Utf16Char(s, be, Maxcode) ==
  LET c1 == Unit(s, 1, be) IN
  IF Low(c1) THEN Fails("error")
  ELSE IF ~High(c1)
       THEN IF c1 > Maxcode THEN Fails("error") ELSE Result("ok", 2, <<c1>>)
  ELSE IF Len(s) < 4 THEN Fails("partial")
  ELSE LET c2 == Unit(s, 3, be) IN
       IF ~Low(c2) \/ Joined(c1, c2) > Maxcode THEN Fails("error")
       ELSE Result("ok", 4, <<Joined(c1, c2)>>)

Ucs2Bytes(s, left, be, Maxcode) ==
  IF Surrogate(s[1]) \/ s[1] > Maxcode THEN Fails("error")
  ELSE Write(1, Bytes(s[1], be), left)

Ucs2Char(s, be, Maxcode) ==
  LET c1 == Unit(s, 1, be) IN
  IF Surrogate(c1) \/ c1 > Maxcode THEN Fails("error") ELSE Result("ok", 2, <<c1>>)

ucs4_to_utf16be(frm, room, Maxcode, mode) ==
  LET Char(s, left) == Ucs4Bytes(s, left, TRUE, Maxcode)
  IN OutLoop(Char, frm, room, BOMbe, mode)

utf16be_to_ucs4(frm, room, Maxcode, mode) ==
  LET Char(s, left) == Utf16Char(s, TRUE, Maxcode)
  IN InLoop(Char, frm, room, BOMbe, mode, 2)

utf16be_to_ucs4_length(frm, mx, Maxcode, mode) ==
  LET Size(s, left) == <<Utf16Char(s, TRUE, Maxcode).used, 1>>
  IN LengthLoop(Size, frm, mx, BOMbe, mode, 2)

ucs4_to_utf16le(frm, room, Maxcode, mode) ==
  LET Char(s, left) == Ucs4Bytes(s, left, FALSE, Maxcode)
  IN OutLoop(Char, frm, room, BOMle, mode)

utf16le_to_ucs4(frm, room, Maxcode, mode) ==
  LET Char(s, left) == Utf16Char(s, FALSE, Maxcode)
  IN InLoop(Char, frm, room, BOMle, mode, 2)

utf16le_to_ucs4_length(frm, mx, Maxcode, mode) ==
  LET Size(s, left) == <<Utf16Char(s, FALSE, Maxcode).used, 1>>
  IN LengthLoop(Size, frm, mx, BOMle, mode, 2)

ucs2_to_utf16be(frm, room, Maxcode, mode) ==
  LET Char(s, left) == Ucs2Bytes(s, left, TRUE, Maxcode)
  IN OutLoop(Char, frm, room, BOMbe, mode)

utf16be_to_ucs2(frm, room, Maxcode, mode) ==
  LET Char(s, left) == Ucs2Char(s, TRUE, Maxcode)
  IN InLoop(Char, frm, room, BOMbe, mode, 2)

utf16be_to_ucs2_length(frm, mx, Maxcode, mode) ==
  LET Size(s, left) == <<Ucs2Char(s, TRUE, Maxcode).used, 1>>
  IN LengthLoop(Size, frm, mx, BOMbe, mode, 2)

ucs2_to_utf16le(frm, room, Maxcode, mode) ==
  LET Char(s, left) == Ucs2Bytes(s, left, FALSE, Maxcode)
  IN OutLoop(Char, frm, room, BOMle, mode)

utf16le_to_ucs2(frm, room, Maxcode, mode) ==
  LET Char(s, left) == Ucs2Char(s, FALSE, Maxcode)
  IN InLoop(Char, frm, room, BOMle, mode, 2)

utf16le_to_ucs2_length(frm, mx, Maxcode, mode) ==
  LET Size(s, left) == <<Ucs2Char(s, FALSE, Maxcode).used, 1>>
  IN LengthLoop(Size, frm, mx, BOMle, mode, 2)

-----------------------------------------------------------------------------
(* The facets: do_out, do_in, do_length and do_max_length of each, with n  *)
(* for the room or for mx.  do_unshift, do_encoding and do_always_noconv   *)
(* return constants.                                                       *)

Plain == [generate_header |-> FALSE, consume_header |-> FALSE]
Top   == 1114111                             \* 0x10FFFF, the default Maxcode

codecvt_char16(op, frm, n, mc, mode) ==
  CASE op = "out"    -> utf16_to_utf8(frm, n, Top, Plain)
    [] op = "in"     -> utf8_to_utf16(frm, n, Top, Plain)
    [] op = "length" -> utf8_to_utf16_length(frm, n, Top, Plain)
    [] op = "max"    -> 4

codecvt_char32(op, frm, n, mc, mode) ==
  CASE op = "out"    -> ucs4_to_utf8(frm, n, Top, Plain)
    [] op = "in"     -> utf8_to_ucs4(frm, n, Top, Plain)
    [] op = "length" -> utf8_to_ucs4_length(frm, n, Top, Plain)
    [] op = "max"    -> 4

codecvt_utf8_wchar(op, frm, n, mc, mode) ==
  CASE op = "out"    -> ucs4_to_utf8(frm, n, mc, mode)
    [] op = "in"     -> utf8_to_ucs4(frm, n, mc, mode)
    [] op = "length" -> utf8_to_ucs4_length(frm, n, mc, mode)
    [] op = "max"    -> IF mode.consume_header THEN 7 ELSE 4

codecvt_utf8_char16(op, frm, n, mc, mode) ==
  CASE op = "out"    -> ucs2_to_utf8(frm, n, mc, mode)
    [] op = "in"     -> utf8_to_ucs2(frm, n, mc, mode)
    [] op = "length" -> utf8_to_ucs2_length(frm, n, mc, mode)
    [] op = "max"    -> IF mode.consume_header THEN 6 ELSE 3

codecvt_utf8_char32(op, frm, n, mc, mode) ==
  CASE op = "out"    -> ucs4_to_utf8(frm, n, mc, mode)
    [] op = "in"     -> utf8_to_ucs4(frm, n, mc, mode)
    [] op = "length" -> utf8_to_ucs4_length(frm, n, mc, mode)
    [] op = "max"    -> IF mode.consume_header THEN 7 ELSE 4

codecvt_utf16_wchar_be(op, frm, n, mc, mode) ==
  CASE op = "out"    -> ucs4_to_utf16be(frm, n, mc, mode)
    [] op = "in"     -> utf16be_to_ucs4(frm, n, mc, mode)
    [] op = "length" -> utf16be_to_ucs4_length(frm, n, mc, mode)
    [] op = "max"    -> IF mode.consume_header THEN 6 ELSE 4

codecvt_utf16_wchar_le(op, frm, n, mc, mode) ==
  CASE op = "out"    -> ucs4_to_utf16le(frm, n, mc, mode)
    [] op = "in"     -> utf16le_to_ucs4(frm, n, mc, mode)
    [] op = "length" -> utf16le_to_ucs4_length(frm, n, mc, mode)
    [] op = "max"    -> IF mode.consume_header THEN 6 ELSE 4

codecvt_utf16_char16_be(op, frm, n, mc, mode) ==
  CASE op = "out"    -> ucs2_to_utf16be(frm, n, mc, mode)
    [] op = "in"     -> utf16be_to_ucs2(frm, n, mc, mode)
    [] op = "length" -> utf16be_to_ucs2_length(frm, n, mc, mode)
    [] op = "max"    -> IF mode.consume_header THEN 4 ELSE 2

codecvt_utf16_char16_le(op, frm, n, mc, mode) ==
  CASE op = "out"    -> ucs2_to_utf16le(frm, n, mc, mode)
    [] op = "in"     -> utf16le_to_ucs2(frm, n, mc, mode)
    [] op = "length" -> utf16le_to_ucs2_length(frm, n, mc, mode)
    [] op = "max"    -> IF mode.consume_header THEN 4 ELSE 2

codecvt_utf16_char32_be(op, frm, n, mc, mode) ==
  CASE op = "out"    -> ucs4_to_utf16be(frm, n, mc, mode)
    [] op = "in"     -> utf16be_to_ucs4(frm, n, mc, mode)
    [] op = "length" -> utf16be_to_ucs4_length(frm, n, mc, mode)
    [] op = "max"    -> IF mode.consume_header THEN 6 ELSE 4

codecvt_utf16_char32_le(op, frm, n, mc, mode) ==
  CASE op = "out"    -> ucs4_to_utf16le(frm, n, mc, mode)
    [] op = "in"     -> utf16le_to_ucs4(frm, n, mc, mode)
    [] op = "length" -> utf16le_to_ucs4_length(frm, n, mc, mode)
    [] op = "max"    -> IF mode.consume_header THEN 6 ELSE 4

codecvt_utf8_utf16_wchar(op, frm, n, mc, mode) ==
  CASE op = "out"    -> utf16_to_utf8_32(frm, n, mc, mode)
    [] op = "in"     -> utf8_to_utf16_32(frm, n, mc, mode)
    [] op = "length" -> utf8_to_utf16_length(frm, n, mc, mode)
    [] op = "max"    -> IF mode.consume_header THEN 7 ELSE 4

codecvt_utf8_utf16_char16(op, frm, n, mc, mode) ==
  CASE op = "out"    -> utf16_to_utf8(frm, n, mc, mode)
    [] op = "in"     -> utf8_to_utf16(frm, n, mc, mode)
    [] op = "length" -> utf8_to_utf16_length(frm, n, mc, mode)
    [] op = "max"    -> IF mode.consume_header THEN 7 ELSE 4

codecvt_utf8_utf16_char32(op, frm, n, mc, mode) ==
  CASE op = "out"    -> utf16_to_utf8_32(frm, n, mc, mode)
    [] op = "in"     -> utf8_to_utf16_32(frm, n, mc, mode)
    [] op = "length" -> utf8_to_utf16_length(frm, n, mc, mode)
    [] op = "max"    -> IF mode.consume_header THEN 7 ELSE 4

\* The facets by name, and whether their internal units are UTF-16.
Facet(f, op, frm, n, mc, mode) ==
  CASE f = "char16" -> codecvt_char16(op, frm, n, mc, mode)
    [] f = "char32" -> codecvt_char32(op, frm, n, mc, mode)
    [] f = "utf8_wchar" -> codecvt_utf8_wchar(op, frm, n, mc, mode)
    [] f = "utf8_char16" -> codecvt_utf8_char16(op, frm, n, mc, mode)
    [] f = "utf8_char32" -> codecvt_utf8_char32(op, frm, n, mc, mode)
    [] f = "utf16_wchar_be" -> codecvt_utf16_wchar_be(op, frm, n, mc, mode)
    [] f = "utf16_wchar_le" -> codecvt_utf16_wchar_le(op, frm, n, mc, mode)
    [] f = "utf16_char16_be" -> codecvt_utf16_char16_be(op, frm, n, mc, mode)
    [] f = "utf16_char16_le" -> codecvt_utf16_char16_le(op, frm, n, mc, mode)
    [] f = "utf16_char32_be" -> codecvt_utf16_char32_be(op, frm, n, mc, mode)
    [] f = "utf16_char32_le" -> codecvt_utf16_char32_le(op, frm, n, mc, mode)
    [] f = "utf8_utf16_wchar" -> codecvt_utf8_utf16_wchar(op, frm, n, mc, mode)
    [] f = "utf8_utf16_char16" -> codecvt_utf8_utf16_char16(op, frm, n, mc, mode)
    [] f = "utf8_utf16_char32" -> codecvt_utf8_utf16_char32(op, frm, n, mc, mode)

Facets ==
  {"char16", "char32", "utf8_wchar", "utf8_char16", "utf8_char32",
   "utf16_wchar_be", "utf16_wchar_le", "utf16_char16_be",
   "utf16_char16_le", "utf16_char32_be", "utf16_char32_le",
   "utf8_utf16_wchar", "utf8_utf16_char16", "utf8_utf16_char32"}
=============================================================================
