----------------------------- MODULE Conversion -----------------------------
(***************************************************************************)
(* The conversions of Codecvt in use: a caller converts a sequence with    *)
(* calls of any window and any room, as a file buffer does; what was       *)
(* written out is read back in.  Compared with the definitions of UTF-8    *)
(* and UTF-16.                                                             *)
(***************************************************************************)
EXTENDS Codecvt

CONSTANTS Codes,        \* code units to be written out
          Heads, Seconds, Tails,  \* bytes to be read in
          Maxcodes      \* values of Maxcode

VARIABLES f, mc, mode,  \* the facet, its Maxcode and mode
          dir,          \* "out", "back" (what was written), "in" (any bytes)
          src, orig,    \* input of the conversion; what was first written out
          pos, dst,     \* how far it is; what it wrote
          last          \* result of the last call

vars == <<f, mc, mode, dir, src, orig, pos, dst, last>>

\* Facets whose internal units are UTF-16, or UCS-2, and those of them whose
\* units are of a 16-bit type.
IsUtf16 == f \in {"char16", "utf8_utf16_wchar", "utf8_utf16_char16", "utf8_utf16_char32"}
IsUcs2  == f \in {"utf8_char16", "utf16_char16_be", "utf16_char16_le"}
Narrow  == IsUcs2 \/ f \in {"char16", "utf8_utf16_char16"}

Init ==
  /\ f \in Facets /\ mc \in Maxcodes /\ mode \in Modes
  /\ f \in {"char16", "char32"} => mc = Top /\ mode = Plain
  /\ \/ /\ dir = "out" /\ src \in UNION {[1..k -> Codes] : k \in 1..2}
        /\ Narrow => \A k \in 1..Len(src) : src[k] < 65536
     \/ /\ dir = "in" /\ ~mode.generate_header
        /\ src \in {<<h, t, u, v>> : h \in Heads, t \in Seconds, u \in Tails, v \in Tails}
  /\ orig = src /\ pos = 0 /\ dst = <<>> /\ last = "ok"

\* One call.  A facet with a header mode treats every call as the first, so
\* these get the whole input in one call.
Call(n, room) ==
  /\ last # "error" /\ pos + n <= Len(src)
  /\ LET r == Facet(f, IF dir = "out" THEN "out" ELSE "in",
                    SubSeq(src, pos + 1, pos + n), room, mc, mode)
     IN pos' = pos + r.used /\ dst' = dst \o r.out /\ last' = r.res
  /\ UNCHANGED <<f, mc, mode, dir, src, orig>>

CallPlain  == mode = Plain /\ \E n \in 1..4, room \in {1, 2, 4} : Call(n, room)
CallHeader == mode # Plain /\ pos = 0 /\ dst = <<>> /\ Call(Len(src), 20)

TurnBack ==
  /\ dir = "out" /\ last = "ok" /\ pos = Len(src)
  /\ dir' = "back" /\ src' = dst /\ pos' = 0 /\ dst' = <<>>
  /\ UNCHANGED <<f, mc, mode, orig, last>>

Next == CallPlain \/ CallHeader \/ TurnBack

-----------------------------------------------------------------------------
(* What the encodings are.                                                 *)

\* UTF-8: the shortest form, marks and 6 bits a byte.
Utf8Ref(c) ==
  LET n == CHOOSE k \in 1..4 : /\ c < <<128, 2048, 65536, 2097152>>[k]
                               /\ k > 1 => c >= <<128, 2048, 65536>>[k - 1]
  IN [k \in 1..n |-> IF k = 1 THEN <<0, 192, 224, 240>>[n] + c \div 64^(n - 1)
                              ELSE 128 + ((c \div 64^(n - k)) % 64)]

\* UTF-16 units of a code, and their bytes.
Utf16Ref(c) == IF c < 65536 THEN <<c>>
               ELSE <<55296 + (c - 65536) \div 1024, 56320 + ((c - 65536) % 1024)>>
BytesRef(c, le) ==
  LET u == Utf16Ref(c) IN
  [k \in 1..2 * Len(u) |->
     LET w == u[(k + 1) \div 2] IN IF (k % 2 = 0) = le THEN w \div 256 ELSE w % 256]

LittleEndian == f \in {"utf16_wchar_le", "utf16_char16_le", "utf16_char32_le"}
BigEndian    == f \in {"utf16_wchar_be", "utf16_char16_be", "utf16_char32_be"}
External(c)  == IF LittleEndian \/ BigEndian THEN BytesRef(c, LittleEndian) ELSE Utf8Ref(c)
Internal(c)  == IF IsUtf16 THEN Utf16Ref(c) ELSE <<c>>

\* What units stand for: UTF-16 in units of 32 bits is in their low 16 bits.
Units(s) == IF IsUtf16 /\ ~Narrow THEN [k \in 1..Len(s) |-> s[k] % 65536] ELSE s
Allowed(c)   == c \in 0..mc /\ c \notin 55296..57343 /\ (IsUcs2 => c < 65536)

\* The codes that the units of s may be the first form of.
Read(s, external) ==
  CASE ~external ->
         IF IsUtf16 /\ Len(s) > 1 THEN {s[1], 65536 + (s[1] - 55296) * 1024 + s[2] - 56320}
         ELSE {s[1]}
    [] external /\ (LittleEndian \/ BigEndian) ->
         LET w(k) == IF LittleEndian THEN s[k] + s[k + 1] * 256 ELSE s[k] * 256 + s[k + 1] IN
         (IF Len(s) > 1 THEN {w(1)} ELSE {})
           \cup (IF Len(s) > 3 THEN {65536 + (w(1) - 55296) * 1024 + w(3) - 56320} ELSE {})
    [] OTHER ->
         {s[1]} \cup {LET bits[k \in 1..n] == IF k = 1 THEN s[1] % <<128, 32, 16, 8>>[n]
                                           ELSE bits[k - 1] * 64 + (s[k] % 64)
                    IN bits[n] : n \in 2..(IF Len(s) < 4 THEN Len(s) ELSE 4)}

\* The allowed characters whose form s starts with: none or one.
CharAt(s, external) ==
  {c \in Read(s, external) :
     Allowed(c) /\ Starts(s, IF external THEN External(c) ELSE Internal(c))}

\* s is made of the internal, t of the external forms of the same characters.
Corresponds(s, t) ==
  LET same[p \in Nat, q \in Nat] ==
        IF p = Len(s) THEN q = Len(t)
        ELSE \E c \in CharAt(From(s, p), FALSE) :
               /\ Starts(From(t, q), External(c))
               /\ same[p + Len(Internal(c)), q + Len(External(c))]
  IN same[0, 0]

\* utf8_to_utf16 compares the first byte of a character with Maxcode: a Maxcode
\* below that byte refuses the character, be it allowed or not.
Refused(c) == IsUtf16 /\ Utf8Ref(c)[1] > mc

Header == IF LittleEndian THEN <<255, 254>> ELSE IF BigEndian THEN <<254, 255>>
          ELSE <<239, 187, 191>>

-----------------------------------------------------------------------------
(* Properties.                                                             *)

\* Whatever windows and rooms the calls had, what was written is exactly the
\* encoding, or the decoding, of what was used, behind a header where the mode
\* says so.  What is above the low 16 bits of a unit of UTF-16 is ignored.
Converts ==
  LET internal == IF dir = "out" THEN Units(SubSeq(src, 1, pos)) ELSE dst
      external == IF dir = "out" THEN dst ELSE SubSeq(src, 1, pos)
      header   == IF dir = "out" THEN mode.generate_header /\ dst # <<>>
                  ELSE mode.consume_header /\ Starts(external, Header)
  IN Corresponds(internal, IF header THEN From(external, Len(Header)) ELSE external)

\* A conversion stops in error only where no character that the facet allows
\* starts, and where one does only if do_in refuses its first byte: no valid
\* input is refused because of where a call ended.
ErrorsRight ==
  last = "error" =>
    LET rest == From(src, pos) IN
    IF dir = "out" THEN CharAt(Units(rest), FALSE) = {}
    ELSE \A c \in CharAt(rest, TRUE) : Refused(c)

\* What was written out comes back as it was, up to the first character that
\* do_in refuses, and is in error only there; with a header if that is both
\* written and skipped.
RoundTrip ==
  dir = "back" /\ mode.generate_header = mode.consume_header =>
    /\ Starts(Units(orig), dst)
    /\ pos = Len(src) => dst = Units(orig)
    /\ last = "error" => \E c \in CharAt(From(Units(orig), Len(dst)), FALSE) : Refused(c)

\* do_length counts exactly the bytes that do_in uses for that many units.
LengthAgrees ==
  dir # "out" => \A mx \in 0..3 :
    Facet(f, "length", From(src, pos), mx, mc, mode)
      = Facet(f, "in", From(src, pos), mx, mc, mode).used

\* do_max_length bytes, and room for a surrogate pair, are enough for do_in to
\* write something or to find an error: a caller that buffers so many never
\* gets stuck.
MaxLengthEnough ==
  LET n == Facet(f, "max", <<>>, 0, mc, mode) IN
  dir # "out" /\ Len(src) - pos >= n =>
    LET r == Facet(f, "in", SubSeq(src, pos + 1, pos + n), 2, mc, mode)
    IN r.out # <<>> \/ r.res = "error"
=============================================================================
