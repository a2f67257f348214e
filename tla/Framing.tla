------------------------------- MODULE Framing ------------------------------
(***************************************************************************)
(* Messages on a pipe between two programs, as lines (line.hpp) or behind  *)
(* their length (length.hpp).  The writer may end in the middle of a       *)
(* message, or leave out the last newline; the reader keeps its buffer     *)
(* from message to message, and ends at the first Get that fails.  Of the  *)
(* characters, "nl" is the newline and "sp" the space.                     *)
(***************************************************************************)
EXTENDS Integers, Sequences

CONSTANTS MAX_MSG_SIZE,   \* size of a message buffer
          MaxMsgs         \* messages written

ASSUME FramingAssumption == MAX_MSG_SIZE \in Nat \ {0} /\ MaxMsgs \in Nat

VARIABLES policy,         \* "line" or "length"
          written,        \* messages the writer has put
          pipe, closed,   \* characters written, and whether the writer ended
          cut,            \* the writer ended within a message
          pos,            \* characters read
          buf,            \* the reader's msg_buf_.buf
          got,            \* messages Get returned
          reading,        \* Get has not failed
          spilled         \* a message went over the end of the buffer

frameVars == <<policy, written, pipe, closed, cut, pos, buf, got, reading, spilled>>

Numerals == <<"1", "2", "3", "4", "5", "6", "7", "8", "9">>
Letters(p) == IF p = "line" THEN {"a", "1"} ELSE {"1", "nl"}   \* a digit, white space

\* The longest message that fits a buffer; getline adds a NUL.
Longest(p) == IF p = "line" THEN MAX_MSG_SIZE - 1 ELSE MAX_MSG_SIZE

\* Up to the first that does not fit, and of one digit where the length is written.
Sizes(p) == IF p = "line" THEN 1..MAX_MSG_SIZE ELSE (1..(MAX_MSG_SIZE + 1)) \cap (1..9)
Messages(p) == UNION {[1..n -> Letters(p)] : n \in Sizes(p)}

\* A message that does not fit into a buffer was written, as a program that is
\* not a wissbi filter may.
TooLong == \E k \in DOMAIN written : Len(written[k]) > Longest(policy)

FrameTypeOK ==
  /\ policy \in {"line", "length"} /\ closed \in BOOLEAN /\ cut \in BOOLEAN
  /\ reading \in BOOLEAN /\ spilled \in BOOLEAN /\ pos \in 0..Len(pipe) /\ Len(buf) = MAX_MSG_SIZE
  /\ \A k \in 1..Len(got) : Len(got[k]) <= Longest(policy)

FrameInit ==
  /\ policy \in {"line", "length"}
  /\ written = <<>> /\ pipe = <<>> /\ closed = FALSE /\ cut = FALSE
  /\ pos = 0 /\ buf = [k \in 1..MAX_MSG_SIZE |-> "?"] /\ got = <<>> /\ reading = TRUE
  /\ spilled = FALSE

-----------------------------------------------------------------------------
(* The writer: what Line::Put and Length::Put write.                       *)

Framed(p, m) == IF p = "line" THEN Append(m, "nl") ELSE <<Numerals[Len(m)], "sp">> \o m

PutFrame(m) ==
  /\ ~closed /\ Len(written) < MaxMsgs
  /\ written' = Append(written, m) /\ pipe' = pipe \o Framed(policy, m)
  /\ UNCHANGED <<policy, closed, cut, pos, buf, got, reading, spilled>>

\* The writer ends: after a message, killed within one, or without the last
\* newline, as a text file may.
End ==
  /\ ~closed /\ closed' = TRUE
  /\ \/ UNCHANGED <<written, pipe, cut>>
     \/ \E m \in Messages(policy) : \E n \in 1..Len(Framed(policy, m)) - 1 :
          /\ pipe' = pipe \o SubSeq(Framed(policy, m), 1, n)
          /\ IF policy = "line" /\ n = Len(m)
             THEN written' = Append(written, m) /\ UNCHANGED cut
             ELSE cut' = TRUE /\ UNCHANGED written
  /\ UNCHANGED <<policy, pos, buf, got, reading, spilled>>

-----------------------------------------------------------------------------
(* The reader.  A Get waits for characters until it has what it needs or   *)
(* the pipe is closed.                                                     *)

Left == SubSeq(pipe, pos + 1, Len(pipe))

\* The bytes of n read characters over what was in the buffer.
Over(s) == s \o SubSeq(buf, Len(s) + 1, Len(buf))

Gets(n, s, len) ==
  /\ pos' = pos + n /\ buf' = Over(s) /\ got' = Append(got, SubSeq(Over(s), 1, len))
  /\ UNCHANGED <<policy, written, pipe, closed, cut, reading, spilled>>
Stops(n, over) ==
  /\ pos' = pos + n /\ reading' = FALSE /\ spilled' = over
  /\ UNCHANGED <<policy, written, pipe, closed, cut, buf, got>>

\* The characters before the first newline of l, or all.
LineLen(l) ==
  CHOOSE k \in 0..Len(l) : (\A j \in 1..k : l[j] # "nl") /\ (k < Len(l) => l[k + 1] = "nl")

\* Mutant: the newline is taken off even at the end of the file.
LineGetEof ==
  /\ policy = "line" /\ reading
  /\ LET n == LineLen(Left)
         s == SubSeq(Left, 1, n)
     IN \/ n < Len(Left) /\ Gets(n + 1, s, n)
        \/ n = Len(Left) /\ closed /\ n > 0 /\ Gets(n, s, n - 1)
        \/ n = Len(Left) /\ closed /\ n = 0 /\ Stops(0, FALSE)

\* Line::Get.  getline stores up to MAX_MSG_SIZE - 1 characters; at the end of
\* the input it is content with at least one.
LineGet ==
  /\ policy = "line" /\ reading
  /\ LET n == LineLen(Left)
         s == SubSeq(Left, 1, n)
     IN \/ n >= MAX_MSG_SIZE /\ Stops(MAX_MSG_SIZE - 1, FALSE)
        \/ n < MAX_MSG_SIZE /\ n < Len(Left) /\ Gets(n + 1, s, n)
        \/ n < MAX_MSG_SIZE /\ n = Len(Left) /\ closed /\ n > 0 /\ Gets(n, s, n)
        \/ n = Len(Left) /\ closed /\ n = 0 /\ Stops(0, FALSE)

\* Length::Get.  The number ends at a character that is no digit, the space;
\* one that the input ends with fails.  A read that is cut short still counts:
\* the rest of the message is what was in the buffer.  A number beyond the size
\* of the buffer is not refused: read, or whoever uses the message, goes over its
\* end, and nothing is said of what comes then.
LengthGet ==
  /\ policy = "length" /\ reading
  /\ \/ /\ Len(Left) >= 2
        /\ \E size \in 1..9 :
             /\ Left[1] = Numerals[size] /\ (Len(Left) >= size + 2 \/ closed)
             /\ LET end == IF Len(Left) < size + 2 THEN Len(Left) ELSE size + 2
                IN \/ size <= MAX_MSG_SIZE /\ Gets(end, SubSeq(Left, 3, end), size)
                   \/ size > MAX_MSG_SIZE /\ Stops(end, TRUE)
     \/ closed /\ Len(Left) < 2 /\ Stops(Len(Left), FALSE)

FrameNext == (\E m \in Messages(policy) : PutFrame(m)) \/ End \/ LineGet \/ LengthGet

FrameSpec == FrameInit /\ [][FrameNext]_frameVars

-----------------------------------------------------------------------------
\* Every message is read as it was written, in order.  Only after a writer that
\* ended within a message there may be one more.
ReadAsWritten ==
  LET n == IF Len(got) <= Len(written) THEN Len(got) ELSE Len(written) IN
  /\ SubSeq(got, 1, n) = SubSeq(written, 1, n)
  /\ Len(got) > Len(written) => cut /\ Len(got) = Len(written) + 1

\* The filter loop ends with the input and not before: when Get has failed the
\* writer has ended and all its messages were read, unless a message was longer
\* than the buffer.  Only such a message, or one that the writer was killed in,
\* goes over the end of the buffer, and only where its length is written.
EndsWithInput ==
  /\ ~reading => TooLong \/ (closed /\ Len(got) >= Len(written))
  /\ spilled => ~reading /\ policy = "length" /\ (TooLong \/ cut)

\* Framing: both framings give back the messages as they were written, and
\* the filter loop ends with the input and not before.
FramesRight == FrameTypeOK /\ ReadAsWritten /\ EndsWithInput

=============================================================================
