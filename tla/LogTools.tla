------------------------------ MODULE LogTools ------------------------------
(***************************************************************************)
(* The log tools in a row: tail (external) follows log files and announces *)
(* the file it prints from, wissbi_log_transformer.py puts the file's name *)
(* before each line, sed in wissbi_log_collector.sh breaks long lines so   *)
(* that they fit a message, and log_columnizer.sh shows them in batches.   *)
(* Publisher and subscriber, in between, pass lines on in order.           *)
(***************************************************************************)
EXTENDS Integers, Sequences

CONSTANTS Files, NoFile,
          MaxPieces,      \* pieces written to the files
          MaxLength,      \* characters of a piece of plain text
          Chunk,          \* sed breaks after so many characters
          MessageSize,    \* MAX_MSG_SIZE: of a message, with the NUL that getline adds
          Height          \* of the terminal

\* A part of a line and its backslash are shorter than a message (4000 and
\* 4096 characters).
ASSUME LogAssumption ==
  /\ NoFile \notin Files /\ MaxPieces \in Nat /\ MaxLength \in Nat /\ Height \in Nat
  /\ Chunk \in Nat \ {0} /\ MessageSize \in Nat /\ Chunk + 1 < MessageSize

VARIABLES fresh,          \* what was appended to a file and not read yet
          pieces,         \* how many pieces were written
          last,           \* file that tail printed from last
          fifo,           \* what tail printed
          current_logger,
          lines,          \* lines the transformer wrote
          sent,           \* lines after sed
          display,        \* the columnizer: what it read, its buffer, what it showed
          posing          \* history: a log has had text that looks like an announcement

logVars == <<fresh, pieces, last, fifo, current_logger, lines, sent, display, posing>>

\* Characters carry their file; a name is announced in a line of its own.
Char(f) == [c |-> "x", file |-> f]
Backslash(f) == [c |-> "\\", file |-> f]
Newline == [c |-> "\n", file |-> NoFile]
Header(f) == [c |-> "==>", file |-> f]     \* the text "==> f <=="

Glyph == {Char(f) : f \in Files} \cup {Backslash(f) : f \in Files} \cup {Header(f) : f \in Files}

LogTypeOK ==
  /\ fresh \in [Files -> Seq(Glyph \cup {Newline})]
  /\ pieces \in 0..MaxPieces /\ last \in Files /\ current_logger \in Files \cup {NoFile}
  /\ fifo \in Seq(Glyph \cup {Newline}) /\ posing \in BOOLEAN
  /\ lines \in Seq([logger : Files \cup {NoFile}, text : Seq(Glyph)])
  /\ sent \in Seq([line : 1..Len(lines), len : Nat, more : BOOLEAN])
  /\ display \in [taken : 0..Len(sent), buffer : Seq(Seq(1..Len(lines))),
                  shown : Seq(Seq(1..Len(lines))), open : BOOLEAN]

LogInit ==
  /\ fresh = [f \in Files |-> <<>>] /\ pieces = 0
  /\ last \in Files /\ fifo = <<Header(last), Newline>>
  /\ current_logger = NoFile /\ lines = <<>> /\ sent = <<>>
  /\ display = [taken |-> 0, buffer |-> <<>>, shown |-> <<>>, open |-> TRUE]
  /\ posing = FALSE

\* What a program may write at a time: text, which may end in a backslash, or
\* text that looks like the announcement of a file.
Piece(f) ==
  {[k \in 1..n |-> IF k = n /\ b THEN Backslash(f) ELSE Char(f)] : n \in 0..MaxLength, b \in BOOLEAN}
    \cup {<<Header(g)>> : g \in Files}

\* A program writes to its log, perhaps less than a line.
Log(f, s, newline) ==
  /\ pieces < MaxPieces /\ pieces' = pieces + 1
  /\ fresh' = [fresh EXCEPT ![f] = @ \o s \o (IF newline THEN <<Newline>> ELSE <<>>)]
  /\ posing' = (posing \/ s \notin Seq({Char(f), Backslash(f)}))
  /\ UNCHANGED <<last, fifo, current_logger, lines, sent, display>>

\* tail -F: prints what is new in a file, behind its name if another file was
\* printed before.
TailReads(f) ==
  /\ fresh[f] # <<>>
  /\ fifo' = fifo \o (IF last = f THEN <<>>
                      ELSE <<Newline, Header(f), Newline>>) \o fresh[f]
  /\ last' = f /\ fresh' = [fresh EXCEPT ![f] = <<>>]
  /\ UNCHANGED <<pieces, current_logger, lines, sent, display, posing>>

\* The first line of the fifo.
LineEnds(k) == fifo[k] = Newline /\ \A j \in 1..(k - 1) : fifo[j] # Newline
HasLine == \E k \in 1..Len(fifo) : fifo[k] = Newline

\* sep_re matches a whole line; what stands between two announcements would be
\* taken for a part of the name, which is then no file's.
IsHeader(line) == line[1].c = "==>" /\ line[Len(line)].c = "==>"
NameIn(line) == IF Len(line) = 1 THEN line[1].file ELSE NoFile

\* Mutant: a name is only taken once.
TransformKeepsName ==
  /\ \E k \in 1..Len(fifo) :
       /\ LineEnds(k) /\ fifo' = SubSeq(fifo, k + 1, Len(fifo))
       /\ LET line == SubSeq(fifo, 1, k - 1) IN
          IF line = <<>> THEN UNCHANGED <<current_logger, lines>>
          ELSE IF IsHeader(line) /\ current_logger = NoFile
          THEN current_logger' = NameIn(line) /\ UNCHANGED lines
          ELSE lines' = Append(lines, [logger |-> current_logger, text |-> line])
               /\ UNCHANGED current_logger
  /\ UNCHANGED <<fresh, pieces, last, sent, display, posing>>

\* One turn of the transformer's loop.
Transform ==
  /\ \E k \in 1..Len(fifo) :
       /\ LineEnds(k) /\ fifo' = SubSeq(fifo, k + 1, Len(fifo))
       /\ LET line == SubSeq(fifo, 1, k - 1) IN
          IF line = <<>> THEN UNCHANGED <<current_logger, lines>>
          ELSE IF IsHeader(line) THEN current_logger' = NameIn(line) /\ UNCHANGED lines
          ELSE lines' = Append(lines, [logger |-> current_logger, text |-> line])
               /\ UNCHANGED current_logger
  /\ UNCHANGED <<fresh, pieces, last, sent, display, posing>>

\* read without -r: s ends in a backslash that is not itself escaped.
Escaped(s) ==
  \E n \in 1..Len(s) :
    /\ n % 2 = 1 /\ \A j \in (Len(s) - n + 1)..Len(s) : s[j].c = "\\"
    /\ n = Len(s) \/ s[Len(s) - n].c # "\\"

\* What sed makes of line k, whose text is s: each chunk gets a backslash and a
\* newline.  Of a part the length is kept, and whether read joins it with the
\* next.  The publisher never gets an empty line across, which is what is left
\* of a line that ends with a chunk.
Broken(k, s) ==
  LET whole == Len(s) \div Chunk
      rest  == Len(s) % Chunk
      part(j) == IF j <= whole
                 THEN Append(SubSeq(s, Chunk * (j - 1) + 1, Chunk * j), Backslash(NoFile))
                 ELSE SubSeq(s, Chunk * whole + 1, Len(s))
  IN  [j \in 1..(IF rest = 0 THEN whole ELSE whole + 1) |->
         [line |-> k, len |-> Len(part(j)), more |-> Escaped(part(j))]]

\* The lines of which sed has written a part.
Done == IF sent = <<>> THEN 0 ELSE sent[Len(sent)].line

\* sed on the next line.
Sed ==
  LET k == Done + 1
  IN /\ k <= Len(lines)
     /\ sent' = sent \o Broken(k, lines[k].text)
     /\ UNCHANGED <<fresh, pieces, last, fifo, current_logger, lines, display, posing>>

\* log_columnizer.sh: read joins a line that ends in a backslash with the next;
\* a batch is shown when it is higher than half the terminal, or at the end.
Columnize ==
  /\ display.open
  /\ LET rest == SubSeq(sent, display.taken + 1, Len(sent))
     IN \/ \E k \in 1..Len(rest) :
           /\ ~rest[k].more /\ \A j \in 1..(k - 1) : rest[j].more
           /\ LET b == Append(display.buffer, [j \in 1..k |-> rest[j].line])
              IN display' = [display EXCEPT !.taken = @ + k,
                               !.buffer = IF Len(b) > Height \div 2 THEN <<>> ELSE b,
                               !.shown  = IF Len(b) > Height \div 2 THEN @ \o b ELSE @]
        \/ /\ pieces = MaxPieces /\ ~HasLine /\ \A f \in Files : fresh[f] = <<>>
           /\ Done = Len(lines) /\ \A k \in 1..Len(rest) : rest[k].more
           /\ display' = [display EXCEPT !.shown = @ \o display.buffer, !.buffer = <<>>, !.open = FALSE]
  /\ UNCHANGED <<fresh, pieces, last, fifo, current_logger, lines, sent, posing>>

LogNext ==
  \/ \E f \in Files : \E s \in Piece(f), newline \in BOOLEAN : Log(f, s, newline)
  \/ \E f \in Files : TailReads(f)
  \/ Transform \/ Sed \/ Columnize

LogSpec == LogInit /\ [][LogNext]_logVars

-----------------------------------------------------------------------------
\* Every line is given the name of the file it was written to, however the
\* files' pieces and tail's reads mix, as long as no log has text that looks
\* like an announcement of tail (wissbi_log_transformer.py:21).
Attributed ==
  ~posing => \A k \in 1..Len(lines) : \A j \in 1..Len(lines[k].text) :
               lines[k].text[j].file = lines[k].logger

\* What is published fits a message buffer, with its NUL.
FitsMessage == \A k \in 1..Len(sent) : sent[k].len < MessageSize

\* No line ends with a chunk or holds a backslash.
Plain(ls) ==
  \A k \in 1..Len(ls) : /\ Len(ls[k].text) % Chunk # 0
                         /\ \A j \in 1..Len(ls[k].text) : ls[k].text[j].c # "\\"

\* The columnizer shows every line of the transformer once, in order, put
\* together again from the parts that sed made of it, as long as no line ends
\* with a chunk or holds a backslash: such a line may be joined with the next
\* (log_columnizer.sh:12).
ShownWhole ==
  Plain(lines) =>
    /\ \A k \in 1..Len(display.shown) : \A j \in 1..Len(display.shown[k]) : display.shown[k][j] = k
    /\ ~display.open => Len(display.shown) = Len(lines)

\* The log tools: a line gets the name of its own file, nothing longer than a
\* message is published, and every line is shown whole and once, with the
\* exceptions named above.
LogsShown == LogTypeOK /\ Attributed /\ FitsMessage /\ ShownWhole

=============================================================================
