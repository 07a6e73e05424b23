------------------------------- MODULE Repl -------------------------------
(***************************************************************************)
(* The read-eval-print loop of hosted systems (main of sledge/sledge.c):   *)
(* lines of a file and then of the terminal are gathered in in_buffer      *)
(* until their parentheses balance; then the text is read and evaluated.   *)
(* A character is a symbol of an alphabet; fgets is external.              *)
(***************************************************************************)
EXTENDS Integers, Sequences, SequencesExt, FiniteSetsExt

CONSTANTS
  Lines,      \* lines that may come, without their newline
  MaxLines,   \* model bound: lines of a behaviour
  WithFile,   \* whether a file is given on the command line
  Nested      \* input assumption: no ")" without its "(", and files close lists

ASSUME ReplAssumption == MaxLines \in Nat /\ WithFile \in BOOLEAN /\ Nested \in BOOLEAN

VARIABLES
  in_f,        \* "file", "stdin", or "exit" once the terminal is closed
  in_buffer,   \* the text gathered, up to its zero byte
  in_offset, parens,
  evaluated,   \* the last text passed to read_string
  typed,       \* ghost: what was entered since then, less the comments
  meant,       \* ghost: what had been entered when evaluated was read
  count        \* lines so far

vars == <<in_f, in_buffer, in_offset, parens, evaluated, typed, meant, count>>

Init ==
  /\ in_f = IF WithFile THEN "file" ELSE "stdin"
  /\ in_buffer = <<>> /\ in_offset = 0 /\ parens = 0
  /\ evaluated = <<>> /\ typed = <<>> /\ meant = <<>>
  /\ count = 0

\* The characters of a line before its comment, newline included.
BeforeComment(line) ==
  LET marks == {k \in DOMAIN line : line[k] = ";"} IN
  IF marks = {} THEN line ELSE SubSeq(line, 1, Min(marks) - 1)

Depth(text) ==
  FoldLeft(LAMBDA d, c : IF c = "(" THEN d + 1 ELSE IF c = ")" THEN d - 1 ELSE d,
           0, text)

Parens(p, kept) == p + Depth(kept)

\* strncpy of the characters to in_buffer + in_offset, then a newline.
CopiedOver(buffer, offset, text) == text \o <<"\n">>
Copied(buffer, offset, text) == SubSeq(buffer, 1, offset) \o text \o <<"\n">>

\* in_offset after a line that leaves a list open.
OffsetAfter(offset, n) == offset + n

\* feof(in_f) or nothing read: from the file to the terminal, or out.
\* parens stays as it is.
SwitchInput ==
  /\ in_f' = IF in_f = "file" THEN "stdin" ELSE "exit"
  /\ in_offset' = 0 /\ typed' = <<>>

NeverClosesMore(text) == \A k \in DOMAIN text : Depth(SubSeq(text, 1, k)) >= 0

\* One turn of the loop. The last line of the input may lack its newline: then
\* feof holds after the line has been dealt with.
ReadLine(l, last) ==
  LET line == IF last THEN l ELSE Append(l, "\n")
      kept == BeforeComment(line)
      entered == typed \o BeforeComment(l) \o <<"\n">> IN
  /\ in_f # "exit" /\ count < MaxLines /\ count' = count + 1
  /\ line # <<>>
  /\ Nested => NeverClosesMore(entered) /\ (last => Depth(entered) = 0)
  /\ parens' = Parens(parens, kept)
  /\ in_buffer' = Copied(in_buffer, in_offset, kept)
  /\ IF parens' <= 0 /\ Len(line) > 1
     THEN evaluated' = in_buffer' /\ meant' = entered
     ELSE UNCHANGED <<evaluated, meant>>
  /\ IF last THEN SwitchInput
     ELSE /\ in_offset' = IF parens' > 0 THEN OffsetAfter(in_offset, Len(kept)) ELSE 0
          /\ typed' = IF parens' > 0 THEN entered ELSE <<>>
          /\ UNCHANGED in_f

\* fgets returns nothing.
EndOfInput ==
  /\ in_f # "exit"
  /\ Nested => typed = <<>>
  /\ SwitchInput
  /\ UNCHANGED <<in_buffer, parens, evaluated, meant, count>>

Next == EndOfInput \/ \E l \in Lines, last \in BOOLEAN : ReadLine(l, last)

Spec == Init /\ [][Next]_vars

-----------------------------------------------------------------------------
(* Properties *)

\* The buffer offset lies in the text gathered.
TypeOK ==
  /\ in_f \in {"file", "stdin", "exit"}
  /\ in_offset \in 0 .. Len(in_buffer)
  /\ parens \in Int

\* The tokens of a text: parentheses, and runs of other characters.
Tokens(text) ==
  LET step(a, c) ==
        LET ended == IF a.word = <<>> THEN a.toks ELSE Append(a.toks, a.word) IN
        CASE c \in {" ", "\n"} -> [toks |-> ended, word |-> <<>>]
          [] c \in {"(", ")"} -> [toks |-> Append(ended, <<c>>), word |-> <<>>]
          [] OTHER -> [toks |-> a.toks, word |-> Append(a.word, c)]
  IN FoldLeft(step, [toks |-> <<>>, word |-> <<>>], Append(text, " ")).toks

\* What is evaluated is what was entered: lines are joined without running
\* atoms of one into atoms of the next, nothing of an earlier input is left in
\* the buffer, and comments are gone.
EvaluatesWhatWasEntered == Tokens(evaluated) = Tokens(meant)

=============================================================================
