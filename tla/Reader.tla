------------------------------ MODULE Reader ------------------------------
(***************************************************************************)
(* The reader (sledge/reader.c): read_string feeds a text to read_char one *)
(* character at a time; read_char builds the cell tree as it goes, with    *)
(* the cells that hold the open lists on a stack.                          *)
(*                                                                         *)
(* The text is chosen token by token.  With every token comes the tree it  *)
(* denotes, and the ghost variables want and bad keep what the text read   *)
(* so far denotes.                                                         *)
(***************************************************************************)
EXTENDS Integers, Sequences, SequencesExt, FiniteSetsExt

CONSTANTS
  Tokens,      \* [kind, text, tree]; kinds: see NextToken
  MaxTokens,   \* bound on the length of the text
  MaxDepth,    \* slots of stack_root that are used
  InitSize     \* SYM_INIT_BUFFER_SIZE

ASSUME ReaderAssumption ==
  /\ MaxTokens \in Nat /\ MaxDepth \in Nat
  /\ InitSize \in Nat \ {0}

VARIABLES
  rs,      \* ReaderState, with the cells allocated so far and stack_root
  input,   \* characters of the token being read that are still to come
  count,   \* tokens chosen
  word,    \* the last token was a symbol or number: a delimiter must follow
  want,    \* ghost: the items of the top level and of every open list
  bad      \* ghost: the text has a syntax error

vars == <<rs, input, count, word, want, bad>>

-----------------------------------------------------------------------------
(* Cells *)

Null == 0
Nil == [tag |-> "cons", ar |-> Null, next |-> Null]
IntCell(n) == [tag |-> "int", value |-> n]
Buffer(t, d) == [tag |-> t, data |-> d, size |-> InitSize]

\* s with a new cell, whose number is then Len(s.cells)
Alloc(s, c) == [s EXCEPT !.cells = Append(@, c)]

\* The atom at the current cell: cell->ar.addr
Atom(s) == s.cells[s.cells[s.cell].ar]

\* cell->ar.addr = alloc c
SetCar(s, c) ==
  [Alloc(s, c) EXCEPT !.cells[s.cell].ar = Len(s.cells) + 1]

SetAtom(s, c) == [s EXCEPT !.cells[s.cells[s.cell].ar] = c]

\* cell->dr.next = alloc_nil
SetCdr(s) ==
  [Alloc(s, Nil) EXCEPT !.cells[s.cell].next = Len(s.cells) + 1]

-----------------------------------------------------------------------------
(* read_char *)

HexDigits ==
  <<"0", "1", "2", "3", "4", "5", "6", "7", "8", "9",
    "a", "b", "c", "d", "e", "f">>
Decimal == {HexDigits[k] : k \in 1 .. 10}
Hex == ToSet(HexDigits)
Digit(c) == (CHOOSE k \in 1 .. 16 : HexDigits[k] = c) - 1

Space == {" ", "\r", "\n"}

NextListCell(s) ==
  LET t == SetCdr(s) IN
  [t EXCEPT !.cell = Len(t.cells), !.state = "ATOM"]

EndListKeepsLevel(s) ==
  IF s.level < 1 THEN [s EXCEPT !.state = "ERR_CLOSING_BRACE"]
  ELSE NextListCell([s EXCEPT !.cell = s.stack[s.level - 1]])
EndList(s) ==
  IF s.level < 1 THEN [s EXCEPT !.state = "ERR_CLOSING_BRACE"]
  ELSE LET t == IF s.cells[s.cell].ar = Null THEN s ELSE SetCdr(s) IN
       NextListCell([t EXCEPT !.level = @ - 1, !.cell = t.stack[t.level - 1]])

StartList(s) ==
  LET t == SetCar(s, Nil) IN
  [t EXCEPT !.stack[s.level] = s.cell,
            !.cell = Len(t.cells),
            !.level = @ + 1]

\* The first character makes a root.
Rooted(s) ==
  IF s.cell # Null THEN s
  ELSE [s EXCEPT !.cells = <<[Nil EXCEPT !.next = 2], Nil>>,
                 !.cell = 1,
                 !.stack[0] = 1]

ReadAtom(s, c) ==
  CASE c \in Space -> s
    [] c = ";" -> [s EXCEPT !.state = "COMMENT"]
    [] c \in Decimal ->
         [SetCar(s, IntCell(Digit(c))) EXCEPT !.state = "NUM",
                                              !.valuestate = "DEFAULT"]
    [] c = "(" -> StartList(s)
    [] c = ")" -> EndList(s)
    [] c = "[" -> [SetCar(s, Buffer("bytes", <<>>)) EXCEPT !.state = "BYTES",
                                                          !.sym_len = 0]
    [] c = "\"" -> [SetCar(s, Buffer("str", <<>>)) EXCEPT !.state = "STR",
                                                         !.sym_len = 0]
    [] OTHER -> [SetCar(s, Buffer("sym", <<c>>)) EXCEPT !.state = "SYM",
                                                       !.sym_len = 1]

ReadComment(s, c) == IF c = "\n" THEN [s EXCEPT !.state = "ATOM"] ELSE s

ReadNum(s, c) ==
  LET hex == s.valuestate = "HEX"
      mul == IF hex THEN 16 ELSE 10
      sign == IF s.state = "NUM_NEG" THEN -1 ELSE 1 IN
  CASE c \in Decimal \/ (hex /\ c \in Hex) ->
         SetAtom(s, IntCell(Atom(s).value * mul + sign * Digit(c)))
    [] c \in Space -> NextListCell(s)
    [] c = ")" -> EndList(s)
    [] c = "x" -> [s EXCEPT !.valuestate = "HEX"]
    [] OTHER -> [s EXCEPT !.state = "ERR_JUNK_IN_NUMBER"]

\* cell_realloc: a buffer of twice the size, the old one copied.
Doubled(a) ==
  [a EXCEPT !.size = 2 * @, !.data = SubSeq(@, 1, Min({Len(@), a.size}))]

\* The buffer a before the character that makes len of them is stored.
GrownLate(a, len) == IF len > a.size + 1 THEN Doubled(a) ELSE a
Grown(a, len) == IF len >= a.size - 1 THEN Doubled(a) ELSE a

AppendChar(s, c) ==
  LET a == Grown(Atom(s), s.sym_len + 1) IN
  [SetAtom(s, [a EXCEPT !.data = Append(@, c)]) EXCEPT !.sym_len = @ + 1]

ReadStr(s, c) ==
  IF c = "\""
  THEN NextListCell(SetAtom(s, [Atom(s) EXCEPT !.size = s.sym_len]))
  ELSE AppendChar(s, c)

ReadSym(s, c) ==
  CASE c = ")" -> EndList(s)
    [] c \in Space -> NextListCell(s)
    [] c \in Decimal /\ Atom(s).data[1] = "-" ->
         [SetAtom(s, IntCell(-Digit(c))) EXCEPT !.state = "NUM_NEG"]
    [] OTHER -> AppendChar(s, c)

\* Two digits make a byte, the high nybble first.  (A to F read as a to f.)
ReadBytes(s, c) ==
  LET n == Digit(c)
      len == s.sym_len + 1
      grow == len >= Atom(s).size \div 2 - 1
      a == IF grow THEN Doubled(Atom(s)) ELSE Atom(s) IN
  CASE c = "]" ->
         NextListCell(SetAtom(s, [Atom(s) EXCEPT !.size = s.sym_len \div 2]))
    [] c \in Hex ->
         LET b == IF s.sym_len % 2 = 0
                  THEN [a EXCEPT !.data = Append(@, n * 16)]
                  ELSE [a EXCEPT !.data[len \div 2] = @ + n] IN
         [SetAtom(s, b) EXCEPT !.sym_len = len]
    [] c \in Space -> s
    [] OTHER -> [s EXCEPT !.state = "ERR_JUNK_IN_BYTES"]

ReadChar(old, c) ==
  LET s == Rooted(old) IN
  CASE s.state = "ATOM" -> ReadAtom(s, c)
    [] s.state = "COMMENT" -> ReadComment(s, c)
    [] s.state \in {"NUM", "NUM_NEG"} -> ReadNum(s, c)
    [] s.state = "STR" -> ReadStr(s, c)
    [] s.state = "SYM" -> ReadSym(s, c)
    [] s.state = "BYTES" -> ReadBytes(s, c)

Failed(s) == s.state \in
  {"ERR_CLOSING_BRACE", "ERR_JUNK_IN_NUMBER", "ERR_JUNK_IN_BYTES"}

-----------------------------------------------------------------------------
(* read_string.  valuestate and stack_root start uninitialized. *)

Init ==
  /\ \E v \in {"DEFAULT", "HEX"} :
       rs = [state |-> "ATOM", cell |-> Null, level |-> 0, sym_len |-> 0,
             valuestate |-> v, cells |-> <<>>,
             stack |-> [k \in 0 .. MaxDepth |-> Null]]
  /\ input = <<>> /\ count = 0 /\ word = FALSE
  /\ want = <<<<>>>> /\ bad = FALSE

\* One turn of the loop; it ends at the first error.
Read ==
  /\ input # <<>>
  /\ ~Failed(rs)
  /\ rs' = ReadChar(rs, Head(input))
  /\ input' = Tail(input)
  /\ UNCHANGED <<count, word, want, bad>>

-----------------------------------------------------------------------------
(* The text, and what it denotes *)

Nothing == [none |-> Null]
NilTree == [ar |-> Nothing, dr |-> Nothing]

\* The tree of a list with these items.
ListTree(items) ==
  FoldRight(LAMBDA x, rest : [ar |-> x, dr |-> rest], items, NilTree)

AddItem(w, tree) == [w EXCEPT ![Len(w)] = Append(@, tree)]

Denote(t) ==
  CASE t.kind = "open" ->
         /\ Len(want) <= MaxDepth
         /\ want' = Append(want, <<>>)
         /\ UNCHANGED bad
    [] t.kind = "close" /\ Len(want) > 1 ->
         /\ want' = AddItem(Front(want), ListTree(Last(want)))
         /\ UNCHANGED bad
    [] t.kind \in {"word", "negative", "quoted"} ->
         /\ want' = AddItem(want, t.tree)
         /\ UNCHANGED bad
    [] t.kind \in {"space", "comment"} -> UNCHANGED <<want, bad>>
    [] OTHER -> bad' = TRUE /\ UNCHANGED want

\* A "negative" number has several digits.  Its base is that of the number
\* before it, so the texts have one only where that base is known to be ten.
NextToken(t) ==
  /\ input = <<>> /\ ~bad
  /\ count < MaxTokens
  /\ word => t.kind \in {"space", "close"}
  /\ t.kind = "negative" => rs.valuestate = "DEFAULT"
  /\ Denote(t)
  /\ input' = t.text
  /\ count' = count + 1
  /\ word' = (t.kind \in {"word", "negative"})
  /\ UNCHANGED rs

Next == Read \/ \E t \in Tokens : NextToken(t)

Spec == Init /\ [][Next]_vars

-----------------------------------------------------------------------------
(* Properties *)

States ==
  {"ATOM", "COMMENT", "NUM", "NUM_NEG", "STR", "SYM", "BYTES",
   "ERR_CLOSING_BRACE", "ERR_JUNK_IN_NUMBER", "ERR_JUNK_IN_BYTES"}

\* The reader is in one of its states, and the cells it uses exist.
TypeOK ==
  /\ rs.state \in States
  /\ rs.valuestate \in {"DEFAULT", "HEX"}
  /\ rs.level \in 0 .. MaxDepth
  /\ rs.cell \in 0 .. Len(rs.cells)
  /\ \A k \in 0 .. MaxDepth : rs.stack[k] \in 0 .. Len(rs.cells)

\* The tree of every cell; a cell's parts are younger than it.
Trees ==
  LET tree[n \in 0 .. Len(rs.cells)] ==
        IF n = Null THEN Nothing
        ELSE LET c == rs.cells[n] IN
             CASE c.tag = "cons" -> [ar |-> tree[c.ar], dr |-> tree[c.next]]
               [] c.tag = "int" -> [int |-> c.value]
               [] c.tag = "sym" -> [sym |-> c.data]
               [] c.tag = "str" -> [str |-> SubSeq(c.data, 1, c.size)]
               [] c.tag = "bytes" -> [bytes |-> SubSeq(c.data, 1, c.size)]
  IN tree

Error == [error |-> "ERR_SYNTAX"]

\* What read_string returns when the text ends here.
ResultFirstRoot ==
  IF Failed(rs) \/ rs.level # 0 THEN Error ELSE Trees[rs.cells[1].ar]
Result ==
  IF Failed(rs) \/ rs.level # 0 THEN Error
  ELSE Trees[rs.cells[rs.stack[rs.level]].ar]

\* What the text denotes: its last list, or if it has none its first atom.
Denoted ==
  LET items == want[1]
      lists == {k \in DOMAIN items : "ar" \in DOMAIN items[k]} IN
  CASE bad \/ Len(want) > 1 -> Error
    [] OTHER -> IF items = <<>> THEN Nothing
                ELSE IF lists = {} THEN items[1] ELSE items[Max(lists)]

\* read_string returns the tree that the text denotes, for every text that
\* ends between two tokens, and ERR_SYNTAX exactly for those with an unclosed
\* list, a ) too many, or junk in a number or byte string.  It stops inside
\* a token only when the text has an error.
ReadsWhatIsWritten ==
  rs.cell # Null /\ (input = <<>> \/ Failed(rs)) => Result = Denoted

\* A buffer is enlarged before it overflows: every character of a symbol or
\* string and every byte lies in it, and a zero byte follows.
BuffersHold ==
  rs.state \in {"SYM", "STR", "BYTES"} => Len(Atom(rs).data) <= Atom(rs).size
=============================================================================
