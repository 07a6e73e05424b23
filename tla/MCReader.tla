----------------------------- MODULE MCReader -----------------------------
(***************************************************************************)
(* Token sets for the reader.                                              *)
(***************************************************************************)
EXTENDS Reader

Mark(k, c) == [kind |-> k, text |-> <<c>>, tree |-> Nothing]
Brackets == {Mark("open", "("), Mark("close", ")"), Mark("space", " ")}
Word(s, v) == [kind |-> "word", text |-> s, tree |-> v]
Quoted(s, v) == [kind |-> "quoted", text |-> s, tree |-> v]

Comment == [kind |-> "comment", text |-> <<";", "(", "\n">>, tree |-> Nothing]

Symbol == Word(<<"a", "1", "-">>, [sym |-> <<"a", "1", "-">>])
Minus == Word(<<"-">>, [sym |-> <<"-">>])
Number == Word(<<"1", "2">>, [int |-> 12])
HexNumber == Word(<<"0", "x", "1", "a">>, [int |-> 26])
NegativeDigit == Word(<<"-", "2">>, [int |-> -2])
Negative == [kind |-> "negative", text |-> <<"-", "1", "2">>,
             tree |-> [int |-> -12]]
String == Quoted(<<"\"", "a", ")", " ", "1", "\"">>,
                 [str |-> <<"a", ")", " ", "1">>])
Empty == Quoted(<<"\"", "\"">>, [str |-> <<>>])
ByteString == Quoted(<<"[", "0", "1", " ", "f", "a", "]">>,
                     [bytes |-> <<1, 250>>])
OddBytes == Quoted(<<"[", "2", "3", "4", "]">>, [bytes |-> <<35>>])
Junk == [kind |-> "bad", text |-> <<"1", "a">>, tree |-> Nothing]
JunkByte == [kind |-> "bad", text |-> <<"[", "x">>, tree |-> Nothing]

MCTokens ==
  Brackets \cup {Comment, Symbol, Minus, Number, HexNumber, NegativeDigit,
                Negative, String, Empty, ByteString, OddBytes, Junk, JunkByte}
=============================================================================
