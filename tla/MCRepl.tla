------------------------------ MODULE MCRepl ------------------------------
(***************************************************************************)
(* Lines for Repl.                                                         *)
(***************************************************************************)
EXTENDS Repl

Open == <<"(", "a">>
Inner == <<"b", " ", "(", "c", ")">>
Close == <<"d", ")">>
Whole == <<"(", "e", ")">>
Blank == <<>>
AtomAlone == <<"f">>
CommentAlone == <<";", "(">>
OpenComment == <<"(", "g", " ", ";", ")">>

\* Input whose lists are all closed; a comment stands after a space.
Spaced == {Open, Inner, Whole, Blank, AtomAlone, CommentAlone, OpenComment,
           <<"d", ")", ")", ")">>, <<"d", ")", ")">>, Close}
=============================================================================
