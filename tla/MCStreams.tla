----------------------------- MODULE MCStreams -----------------------------
(***************************************************************************)
(* Paths and data for Streams.  /sdx starts with /sd and is served by it.  *)
(***************************************************************************)
EXTENDS Streams

A == <<"/sd", "/", "a">>
B == <<"/sd", "/", "b">>
SdX == <<"/sd", "x">>
Elsewhere == <<"/tty">>

MCPaths == [fat |-> {A, B, Elsewhere}, posix |-> {A, B, SdX, Elsewhere}]
MCFileNames == {"a", "b"}
MCData == {<<"new">>}
MCOtherPoints == {<<"/tty">>, <<"/sd", "/", "b">>}
=============================================================================
