---------------------------- MODULE MCGlobalEnv ----------------------------
(***************************************************************************)
(* GlobalEnv with two buckets: a, b and the long name collide in one.      *)
(***************************************************************************)
EXTENDS GlobalEnv

MCHash == [a |-> 2, b |-> 4, c |-> 3, long |-> 0]
MCNames == DOMAIN MCHash
MCLongNames == {"long"}
=============================================================================
