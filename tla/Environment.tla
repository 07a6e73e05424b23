---------------------------- MODULE Environment ----------------------------
(***************************************************************************)
(* What the global environment promises: def binds a name to a cell, and   *)
(* a name has the cell it was last bound to.  A name that is too long is   *)
(* never bound.  Compiled code that refers to a name sees later defs.      *)
(***************************************************************************)
EXTENDS Naturals

CONSTANTS Names, LongNames, Values, Undefined

VARIABLES
  bound,   \* the cell of every name
  last     \* the last operation: <<"def" or "refer", name, cell>>

vars == <<bound, last>>

Init ==
  /\ bound = [n \in Names |-> Undefined]
  /\ last = <<>>

Def(n, v) ==
  /\ bound' = IF n \in LongNames THEN bound ELSE [bound EXCEPT ![n] = v]
  /\ last' = <<"def", n, v>>

Refer(n) ==
  /\ bound[n] # Undefined
  /\ last' = <<"refer", n, bound[n]>>
  /\ UNCHANGED bound

Next ==
  \E n \in Names : Refer(n) \/ \E v \in Values : Def(n, v)

Spec == Init /\ [][Next]_vars
=============================================================================
