------------------------------ MODULE KeyQueue ------------------------------
(***************************************************************************)
(* What /keyboard promises a program on the Raspberry Pi: the keys come    *)
(* out one at a time in the order they were pressed.  At most Capacity of  *)
(* them wait; one more press and all that waited are forgotten.  A press   *)
(* that strikes inside a read or an open voids the promise, until the next *)
(* open.                                                                   *)
(***************************************************************************)
EXTENDS Naturals, Sequences

CONSTANTS
  Presses,   \* key presses, each one its own value
  NoKey,     \* what a read of an empty queue returns
  Capacity

VARIABLES
  queue,     \* keys waiting
  answer,    \* what the last read returned
  raced      \* the promise is void

vars == <<queue, answer, raced>>

Init == queue = <<>> /\ answer = NoKey /\ raced = FALSE

Press(k) ==
  /\ ~raced
  /\ queue' = IF Len(queue) < Capacity THEN Append(queue, k) ELSE <<>>
  /\ UNCHANGED <<answer, raced>>

Read ==
  /\ ~raced
  /\ \/ queue # <<>> /\ answer' = Head(queue) /\ queue' = Tail(queue)
     \/ queue = <<>> /\ answer' = NoKey /\ UNCHANGED queue
  /\ UNCHANGED raced

Open == queue' = <<>> /\ raced' = FALSE /\ UNCHANGED answer

\* A press inside a call: from now on reads may answer anything.
Race == raced' = TRUE

Next == (\E k \in Presses : Press(k)) \/ Read \/ Open \/ Race

Spec == Init /\ [][Next]_vars
=============================================================================
