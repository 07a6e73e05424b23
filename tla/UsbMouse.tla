------------------------------ MODULE UsbMouse ------------------------------
(***************************************************************************)
(* The USB mouse of the Raspberry Pi port (devices/rpi2/usbmouse.c):       *)
(* uspi_mouse_handler, called from the USB interrupt, adds to mouse_dx and *)
(* mouse_dy; usbmouse_read reports the sums and then clears them, with     *)
(* interrupts enabled.  The three arguments of the allocations may be      *)
(* evaluated in any order.                                                 *)
(*                                                                         *)
(* Every movement is one step right or down, so that sums count them.      *)
(***************************************************************************)
EXTENDS Integers

CONSTANTS
  Buttons,     \* button states; one of them is initial
  NoButtons,
  MaxMoves     \* model bound: movements along an axis

ASSUME MouseAssumption ==
  /\ NoButtons \in Buttons
  /\ MaxMoves \in Nat

Axes == {"x", "y"}
Reads == Axes \cup {"buttons"}

VARIABLES
  mouse_d,       \* mouse_dx and mouse_dy
  mouse_buttons,
  pc,            \* "idle", "load" or "clear"
  todo,          \* what usbmouse_read has still to load or to clear
  report,        \* the numbers it has loaded
  moved,         \* all movement so far
  inside,        \* ghost: the part of it that came inside a read
  reported       \* all movement that reads have reported

vars == <<mouse_d, mouse_buttons, pc, todo, report, moved, inside,
          reported>>

None == [a \in Axes |-> 0]

Init ==
  /\ mouse_d = None /\ mouse_buttons = NoButtons
  /\ pc = "idle" /\ todo = {}
  /\ report = [d |-> None, buttons |-> NoButtons]
  /\ moved = None /\ inside = None /\ reported = None

\* mouse_dx += dx, mouse_dy += dy
Plain(old, dx) == dx
Plus(old, dx) == old + dx

\* uspi_mouse_handler
Handler(b, d) ==
  /\ \A a \in Axes : moved[a] + d[a] <= MaxMoves
  /\ mouse_d' = [a \in Axes |-> Plus(mouse_d[a], d[a])]
  /\ mouse_buttons' = b
  /\ moved' = [a \in Axes |-> moved[a] + d[a]]
  /\ inside' = IF pc = "idle" THEN inside ELSE [a \in Axes |-> inside[a] + d[a]]
  /\ UNCHANGED <<pc, todo, report, reported>>

ReadStart ==
  /\ pc = "idle"
  /\ pc' = "load" /\ todo' = Reads
  /\ UNCHANGED <<mouse_d, mouse_buttons, report, moved, inside, reported>>

\* alloc_int(mouse_dx), alloc_int(mouse_dy), alloc_int(mouse_buttons)
ReadLoad(r) ==
  /\ pc = "load" /\ r \in todo
  /\ report' = IF r = "buttons" THEN [report EXCEPT !.buttons = mouse_buttons]
                                ELSE [report EXCEPT !.d[r] = mouse_d[r]]
  /\ todo' = IF todo = {r} THEN Axes ELSE todo \ {r}
  /\ pc' = IF todo = {r} THEN "clear" ELSE "load"
  /\ UNCHANGED <<mouse_d, mouse_buttons, moved, inside, reported>>

\* mouse_dx = 0, mouse_dy = 0; then the report is returned.
Unclear(d, a) == d
Clear(d, a) == [d EXCEPT ![a] = 0]

ReadClear(a) ==
  /\ pc = "clear"
  /\ a = IF todo = Axes THEN "x" ELSE "y"
  /\ mouse_d' = Clear(mouse_d, a)
  /\ todo' = todo \ {a}
  /\ IF todo = {a}
     THEN /\ pc' = "idle"
          /\ reported' = [b \in Axes |-> reported[b] + report.d[b]]
     ELSE UNCHANGED <<pc, reported>>
  /\ UNCHANGED <<mouse_buttons, report, moved, inside>>

Next ==
  \/ \E b \in Buttons, d \in [Axes -> 0 .. 1] : Handler(b, d)
  \/ ReadStart
  \/ \E r \in Reads : ReadLoad(r)
  \/ \E a \in Axes : ReadClear(a)

Spec == Init /\ [][Next]_vars

-----------------------------------------------------------------------------
(* Properties *)

\* The counters stay in their bounds: no report overflows what was moved.
TypeOK ==
  /\ mouse_d \in [Axes -> 0 .. MaxMoves]
  /\ mouse_buttons \in Buttons
  /\ pc \in {"idle", "load", "clear"} /\ todo \subseteq Reads
  /\ report \in [d : [Axes -> 0 .. MaxMoves], buttons : Buttons]
  /\ moved \in [Axes -> 0 .. MaxMoves] /\ inside \in [Axes -> 0 .. MaxMoves]
  /\ reported \in [Axes -> 0 .. MaxMoves]

\* Wherever the interrupt strikes, no movement is reported twice: what reads
\* have returned and what waits for the next one is no more than what the
\* mouse has moved.  (Movement between the load and the clear is lost.)
NeverMoreThanMoved ==
  pc = "idle" => \A a \in Axes : reported[a] + mouse_d[a] <= moved[a]

\* What is lost is movement that came while a read was under way; movement
\* between reads is always reported.
LosesOnlyInside ==
  pc = "idle" =>
    \A a \in Axes : reported[a] + mouse_d[a] >= moved[a] - inside[a]
=============================================================================
