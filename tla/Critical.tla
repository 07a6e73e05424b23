------------------------------ MODULE Critical ------------------------------
(***************************************************************************)
(* EnterCritical and LeaveCritical of the Raspberry Pi port                *)
(* (devices/rpi2/uspi_glue.c), which the USB code calls from the program   *)
(* and from the interrupt handler.  Sections nest; s_nCriticalLevel counts *)
(* them and s_bWereEnabled remembers what the outermost one found.  Both   *)
(* variables are shared by the program and the handler, and the handler    *)
(* may run wherever the I bit of cpsr is clear: between the read of cpsr   *)
(* and cpsid too.                                                          *)
(***************************************************************************)
EXTENDS Naturals

CONSTANT
  MaxDepth   \* model bound: nested sections of one context

ASSUME DepthAssumption == MaxDepth \in Nat

Contexts == {"program", "handler"}

VARIABLES
  masked,            \* I bit of cpsr: interrupts are disabled
  s_nCriticalLevel,
  s_bWereEnabled,
  running,           \* the context the processor executes
  pc,                \* "out" of both functions, or a place in one of them
  depth,             \* sections a context is in
  nFlags,            \* EnterCritical's local: the I bit it read
  booted             \* interrupts were enabled at the start

shared == <<s_nCriticalLevel, s_bWereEnabled>>
vars == <<masked, shared, running, pc, depth, nFlags, booted>>

\* Interrupts may not be enabled yet (USPiInitialize).
Init ==
  /\ booted \in BOOLEAN
  /\ masked = ~booted
  /\ s_nCriticalLevel = 0 /\ s_bWereEnabled = FALSE
  /\ running = "program"
  /\ pc = [x \in Contexts |-> "out"]
  /\ depth = [x \in Contexts |-> 0]
  /\ nFlags = [x \in Contexts |-> FALSE]

\* The processor takes an interrupt: the handler starts with I set.
TakeInterrupt ==
  /\ running = "program" /\ ~masked
  /\ running' = "handler"
  /\ masked' = TRUE
  /\ UNCHANGED <<shared, pc, depth, nFlags, booted>>

\* The handler returns, and cpsr is as it was.
ReturnFromInterrupt ==
  /\ running = "handler"
  /\ pc["handler"] = "out" /\ depth["handler"] = 0
  /\ running' = "program"
  /\ masked' = FALSE
  /\ UNCHANGED <<shared, pc, depth, nFlags, booted>>

Goto(x, from, to) ==
  /\ running = x /\ pc[x] = from
  /\ pc' = [pc EXCEPT ![x] = to]

-----------------------------------------------------------------------------
(* EnterCritical *)

EnterFlags(x) ==
  /\ depth[x] < MaxDepth
  /\ Goto(x, "out", "disable")
  /\ nFlags' = [nFlags EXCEPT ![x] = masked]
  /\ UNCHANGED <<masked, shared, running, depth, booted>>

\* DisableInterrupts()
EnterDisable(x) ==
  /\ Goto(x, "disable", "count")
  /\ masked' = TRUE
  /\ UNCHANGED <<shared, running, depth, nFlags, booted>>

\* The level is counted; only the outermost section saves the flag.
SavedAlways(level, flag, were) == ~flag
Saved(level, flag, were) == IF level = 0 THEN ~flag ELSE were

CountedOnce(level) == 1
Counted(level) == level + 1

EnterCount(x) ==
  /\ Goto(x, "count", "out")
  /\ s_nCriticalLevel' = Counted(s_nCriticalLevel)
  /\ s_bWereEnabled' = Saved(s_nCriticalLevel, nFlags[x], s_bWereEnabled)
  /\ depth' = [depth EXCEPT ![x] = @ + 1]
  /\ UNCHANGED <<masked, running, nFlags, booted>>

-----------------------------------------------------------------------------
(* LeaveCritical *)

\* Where LeaveCritical goes with the new level.
OnAnyLevel(level) == "restore"
OnLevel(level) == IF level = 0 THEN "restore" ELSE "out"

LeaveCount(x) ==
  /\ depth[x] > 0
  /\ Goto(x, "out", OnLevel(s_nCriticalLevel - 1))
  /\ s_nCriticalLevel' = s_nCriticalLevel - 1
  /\ depth' = [depth EXCEPT ![x] = @ - 1]
  /\ UNCHANGED <<masked, s_bWereEnabled, running, nFlags, booted>>

\* EnableInterrupts() if they were
LeaveRestore(x) ==
  /\ Goto(x, "restore", "out")
  /\ masked' = IF s_bWereEnabled THEN FALSE ELSE masked
  /\ UNCHANGED <<shared, running, depth, nFlags, booted>>

Next ==
  \/ TakeInterrupt \/ ReturnFromInterrupt
  \/ \E x \in Contexts :
       \/ EnterFlags(x) \/ EnterDisable(x) \/ EnterCount(x)
       \/ LeaveCount(x) \/ LeaveRestore(x)

Spec == Init /\ [][Next]_vars

-----------------------------------------------------------------------------
(* Properties *)

\* The level never drops below zero, and no context nests too deep.
TypeOK ==
  /\ masked \in BOOLEAN /\ s_bWereEnabled \in BOOLEAN /\ booted \in BOOLEAN
  /\ s_nCriticalLevel \in Nat
  /\ running \in Contexts
  /\ pc \in [Contexts -> {"out", "disable", "count", "restore"}]
  /\ depth \in [Contexts -> 0 .. MaxDepth]
  /\ nFlags \in [Contexts -> BOOLEAN]

\* No interrupt is taken while the program is in a critical section.
SectionsNotInterrupted == depth["program"] > 0 => running = "program" /\ masked

\* A program that has left all its sections has its interrupts back, and one
\* that never had them does not get them: nesting, and sections entered by a
\* handler between the program's mrs and cpsid, do not upset s_bWereEnabled.
InterruptsComeBack ==
  running = "program" /\ pc["program"] = "out" /\ depth["program"] = 0
    => masked = ~booted

\* A handler runs with interrupts disabled to its end: a section it leaves
\* does not enable them.
HandlerStaysMasked == running = "handler" => masked
=============================================================================
