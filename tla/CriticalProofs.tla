--------------------------- MODULE CriticalProofs ---------------------------
(***************************************************************************)
(* Proofs about Critical, for every nesting depth.                         *)
(*                                                                         *)
(* The properties speak of the program at rest or of the handler; the      *)
(* inductive invariant adds what the local flag and s_bWereEnabled hold in *)
(* between.  The point of the argument: while a section of the program has *)
(* its flag in s_bWereEnabled no handler runs, so a handler that writes    *)
(* s_bWereEnabled only does so before the program saves its own.           *)
(***************************************************************************)
EXTENDS Critical, TLAPS

Inside(x) == depth[x] > 0 \/ pc[x] \in {"count", "restore"}

IInv ==
  /\ TypeOK
  /\ s_nCriticalLevel = depth["program"] + depth["handler"]
  /\ \A x \in Contexts :
       /\ pc[x] = "restore" => depth[x] = 0
       /\ pc[x] \in {"disable", "count"} => depth[x] < MaxDepth
  \* The program.
  /\ Inside("program") => running = "program" /\ masked
  /\ depth["program"] > 0 \/ pc["program"] = "restore"
       => s_bWereEnabled = booted
  /\ pc["program"] \in {"disable", "count"} /\ depth["program"] = 0
       => nFlags["program"] = ~booted
  /\ running = "program" /\ ~Inside("program") => masked = ~booted
  \* The handler.
  /\ running = "program" => pc["handler"] = "out" /\ depth["handler"] = 0
  /\ running = "handler" => masked /\ booted
  /\ pc["handler"] \in {"disable", "count"} => nFlags["handler"]
  /\ Inside("handler") /\ pc["handler"] # "count" => ~s_bWereEnabled
  /\ depth["handler"] > 0 => ~s_bWereEnabled

\* The invariant holds at the start, interrupts enabled or not.
LEMMA InitInv == Init => IInv
<1> SUFFICES ASSUME Init PROVE IInv
  OBVIOUS
<1>1. TypeOK
  <2>1. masked \in BOOLEAN /\ s_bWereEnabled \in BOOLEAN /\ booted \in BOOLEAN
    BY Zenon DEF Init
  <2>2. nFlags \in [Contexts -> BOOLEAN]
    BY DEF Init
  <2>3. depth \in [Contexts -> 0 .. MaxDepth]
    BY DepthAssumption DEF Init
  <2> QED
    BY <2>1, <2>2, <2>3 DEF Init, TypeOK, Contexts
<1>2. /\ \A x \in Contexts : ~Inside(x) /\ depth[x] = 0 /\ pc[x] = "out"
      /\ s_nCriticalLevel = 0
  BY DEF Init, Contexts, Inside
<1> QED
  BY <1>1, <1>2 DEF Init, IInv, Contexts

\* An interrupt is only taken where the program is outside, and returns there.
LEMMA InterruptInv ==
  ASSUME IInv, TakeInterrupt \/ ReturnFromInterrupt
  PROVE  IInv'
<1>1. CASE TakeInterrupt
  BY <1>1, DepthAssumption
  DEF TakeInterrupt, IInv, TypeOK, Contexts, Inside, shared
<1>2. CASE ReturnFromInterrupt
  BY Zenon, <1>2, DepthAssumption
  DEF ReturnFromInterrupt, IInv, TypeOK, Contexts, Inside, shared
<1> QED
  BY <1>1, <1>2

\* EnterCritical keeps the invariant, step by step, in either context.
LEMMA EnterInv ==
  ASSUME IInv, NEW x \in Contexts, EnterFlags(x) \/ EnterDisable(x) \/ EnterCount(x)
  PROVE  IInv'
<1> USE DepthAssumption DEF Contexts, Inside, shared, Goto
<1>1. CASE EnterFlags(x)
  BY <1>1 DEF EnterFlags, IInv, TypeOK
<1>2. CASE EnterDisable(x)
  BY Zenon, <1>2 DEF EnterDisable, IInv, TypeOK
<1>3. CASE EnterCount(x)
  <2>1. /\ TypeOK
        /\ running = x /\ pc[x] = "count" /\ depth[x] < MaxDepth
        /\ s_nCriticalLevel = depth["program"] + depth["handler"]
        /\ depth["program"] \in Nat /\ depth["handler"] \in Nat
    BY <1>3 DEF EnterCount, IInv, TypeOK
  <2>2. /\ pc' = [pc EXCEPT ![x] = "out"]
        /\ depth' = [depth EXCEPT ![x] = depth[x] + 1]
        /\ s_nCriticalLevel' = s_nCriticalLevel + 1
        /\ UNCHANGED <<masked, running, nFlags, booted>>
    BY <1>3 DEF EnterCount, Counted
  <2>3. /\ s_bWereEnabled' \in BOOLEAN
        /\ s_nCriticalLevel = 0 => s_bWereEnabled' = ~nFlags[x]
        /\ s_nCriticalLevel # 0 => s_bWereEnabled' = s_bWereEnabled
    BY Zenon, <1>3, <2>1 DEF EnterCount, Saved, TypeOK
  <2>4. TypeOK'
    BY <2>1, <2>2, <2>3 DEF TypeOK
  <2>5. CASE x = "program"
    <3>1. /\ depth["handler"] = 0 /\ pc["handler"] = "out" /\ masked
          /\ depth["program"] = 0 => nFlags["program"] = ~booted
          /\ depth["program"] > 0 => s_bWereEnabled = booted
      BY <2>1, <2>5 DEF IInv
    <3>2. s_bWereEnabled' = booted
      BY <2>1, <2>3, <2>5, <3>1 DEF TypeOK
    <3>3. /\ pc'["program"] = "out" /\ pc'["handler"] = "out"
          /\ depth'["program"] = depth["program"] + 1 /\ depth'["handler"] = 0
      BY <2>1, <2>2, <2>5, <3>1 DEF TypeOK
    <3>4. UNCHANGED <<masked, running, nFlags, booted>>
      BY <2>2
    <3>5. s_nCriticalLevel' = depth'["program"] + depth'["handler"]
      BY <2>1, <2>2, <3>1, <3>3
    <3>6. \A y \in Contexts :
            /\ pc'[y] = "restore" => depth'[y] = 0
            /\ pc'[y] \in {"disable", "count"} => depth'[y] < MaxDepth
      BY <2>1, <2>5, <3>1, <3>3 DEF IInv
    <3>7. Inside("program")' /\ ~Inside("handler")'
      BY <2>1, <3>3
    <3>8. s_bWereEnabled' = booted'
      BY <3>2, <3>4
    <3>9. running' = "program" /\ masked'
      BY <2>1, <2>5, <3>1, <3>4
    <3>10. ~(depth'["handler"] > 0) /\ depth'["program"] # 0
      BY <2>1, <3>3
    <3> HIDE DEF Inside
    <3> QED
      BY <2>4, <3>3, <3>5, <3>6, <3>7, <3>8, <3>9, <3>10, Zenon DEF IInv
  <2>6. CASE x = "handler"
    <3>1. /\ depth["program"] = 0 /\ pc["program"] \notin {"count", "restore"}
          /\ masked /\ booted /\ nFlags["handler"]
          /\ depth["handler"] > 0 => ~s_bWereEnabled
      BY <2>1, <2>6 DEF IInv, TypeOK
    <3>2. ~s_bWereEnabled'
      BY <2>1, <2>3, <2>6, <3>1 DEF TypeOK
    <3>3. /\ pc'["handler"] = "out" /\ pc'["program"] = pc["program"]
          /\ depth'["handler"] = depth["handler"] + 1 /\ depth'["program"] = 0
      BY <2>1, <2>2, <2>6, <3>1 DEF TypeOK
    <3>4. UNCHANGED <<masked, running, nFlags, booted>>
      BY <2>2
    <3>5. s_nCriticalLevel' = depth'["program"] + depth'["handler"]
      BY <2>1, <2>2, <3>1, <3>3
    <3>6. \A y \in Contexts :
            /\ pc'[y] = "restore" => depth'[y] = 0
            /\ pc'[y] \in {"disable", "count"} => depth'[y] < MaxDepth
      BY <2>1, <2>6, <3>1, <3>3 DEF IInv
    <3> QED
      BY Zenon, <2>1, <2>4, <2>6, <3>1, <3>2, <3>3, <3>4, <3>5, <3>6 DEF IInv
  <2> QED
    BY <2>5, <2>6
<1> QED
  BY <1>1, <1>2, <1>3

\* So does LeaveCritical.
LEMMA LeaveInv ==
  ASSUME IInv, NEW x \in Contexts, LeaveCount(x) \/ LeaveRestore(x)
  PROVE  IInv'
<1> USE DepthAssumption DEF Contexts, Inside, shared, Goto
<1>1. CASE LeaveCount(x)
  BY <1>1 DEF LeaveCount, OnLevel, IInv, TypeOK
<1>2. CASE LeaveRestore(x)
  BY Zenon, <1>2 DEF LeaveRestore, IInv, TypeOK
<1> QED
  BY <1>1, <1>2

\* IInv is an inductive invariant of EnterCritical and LeaveCritical.
THEOREM Inductive == Spec => []IInv
<1>1. IInv /\ [Next]_vars => IInv'
  <2> SUFFICES ASSUME IInv, [Next]_vars PROVE IInv'
    OBVIOUS
  <2>1. CASE Next
    BY <2>1, InterruptInv, EnterInv, LeaveInv DEF Next
  <2>2. CASE UNCHANGED vars
    BY <2>2 DEF vars, shared, IInv, TypeOK, Inside
  <2> QED
    BY <2>1, <2>2
<1> QED
  BY InitInv, <1>1, PTL DEF Spec

\* No interrupt is taken while the program is in a critical section, however
\* deeply it nests them.
THEOREM Exclusion == Spec => []SectionsNotInterrupted
<1>1. IInv => SectionsNotInterrupted
  BY DEF IInv, SectionsNotInterrupted, Inside
<1> QED
  BY <1>1, Inductive, PTL

\* The program gets back the interrupts it had, and only those, whatever
\* sections the handler enters in between.
THEOREM Restored == Spec => []InterruptsComeBack
<1>1. IInv => InterruptsComeBack
  BY DEF IInv, InterruptsComeBack, Inside, TypeOK, Contexts
<1> QED
  BY <1>1, Inductive, PTL

\* No section that a handler leaves enables interrupts.
THEOREM HandlerMasked == Spec => []HandlerStaysMasked
<1>1. IInv => HandlerStaysMasked
  BY DEF IInv, HandlerStaysMasked
<1> QED
  BY <1>1, Inductive, PTL

=============================================================================
