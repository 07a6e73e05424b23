--------------------------- MODULE CellHeapProofs ---------------------------
(***************************************************************************)
(* Machine-checked proofs about CellHeap, for every heap size and every    *)
(* set of symbols: the collector's steps, and the theorems.                *)
(***************************************************************************)
EXTENDS CellHeapMutatorProofs

-----------------------------------------------------------------------------
(* Steps of collect_garbage *)

\* What is live depends on the graph, the roots and the temporaries only.
LEMMA LiveSame ==
  ASSUME UNCHANGED <<kids, env, fs_list, held>>
  PROVE  Live' = Live /\ RootSet' = RootSet
BY DEF Live, RootSet, Reach, Closed, Children

\* Entering collect_garbage.
LEMMA StartGcInv ==
  ASSUME HeapAssumption, Disciplined, IInv, StartGc
  PROVE  IInv'
<1>1. /\ pc = "run" /\ pc' = "mark" /\ roots' = RootSet
      /\ held = {} /\ RunInv
      /\ UNCHANGED <<tag, kids, cells_used, free_list, free_list_consumed, env,
                     fs_list, held, code, marked, calls, swept>>
  BY DEF StartGc, Disciplined, IInv, GcRoots, RootSet, heapVars, rootVars
<1>2. Live' = Live /\ RootSet' = RootSet
  BY <1>1, LiveSame
<1>3. TypeOK /\ FreeListSound /\ LiveNeverFree /\ code = {}
  BY DEF IInv
<1>4. RootSet \subseteq Live /\ Live \subseteq Cells
  BY <1>3, LiveFacts
<1>5. TypeOK'
  BY <1>1, <1>3, <1>4 DEF TypeOK
<1>6. FreeListSound' /\ LiveNeverFree'
  BY <1>1, <1>2, <1>3 DEF FreeListSound, FreeCells, LiveNeverFree
<1>7. MarkInv'
  <2>1. marked' = {} /\ calls' = <<>> /\ Len(calls') = 0
    BY <1>1 DEF RunInv
  <2>2. QED
    BY <1>1, <1>2, <1>4, <2>1 DEF MarkInv, Closed
<1>8. QED
  BY <1>1, <1>3, <1>5, <1>6, <1>7 DEF IInv

\* A step of the mark phase leaves the heap and the roots alone.
LEMMA MarkFrame ==
  ASSUME IInv, UNCHANGED <<heapVars, rootVars>>
  PROVE  /\ FreeListSound' /\ LiveNeverFree' /\ code' = {}
         /\ Live' = Live /\ RootSet' = RootSet /\ kids' = kids
         /\ Live \subseteq Cells /\ Closed(kids, Live)
<1>1. /\ FreeListSound /\ LiveNeverFree /\ code = {} /\ TypeOK
      /\ UNCHANGED <<tag, kids, cells_used, free_list, free_list_consumed, env,
                     fs_list, held, code>>
  BY DEF IInv, heapVars, rootVars
<1>2. Live' = Live /\ RootSet' = RootSet
  BY <1>1, LiveSame
<1>3. QED
  BY <1>1, <1>2, LiveFacts DEF FreeListSound, FreeCells, LiveNeverFree

\* Handing a root to mark_tree.
LEMMA MarkRootInv ==
  ASSUME HeapAssumption, IInv, NEW r \in roots, MarkRoot(r)
  PROVE  IInv'
<1>1. /\ pc = "mark" /\ pc' = pc /\ calls = <<>>
      /\ roots' = roots \ {r}
      /\ calls' = IF r \in marked THEN <<>> ELSE <<Entered(r)>>
      /\ UNCHANGED <<heapVars, rootVars, marked, swept>>
  BY DEF MarkRoot
<1>2. TypeOK /\ MarkInv /\ held = {}
  BY <1>1 DEF IInv
<1>3. /\ FreeListSound' /\ LiveNeverFree' /\ code' = {}
      /\ Live' = Live /\ RootSet' = RootSet /\ kids' = kids
  BY <1>1, MarkFrame
<1>4. TypeOK'
  <2> DEFINE Call == [cell : Cells, next : Nat \ {0}]
  <2>1. Entered(r) \in Call
    BY <1>2 DEF TypeOK, Entered
  <2> HIDE DEF Call
  <2>2. calls' \in Seq(Call)
    BY <1>1, <2>1
  <2>3. QED
    BY <1>1, <1>2, <2>2 DEF TypeOK, heapVars, rootVars, Call
<1>5. MarkInv'
  <2>1. CASE r \in marked
    <3>1. calls' = <<>> /\ Len(calls') = 0
      BY SMTT(20), <1>1, <2>1
    <3>2. QED
      BY <1>1, <1>2, <1>3, <2>1, <3>1 DEF MarkInv
  <2>2. CASE r \notin marked
    <3>1. /\ Len(calls') = 1 /\ calls' # <<>>
          /\ calls'[1].cell = r /\ calls'[1].next = 1
      BY <1>1, <2>2 DEF Entered
    <3>2. r \in Live
      BY <1>2 DEF MarkInv
    <3>3. \A k \in 1 .. Len(calls') : k = 1
      BY <3>1
    <3>4. 1 .. calls'[1].next - 1 = {}
      BY <3>1
    <3>5. QED
      BY <1>1, <1>2, <1>3, <3>1, <3>2, <3>3, <3>4 DEF MarkInv
  <2>3. QED
    BY <2>1, <2>2
<1>6. QED
  BY <1>1, <1>2, <1>3, <1>4, <1>5 DEF IInv, rootVars

\* The innermost call is at a live cell, all of whose pointers it follows.
LEMMA TopFacts ==
  ASSUME IInv, pc = "mark", calls # <<>>
  PROVE  /\ Len(calls) \in Nat /\ Len(calls) >= 1 /\ Len(calls) \in 1 .. Len(calls)
         /\ Top.cell \in Live /\ Top.cell \in Cells
         /\ Top.next \in Nat /\ Top.next >= 1
         /\ Followed(Top.cell) = kids[Top.cell]
         /\ kids[Top.cell] \in Seq(Ptr)
         /\ \A i \in 1 .. Top.next - 1 : i \in DOMAIN kids[Top.cell] =>
              kids[Top.cell][i] \in marked \cup {NULL}
<1>1. TypeOK /\ MarkInv /\ LiveNeverFree
  BY DEF IInv
<1>2. Len(calls) \in Nat /\ Len(calls) >= 1 /\ Len(calls) \in 1 .. Len(calls)
  BY <1>1 DEF TypeOK
<1>3. calls[Len(calls)] \in [cell : Cells, next : Nat \ {0}]
  <2> DEFINE Call == [cell : Cells, next : Nat \ {0}]
  <2>1. calls \in Seq(Call)
    BY <1>1 DEF TypeOK
  <2> HIDE DEF Call
  <2>2. calls[Len(calls)] \in Call
    BY <1>2, <2>1
  <2>3. QED
    BY <2>2 DEF Call
<1>4. Top.cell \in Live
  BY <1>1, <1>2 DEF MarkInv, Top
<1>5. Followed(Top.cell) = kids[Top.cell]
  BY <1>1, <1>4 DEF Followed, LiveNeverFree
<1>6. \A i \in 1 .. Top.next - 1 : i \in DOMAIN kids[Top.cell] =>
        kids[Top.cell][i] \in marked \cup {NULL}
  BY <1>1, <1>2 DEF MarkInv, Top
<1>7. QED
  BY <1>1, <1>2, <1>3, <1>4, <1>5, <1>6 DEF TypeOK, Top

\* Moving on to the next pointer keeps every call at its cell.
LEMMA NextPointerFacts ==
  ASSUME TypeOK, calls # <<>>
  PROVE  /\ NextPointer \in Seq([cell : Cells, next : Nat \ {0}])
         /\ Len(NextPointer) = Len(calls)
         /\ \A k \in 1 .. Len(calls) : k # Len(calls) => NextPointer[k] = calls[k]
         /\ NextPointer[Len(calls)].cell = Top.cell
         /\ NextPointer[Len(calls)].next = Top.next + 1
<1> DEFINE Call == [cell : Cells, next : Nat \ {0}]
           top  == [Top EXCEPT !.next = @ + 1]
<1>1. calls \in Seq(Call) /\ Len(calls) \in 1 .. Len(calls)
  BY DEF TypeOK
<1>2. Top \in Call
  <2> HIDE DEF Call
  <2> QED
    BY <1>1 DEF Top
<1>3. top \in Call /\ top.cell = Top.cell /\ top.next = Top.next + 1
  BY <1>2
<1>4. NextPointer = [calls EXCEPT ![Len(calls)] = top]
  BY DEF NextPointer, Top
<1> HIDE DEF Call, top
<1>5. NextPointer \in Seq(Call) /\ Len(NextPointer) = Len(calls)
  BY <1>1, <1>3, <1>4, ExceptSeq
<1>6. /\ \A k \in 1 .. Len(calls) : k # Len(calls) => NextPointer[k] = calls[k]
      /\ NextPointer[Len(calls)] = top
  BY SMTT(20), <1>1, <1>4
<1>7. QED
  BY <1>3, <1>5, <1>6 DEF Call

\* What MarkInv says of the k-th of the calls cs, with the set M marked.
CallOK(cs, M, k) ==
  /\ cs[k].cell \in Live
  /\ \A i \in 1 .. cs[k].next - 1 :
       i \in DOMAIN kids[cs[k].cell] =>
         \/ kids[cs[k].cell][i] \in M \cup {NULL}
         \/ /\ k < Len(cs)
            /\ i = cs[k].next - 1
            /\ kids[cs[k].cell][i] = cs[k + 1].cell

\* A mark_tree call at one of its pointers: what it has looked at is marked,
\* null, or the cell of the call it makes.
LEMMA MarkKidInv ==
  ASSUME HeapAssumption, IInv, MarkKid
  PROVE  IInv'
<1> DEFINE n   == Len(calls)
           kid == kids[Top.cell][Top.next]
<1>1. /\ pc = "mark" /\ calls # <<>>
      /\ UNCHANGED <<heapVars, rootVars, marked, roots, swept>>
  BY DEF MarkKid
<1>2. TypeOK /\ MarkInv /\ held = {}
  BY <1>1 DEF IInv
<1>3. /\ FreeListSound' /\ LiveNeverFree' /\ code' = {}
      /\ Live' = Live /\ RootSet' = RootSet /\ kids' = kids
      /\ Live \subseteq Cells /\ Closed(kids, Live)
  BY <1>1, MarkFrame
<1>4. /\ n \in Nat /\ n >= 1
      /\ Top.cell \in Live /\ Top.cell \in Cells
      /\ Top.next \in Nat /\ Top.next >= 1
      /\ Followed(Top.cell) = kids[Top.cell]
      /\ kids[Top.cell] \in Seq(Ptr)
      /\ \A i \in 1 .. Top.next - 1 : i \in DOMAIN kids[Top.cell] =>
           kids[Top.cell][i] \in marked \cup {NULL}
  BY <1>1, TopFacts
<1>5. Top.next <= Len(kids[Top.cell]) /\ Top.next \in DOMAIN kids[Top.cell]
  BY <1>4 DEF MarkKid
<1>6. /\ NextPointer \in Seq([cell : Cells, next : Nat \ {0}])
      /\ Len(NextPointer) = n
      /\ \A k \in 1 .. n : k # n => NextPointer[k] = calls[k]
      /\ NextPointer[n].cell = Top.cell
      /\ NextPointer[n].next = Top.next + 1
  BY <1>1, <1>2, NextPointerFacts
<1>7. ASSUME NEW k \in 1 .. n PROVE CallOK(calls, marked, k)
  BY <1>2, <1>7 DEF MarkInv, CallOK
<1>8. ASSUME pc' = "mark", TypeOK', NEW cs, calls' = cs, cs # <<>>,
             cs[1].cell = calls[1].cell,
             \A k \in 1 .. Len(cs) : CallOK(cs, marked, k)
      PROVE  IInv'
  <2>1. MarkInv'
    BY <1>1, <1>2, <1>3, <1>8 DEF MarkInv, CallOK
  <2>2. QED
    BY SMTT(20), <1>1, <1>2, <1>3, <1>8, <2>1 DEF IInv, rootVars
<1>9. CASE /\ kid = NULL \/ kid \in marked
           /\ calls' = NextPointer /\ pc' = pc
  <2>1. TypeOK'
    BY Zenon, <1>1, <1>2, <1>6, <1>9 DEF TypeOK, heapVars, rootVars
  <2>2. ASSUME NEW k \in 1 .. n PROVE CallOK(NextPointer, marked, k)
    <3>1. CASE k = n
      <4>1. \A i \in 1 .. Top.next : i \in 1 .. Top.next - 1 \/ i = Top.next
        BY <1>4
      <4>2. QED
        BY SMTT(20), <1>4, <1>6, <1>9, <3>1, <4>1 DEF CallOK
    <3>2. CASE k # n
      <4>1. k + 1 \in 1 .. n /\ NextPointer[k] = calls[k]
        BY <1>4, <1>6, <3>2
      <4>2. NextPointer[k + 1].cell = calls[k + 1].cell
        BY <1>6, <4>1 DEF Top
      <4>3. QED
        BY Zenon, <1>6, <1>7, <4>1, <4>2 DEF CallOK
    <3>3. QED
      BY <3>1, <3>2
  <2>3. NextPointer # <<>> /\ NextPointer[1].cell = calls[1].cell
    BY <1>4, <1>6 DEF Top
  <2>4. QED
    BY <1>1, <1>6, <1>8, <1>9, <2>1, <2>2, <2>3
<1>10. CASE /\ kid # NULL /\ kid \notin marked
            /\ calls' = Append(NextPointer, Entered(kid)) /\ pc' = pc
  <2> DEFINE cs == Append(NextPointer, Entered(kid))
             Call == [cell : Cells, next : Nat \ {0}]
  <2>1. kid \in Live /\ kid \in Cells
    BY <1>3, <1>4, <1>5, <1>10 DEF Closed, Children
  <2>2. /\ Entered(kid) \in Call
        /\ Entered(kid).cell = kid /\ Entered(kid).next = 1
    BY <2>1 DEF Entered
  <2>3. NextPointer \in Seq(Call)
    BY SMTT(20), <1>6
  <2> HIDE DEF Call
  <2>4. /\ cs \in Seq(Call) /\ Len(cs) = n + 1 /\ cs # <<>>
        /\ \A k \in 1 .. n : cs[k] = NextPointer[k]
        /\ cs[n + 1] = Entered(kid)
    BY SMTT(20), <1>6, <2>2, <2>3, AppendProperties
  <2>5. TypeOK'
    BY SMTT(20), <1>1, <1>2, <1>10, <2>4 DEF TypeOK, heapVars, rootVars, Call
  <2> HIDE DEF cs
  <2>6. ASSUME NEW k \in 1 .. n + 1 PROVE CallOK(cs, marked, k)
    <3>1. CASE k = n + 1
      BY <1>4, <2>1, <2>2, <2>4, <3>1 DEF CallOK
    <3>2. CASE k = n
      <4>1. \A i \in 1 .. Top.next : i \in 1 .. Top.next - 1 \/ i = Top.next
        BY SMTT(20), <1>4
      <4>2. cs[k].cell = Top.cell /\ cs[k].next = Top.next + 1 /\ cs[k + 1].cell = kid
        BY SMTT(20), <1>4, <1>6, <2>2, <2>4, <3>2
      <4>3. k < Len(cs) /\ Top.next = cs[k].next - 1
        BY <1>4, <2>4, <3>2, <4>2
      <4>4. QED
        BY <1>4, <4>1, <4>2, <4>3 DEF CallOK
    <3>3. CASE k # n /\ k # n + 1
      <4>1. k \in 1 .. n /\ k + 1 \in 1 .. n
        BY <1>4, <3>3
      <4>2. cs[k] = calls[k] /\ cs[k + 1].cell = calls[k + 1].cell
        BY SMTT(20), <1>6, <2>4, <3>3, <4>1 DEF Top
      <4>3. k < Len(cs) /\ CallOK(calls, marked, k)
        BY SMTT(20), <1>4, <1>7, <2>4, <4>1
      <4>4. QED
        BY <4>2, <4>3 DEF CallOK
    <3>4. QED
      BY <3>1, <3>2, <3>3
  <2>7. cs[1].cell = calls[1].cell
    BY SMTT(20), <1>4, <1>6, <2>4 DEF Top
  <2>8. calls' = cs /\ pc' = "mark"
    BY <1>1, <1>10 DEF cs
  <2>9. QED
    BY <1>8, <2>4, <2>5, <2>6, <2>7, <2>8
<1>11. CASE pc' = "crash" /\ calls' = calls
  <2>1. TypeOK'
    BY <1>1, <1>2, <1>11 DEF TypeOK, heapVars, rootVars
  <2>2. QED
    BY <1>3, <1>11, <2>1 DEF IInv
<1>12. QED
  BY <1>4, <1>9, <1>10, <1>11 DEF MarkKid

\* Marking a cell after its pointers keeps the marked cells closed.
LEMMA MarkSelfInv ==
  ASSUME HeapAssumption, IInv, MarkSelf
  PROVE  IInv'
<1> DEFINE n == Len(calls)
<1>1. /\ pc = "mark" /\ pc' = pc /\ calls # <<>>
      /\ marked' = marked \cup {Top.cell}
      /\ calls' = SubSeq(calls, 1, n - 1)
      /\ UNCHANGED <<heapVars, rootVars, roots, swept>>
  BY DEF MarkSelf
<1>2. TypeOK /\ MarkInv /\ held = {}
  BY <1>1 DEF IInv
<1>3. /\ FreeListSound' /\ LiveNeverFree' /\ code' = {}
      /\ Live' = Live /\ RootSet' = RootSet /\ kids' = kids
      /\ Live \subseteq Cells /\ Closed(kids, Live)
  BY <1>1, MarkFrame
<1>4. /\ n \in Nat /\ n >= 1
      /\ Top.cell \in Live /\ Top.cell \in Cells
      /\ Top.next \in Nat /\ Top.next >= 1
      /\ Followed(Top.cell) = kids[Top.cell]
      /\ kids[Top.cell] \in Seq(Ptr)
      /\ \A i \in 1 .. Top.next - 1 : i \in DOMAIN kids[Top.cell] =>
           kids[Top.cell][i] \in marked \cup {NULL}
  BY <1>1, TopFacts
<1>5. Top.next > Len(kids[Top.cell])
  BY <1>4 DEF MarkSelf
<1>6. \A i \in DOMAIN kids[Top.cell] : kids[Top.cell][i] \in marked \cup {NULL}
  <2>1. DOMAIN kids[Top.cell] = 1 .. Len(kids[Top.cell])
    BY <1>4
  <2>2. DOMAIN kids[Top.cell] \subseteq 1 .. Top.next - 1
    BY <1>4, <1>5, <2>1
  <2>3. QED
    BY <1>4, <2>2
<1>7. Closed(kids, marked')
  <2>1. Children(kids, Top.cell) \subseteq marked
    BY <1>6 DEF Children
  <2>2. \A c \in marked : Children(kids, c) \subseteq marked
    BY <1>2 DEF MarkInv, Closed
  <2>3. QED
    BY <1>1, <2>1, <2>2 DEF Closed
<1>8. /\ calls' \in Seq([cell : Cells, next : Nat \ {0}])
      /\ Len(calls') = n - 1
      /\ \A k \in 1 .. n - 1 : calls'[k] = calls[k]
  <2> DEFINE Call == [cell : Cells, next : Nat \ {0}]
  <2>1. calls \in Seq(Call)
    BY <1>2 DEF TypeOK
  <2> HIDE DEF Call
  <2>2. /\ SubSeq(calls, 1, n - 1) \in Seq(Call)
        /\ Len(SubSeq(calls, 1, n - 1)) = n - 1
        /\ \A k \in 1 .. n - 1 : SubSeq(calls, 1, n - 1)[k] = calls[k]
    <3>1. 1 \in 1 .. n + 1 /\ n - 1 \in 1 - 1 .. n /\ n - 1 - 1 + 1 = n - 1
      BY <1>4
    <3>2. /\ SubSeq(calls, 1, n - 1) \in Seq(Call)
          /\ Len(SubSeq(calls, 1, n - 1)) = n - 1 - 1 + 1
          /\ \A k \in 1 .. n - 1 - 1 + 1 :
               SubSeq(calls, 1, n - 1)[k] = calls[1 + k - 1]
      BY <2>1, <3>1, SubSeqProperties
    <3>3. QED
      BY <1>4, <3>1, <3>2
  <2>3. QED
    BY <1>1, <2>2 DEF Call
<1>9. TypeOK'
  BY SMTT(20), <1>1, <1>2, <1>4, <1>8 DEF TypeOK, heapVars, rootVars
<1>10. ASSUME NEW k \in 1 .. n - 1 PROVE CallOK(calls', marked', k)
  <2>1. k \in 1 .. n /\ k + 1 \in 1 .. n
    BY <1>4
  <2>2. CallOK(calls, marked, k)
    BY <1>2, <2>1 DEF MarkInv, CallOK
  <2>3. CASE k + 1 = n
    BY <1>1, <1>8, <2>2, <2>3 DEF CallOK, Top
  <2>4. CASE k + 1 # n
    <3>1. k + 1 \in 1 .. n - 1 /\ k < Len(calls')
      BY <1>4, <1>8, <2>1, <2>4
    <3>2. calls'[k] = calls[k] /\ calls'[k + 1] = calls[k + 1]
      BY <1>8, <3>1
    <3>3. QED
      BY <1>1, <2>2, <3>1, <3>2 DEF CallOK
  <2>5. QED
    BY <2>3, <2>4
<1>11. RootSet \subseteq
         roots \cup marked' \cup (IF calls' = <<>> THEN {} ELSE {calls'[1].cell})
  <2>1. CASE n = 1
    BY <1>1, <1>2, <2>1 DEF MarkInv, Top
  <2>2. CASE n # 1
    <3>1. calls' # <<>> /\ calls'[1] = calls[1]
      BY SMTT(20), <1>4, <1>8, <2>2
    <3>2. QED
      BY <1>1, <1>2, <3>1 DEF MarkInv
  <2>3. QED
    BY <2>1, <2>2
<1>12. MarkInv'
  <2>1. marked' \subseteq Live /\ roots' \subseteq Live
    BY <1>1, <1>2, <1>4 DEF MarkInv
  <2>2. \A k \in 1 .. Len(calls') : CallOK(calls', marked', k)
    BY <1>8, <1>10
  <2>3. QED
    BY SMTT(20), <1>1, <1>3, <1>7, <1>11, <2>1, <2>2 DEF MarkInv, CallOK
<1>13. QED
  BY <1>1, <1>2, <1>3, <1>9, <1>12 DEF IInv, rootVars

\* The sweep starts with exactly the live cells marked.
LEMMA StartSweepInv ==
  ASSUME HeapAssumption, IInv, StartSweep
  PROVE  IInv'
<1>1. /\ pc = "mark" /\ pc' = "sweep" /\ calls = <<>> /\ roots = {}
      /\ swept' = 0 /\ free_list' = <<>> /\ free_list_consumed' = 0
      /\ UNCHANGED <<tag, kids, cells_used, env, fs_list, held, code, marked,
                     roots, calls>>
  BY DEF StartSweep, rootVars
<1>2. TypeOK /\ MarkInv /\ held = {} /\ LiveNeverFree /\ code = {}
  BY <1>1 DEF IInv
<1>3. Live' = Live /\ Live \subseteq Cells
  BY <1>1, <1>2, LiveSame, LiveFacts
<1>4. Live \subseteq marked
  <2>1. RootSet \cup held \subseteq marked /\ Closed(kids, marked)
    BY <1>1, <1>2 DEF MarkInv
  <2>2. QED
    BY Zenon, <1>2, <2>1, ReachMinimal DEF Live, TypeOK
<1>5. TypeOK'
  BY <1>1, <1>2 DEF TypeOK, HeapAssumption
<1>6. FreeListSound' /\ LiveNeverFree'
  <2>1. Len(free_list') = 0 /\ FreeCells' = {}
    BY <1>1 DEF FreeCells
  <2>2. free_list_consumed' + 1 .. Len(free_list') = {}
    BY <1>1, <2>1
  <2>3. QED
    BY <1>1, <1>2, <1>3, <2>1, <2>2 DEF FreeListSound, LiveNeverFree
<1>7. SweepInv'
  <2>1. Len(free_list') = 0 /\ cells_used \in Nat
    BY <1>1, <1>2 DEF TypeOK, HeapAssumption
  <2>2. \A c \in marked : c \in Cells /\ c < cells_used
    BY <1>2, <1>3 DEF MarkInv, LiveNeverFree
  <2>3. marked \subseteq 0 .. cells_used - 1
    BY <2>1, <2>2 DEF Cells
  <2>4. QED
    BY <1>1, <1>2, <1>3, <1>4, <2>1, <2>3 DEF SweepInv, MarkInv
<1>8. QED
  BY <1>1, <1>2, <1>5, <1>6, <1>7 DEF IInv

\* One iteration of the sweep frees no live cell and forgets no garbage.
LEMMA SweepCellInv ==
  ASSUME HeapAssumption, IInv, SweepCell
  PROVE  IInv'
<1>1. /\ pc = "sweep" /\ pc' = pc /\ swept < cells_used
      /\ marked' = marked \ {swept} /\ swept' = swept + 1
      /\ UNCHANGED <<kids, cells_used, free_list_consumed, env, fs_list, held,
                     code, roots, calls>>
  BY DEF SweepCell, rootVars
<1>2. TypeOK /\ SweepInv /\ held = {} /\ LiveNeverFree /\ code = {} /\ FreeListSound
  BY <1>1 DEF IInv
<1>3. /\ swept \in Nat /\ cells_used \in Nat /\ swept + 1 <= cells_used
      /\ swept \in Cells /\ swept + 1 \in 0 .. MAX_CELLS
      /\ free_list \in Seq(Cells) /\ Len(free_list) \in Nat
      /\ free_list_consumed = 0 /\ free_list_consumed' = 0
      /\ tag \in [Cells -> Tags]
  BY <1>1, <1>2 DEF TypeOK, SweepInv, Cells, HeapAssumption
<1>4. Live' = Live /\ Live \subseteq Cells
  BY <1>1, <1>2, LiveSame, LiveFacts
<1>5. /\ \A c \in Live : c >= swept' => c \in marked'
      /\ marked' \subseteq Live
      /\ marked' \subseteq swept' .. cells_used' - 1
      /\ swept' <= cells_used'
  <2>1. \A c \in Live : c \in Nat
    BY <1>4 DEF Cells
  <2>2. QED
    BY <1>1, <1>2, <1>3, <2>1 DEF SweepInv
<1>6. CASE Keeps(swept)
  <2>1. UNCHANGED <<tag, free_list>>
    BY SMTT(20), <1>6 DEF SweepCell
  <2>2. TypeOK' /\ FreeListSound' /\ LiveNeverFree'
    BY SMTT(20), <1>1, <1>2, <1>3, <1>4, <2>1
    DEF TypeOK, FreeListSound, FreeCells, LiveNeverFree
  <2>3. SweepInv'
    <3>1. \A i \in 1 .. Len(free_list') : free_list'[i] < swept'
      BY SMTT(20), <1>1, <1>2, <1>3, <2>1 DEF SweepInv, Cells
    <3>2. FreeCells' = FreeCells
      BY <1>1, <2>1 DEF FreeCells
    <3>3. swept \in Live \/ tag[swept] = "LAMBDA"
      BY Zenon, <1>2, <1>6 DEF Keeps, SweepInv
    <3>4. \A c \in 0 .. swept' - 1 : c \in 0 .. swept - 1 \/ c = swept
      BY <1>1, <1>3
    <3>5. \A c \in 0 .. swept' - 1 :
            c \in Live' \/ tag'[c] = "LAMBDA" \/ c \in FreeCells'
      BY <1>2, <1>4, <2>1, <3>2, <3>3, <3>4 DEF SweepInv
    <3>6. QED
      BY <1>1, <1>2, <1>3, <1>4, <1>5, <3>1, <3>5 DEF SweepInv
  <2>4. QED
    BY <1>1, <1>2, <2>2, <2>3 DEF IInv
<1>7. CASE ~Keeps(swept)
  <2> DEFINE n == Len(free_list)
  <2>1. /\ tag' = [tag EXCEPT ![swept] = "FREED"]
        /\ free_list' = Append(free_list, swept)
        /\ swept \notin marked
    BY <1>7 DEF SweepCell, Keeps
  <2>2. /\ free_list' \in Seq(Cells) /\ Len(free_list') = n + 1
        /\ \A i \in 1 .. n : free_list'[i] = free_list[i]
        /\ free_list'[n + 1] = swept
    BY <1>3, <2>1, AppendProperties
  <2>3. "FREED" \in Tags
    BY DEF Tags
  <2>4. TypeOK'
    BY <1>1, <1>2, <1>3, <2>1, <2>2, <2>3 DEF TypeOK
  <2>5. \A i \in 1 .. n + 1 : i \in 1 .. n \/ i = n + 1
    BY <1>3
  <2>6. \A i \in 1 .. n : /\ free_list[i] < swept /\ free_list[i] \in Nat
                         /\ free_list[i] \in Cells
    BY SMTT(20), <1>2, <1>3 DEF SweepInv, Cells
  <2>7. FreeListSound'
    <3>1. \A i, j \in 1 .. n : free_list[i] = free_list[j] => i = j
      BY <1>2, <1>3 DEF FreeListSound
    <3>2. \A i, j \in 1 .. n + 1 : free_list'[i] = free_list'[j] => i = j
      BY <1>3, <2>2, <2>5, <2>6, <3>1
    <3>3. ASSUME NEW i \in 1 .. n + 1
          PROVE  free_list'[i] < cells_used /\ tag'[free_list'[i]] = "FREED"
      <4>1. CASE i \in 1 .. n
        <5>1. free_list[i] \in FreeCells
          BY <1>3, <4>1 DEF FreeCells
        <5>2. free_list[i] < cells_used /\ tag[free_list[i]] = "FREED"
          BY <1>2, <5>1 DEF FreeListSound
        <5>3. QED
          BY <1>3, <2>1, <2>2, <2>6, <4>1, <5>2
      <4>2. CASE i = n + 1
        BY <1>1, <1>3, <2>1, <2>2, <4>2
      <4>3. QED
        BY <2>5, <4>1, <4>2
    <3>4. QED
      BY <1>1, <1>3, <2>2, <3>2, <3>3 DEF FreeListSound, FreeCells
  <2>8. swept \notin Live
    BY <1>2, <1>3, <2>1 DEF SweepInv
  <2>9. LiveNeverFree'
    BY SMTT(20), <1>1, <1>2, <1>3, <1>4, <2>1, <2>8 DEF LiveNeverFree
  <2>10. SweepInv'
    <3>1. \A i \in 1 .. Len(free_list') : free_list'[i] < swept'
      BY <1>1, <1>3, <2>2, <2>5, <2>6
    <3>2. FreeCells \cup {swept} \subseteq FreeCells'
      BY <1>3, <2>2 DEF FreeCells
    <3>3. \A c \in 0 .. swept' - 1 : c \in 0 .. swept - 1 \/ c = swept
      BY <1>1, <1>3
    <3>4. \A c \in 0 .. swept - 1 : tag'[c] = tag[c]
      BY <1>3, <2>1 DEF Cells
    <3>5. \A c \in 0 .. swept' - 1 :
            c \in Live' \/ tag'[c] = "LAMBDA" \/ c \in FreeCells'
      BY <1>2, <1>4, <3>2, <3>3, <3>4 DEF SweepInv
    <3>6. QED
      BY <1>1, <1>2, <1>3, <1>4, <1>5, <3>1, <3>5 DEF SweepInv
  <2>11. QED
    BY <1>1, <1>2, <2>4, <2>7, <2>9, <2>10 DEF IInv
<1>8. QED
  BY <1>6, <1>7

\* collect_garbage's own alloc_int, served from the new free list.
LEMMA FinishGcInv ==
  ASSUME HeapAssumption, IInv, FinishGc
  PROVE  IInv'
<1>1. /\ pc = "sweep" /\ swept = cells_used
      /\ UNCHANGED <<env, fs_list, code, marked, roots, calls, swept>>
  BY DEF FinishGc, gcVars
<1>2. TypeOK /\ SweepInv /\ LiveNeverFree /\ code = {} /\ FreeListSound
  BY <1>1 DEF IInv
<1>3. marked = {} /\ calls = <<>>
  BY <1>1, <1>2 DEF SweepInv, TypeOK, HeapAssumption
<1>4. CASE Fits(1)
  <2>1. /\ Consume(1) /\ pc' = "run"
        /\ tag'  = [tag EXCEPT ![CellAlloc(1)] = "LEAF"]
        /\ kids' = [kids EXCEPT ![CellAlloc(1)] = <<>>]
        /\ held' = held \cup {CellAlloc(1)}
    BY <1>4 DEF FinishGc
  <2>2. "LEAF" \in Tags \ {"FREED"} /\ <<>> \in Seq(Ptr) /\ DOMAIN <<>> = {}
    BY DEF Tags
  <2>3. TypeOK' /\ FreeListSound' /\ LiveNeverFree'
    BY ZenonT(30), <1>1, <1>2, <2>1, <2>2, OneCell
  <2>4. QED
    BY <1>1, <1>2, <1>3, <2>1, <2>3 DEF IInv, RunInv
<1>5. CASE ~Fits(1)
  <2>1. /\ pc' = "exit"
        /\ UNCHANGED <<tag, kids, cells_used, free_list, free_list_consumed, held>>
    BY <1>5 DEF FinishGc, heapVars
  <2>2. Live' = Live
    BY SMTT(20), <1>1, <2>1, LiveSame
  <2>3. TypeOK' /\ FreeListSound' /\ LiveNeverFree'
    BY <1>1, <1>2, <2>1, <2>2 DEF TypeOK, FreeListSound, FreeCells, LiveNeverFree
  <2>4. QED
    BY <1>1, <1>2, <2>1, <2>3 DEF IInv
<1>6. QED
  BY <1>4, <1>5

-----------------------------------------------------------------------------
(* The theorems *)

\* The heap filesystems_init leaves behind satisfies the invariant.
LEMMA InitInv ==
  ASSUME HeapAssumption, Init
  PROVE  IInv
<1>1. TypeOK
  <2>1. 0 \in Cells /\ NULL \in Ptr /\ cells_used \in 0 .. MAX_CELLS /\ 0 \in 0 .. MAX_CELLS
    BY DEF Init, Cells, Ptr, HeapAssumption
  <2>2. <<NULL, NULL>> \in Seq(Ptr) /\ <<>> \in Seq(Ptr)
    BY <2>1
  <2>3. tag \in [Cells -> Tags]
    BY DEF Init, Tags
  <2>4. kids \in [Cells -> Seq(Ptr)]
    BY <2>2 DEF Init
  <2>5. fs_list \in Ptr /\ env \in [Symbols -> Ptr]
    BY <2>1 DEF Init, Ptr
  <2>6. QED
    BY <2>1, <2>3, <2>4, <2>5 DEF Init, TypeOK
<1>2. FreeListSound
  <2>1. Len(free_list) = 0 /\ free_list_consumed = 0
    BY DEF Init
  <2>2. free_list_consumed + 1 .. Len(free_list) = {}
    BY <2>1
  <2>3. QED
    BY <2>2 DEF FreeListSound, FreeCells
<1>3. LiveNeverFree
  <2>1. {0} \in SUBSET Cells
    BY DEF Cells, HeapAssumption
  <2>2. Closed(kids, {0})
    <3>1. kids[0] = <<NULL, NULL>>
      BY <2>1 DEF Init
    <3>2. QED
      BY <3>1 DEF Closed, Children
  <2>3. RootSet \cup held \subseteq {0}
    BY DEF Init, RootSet
  <2>4. Live \subseteq {0}
    BY <2>1, <2>2, <2>3, ReachMinimal DEF Live
  <2>5. QED
    BY <2>1, <2>4 DEF LiveNeverFree, Init
<1>4. QED
  BY <1>1, <1>2, <1>3 DEF IInv, RunInv, Init

\* Every step preserves the invariant.
LEMMA NextInv ==
  ASSUME HeapAssumption, Disciplined, IInv, [Next]_vars
  PROVE  IInv'
<1>1. CASE Mutate
  BY <1>1, MutateInv
<1>2. CASE StartGc
  BY <1>2, StartGcInv
<1>3. CASE Mark
  BY <1>3, MarkRootInv, MarkKidInv, MarkSelfInv DEF Mark
<1>4. CASE StartSweep
  BY <1>4, StartSweepInv
<1>5. CASE SweepCell
  BY <1>5, SweepCellInv
<1>6. CASE FinishGc
  BY <1>6, FinishGcInv
<1>7. CASE UNCHANGED vars
  <2>1. UNCHANGED <<tag, kids, cells_used, free_list, free_list_consumed, env,
                   fs_list, held, code, marked, roots, calls, swept, pc>>
    BY <1>7 DEF vars, heapVars, rootVars, gcVars
  <2>2. Live' = Live /\ RootSet' = RootSet
    BY SMTT(20), <2>1, LiveSame
  <2>3. TypeOK' /\ FreeListSound' /\ LiveNeverFree'
    BY SMTT(20), <2>1, <2>2 DEF IInv, TypeOK, FreeListSound, FreeCells, LiveNeverFree
  <2>4. MarkInv => MarkInv'
    BY SMTT(20), <2>1, <2>2 DEF MarkInv, Closed, Children
  <2>5. SweepInv => SweepInv'
    BY <2>1, <2>2 DEF SweepInv, FreeCells
  <2>6. QED
    BY <2>1, <2>3, <2>4, <2>5 DEF IInv, RunInv
<1>8. QED
  BY <1>1, <1>2, <1>3, <1>4, <1>5, <1>6, <1>7 DEF Next, Gc

\* The inductive invariant holds of every disciplined program, whatever the
\* heap size, the symbols and the depth of the native stack.
THEOREM Inductive ==
  ASSUME Disciplined
  PROVE  Spec => []IInv
<1>1. HeapAssumption
  BY HeapAssumption
<1>2. Init => IInv
  BY <1>1, InitInv
<1>3. IInv /\ [Next]_vars => IInv'
  BY <1>1, NextInv
<1>4. QED
  BY <1>2, <1>3, PTL DEF Spec

\* Type correctness of the heap: cell_alloc and the sweep stay inside the
\* cells that init_allocator reserved.
THEOREM TypeCorrect ==
  ASSUME Disciplined
  PROVE  Spec => []TypeOK
<1>1. IInv => TypeOK
  BY DEF IInv
<1>2. QED
  BY <1>1, Inductive, PTL

\* cell_alloc never hands out a cell twice.
THEOREM FreeListCorrect ==
  ASSUME Disciplined
  PROVE  Spec => []FreeListSound
<1>1. IInv => FreeListSound
  BY DEF IInv
<1>2. QED
  BY <1>1, Inductive, PTL

\* collect_garbage never gives back a cell the program can reach.
THEOREM HeapSafe ==
  ASSUME Disciplined
  PROVE  Spec => []LiveNeverFree
<1>1. IInv => LiveNeverFree
  BY DEF IInv
<1>2. QED
  BY <1>1, Inductive, PTL

\* When marking is over, exactly the cells reachable from the environment and
\* the mounts carry the mark.
THEOREM MarksExactly ==
  ASSUME Disciplined
  PROVE  Spec => []MarkedExactly
<1>1. IInv => MarkedExactly
  <2> SUFFICES ASSUME IInv, pc = "sweep", swept = 0
               PROVE  marked = Reach(kids, RootSet)
    BY DEF MarkedExactly
  <2>1. SweepInv /\ held = {} /\ TypeOK
    BY DEF IInv
  <2>2. Live = Reach(kids, RootSet)
    <3>1. RootSet \cup held = RootSet
      BY <2>1
    <3>2. QED
      BY SMTT(20), <3>1 DEF Live
  <2>3. Live \subseteq marked
    <3>1. \A c \in Live : c >= 0
      BY <2>1, LiveFacts DEF Cells
    <3>2. QED
      BY <2>1, <3>1 DEF SweepInv
  <2>4. QED
    BY Zenon, <2>1, <2>2, <2>3 DEF SweepInv
<1>2. QED
  BY <1>1, Inductive, PTL

\* A collection that returns has put every cell that is neither live nor a
\* LAMBDA on the free list.
THEOREM FreesTheRest ==
  ASSUME Disciplined
  PROVE  Spec => NoGarbageLeft
<1> DEFINE A == pc = "sweep" /\ pc' = "run" =>
                  \A c \in 0 .. cells_used - 1 :
                    c \in Live \/ tag[c] = "LAMBDA" \/ c \in FreeCells
<1>1. IInv /\ [Next]_vars => [A]_vars
  <2> SUFFICES ASSUME IInv, Next, pc = "sweep", pc' = "run"
               PROVE  \A c \in 0 .. cells_used - 1 :
                        c \in Live \/ tag[c] = "LAMBDA" \/ c \in FreeCells
    OBVIOUS
  <2>1. FinishGc
    BY DEF Next, Mutate, Gc, Mark, StartGc, MarkRoot, MarkKid, MarkSelf,
           StartSweep, SweepCell
  <2>2. swept = cells_used /\ SweepInv
    BY <2>1 DEF FinishGc, IInv
  <2>3. QED
    BY <2>2 DEF SweepInv
<1>2. QED
  BY <1>1, Inductive, PTL DEF Spec, NoGarbageLeft

\* No step of the program or of the collector changes a live cell, but for
\* sput, which changes the STRUCT it is given.
THEOREM LiveCellsKept ==
  ASSUME Disciplined
  PROVE  Spec => LiveCellsKeepContents
<1> DEFINE A == \A c \in Live :
                  /\ tag'[c] = tag[c]
                  /\ kids'[c] = kids[c] \/ tag[c] = "STRUCT"
<1>1. HeapAssumption
  BY HeapAssumption
<1>2. ASSUME IInv, Next PROVE A
  <2>1. TypeOK /\ FreeListSound /\ LiveNeverFree /\ Live \subseteq Cells
    BY <1>2, LiveFacts DEF IInv
  <2>2. ASSUME NEW t, NEW ks, AllocOne(t, ks) PROVE A
    <3>1. CellAlloc(1) \in Cells \ Live
      BY SMTT(20), <1>1, <2>1, <2>2, Served DEF AllocOne
    <3>2. QED
      BY <2>1, <2>2, <3>1 DEF AllocOne, TypeOK
  <2>3. ASSUME NEW t1, NEW ks1, NEW t2, NEW ks2, AllocTwo(t1, ks1, t2, ks2) PROVE A
    <3>1. 1 \in 1 .. 2 /\ 2 \in 1 .. 2
      OBVIOUS
    <3>2. CellAlloc(1) \in Cells \ Live /\ CellAlloc(2) \in Cells \ Live
      BY SMTT(20), <1>1, <2>1, <2>3, <3>1, Served DEF AllocTwo
    <3>3. QED
      BY <2>1, <2>3, <3>2 DEF AllocTwo, TypeOK
  <2>4. ASSUME NEW s, NEW c, Sput(s, c) PROVE A
    BY <2>1, <2>4 DEF Sput, TypeOK
  <2>5. CASE UNCHANGED <<tag, kids>>
    BY SMTT(20), <2>5
  <2>6. CASE SweepCell
    <3>1. swept \in Live => swept \in marked
      BY SMTT(20), <1>1, <1>2, <2>1, <2>6 DEF IInv, SweepInv, SweepCell, TypeOK, HeapAssumption
    <3>2. QED
      BY SMTT(20), <2>1, <2>6, <3>1 DEF SweepCell, Keeps, TypeOK
  <2>7. CASE FinishGc /\ Fits(1)
    <3>1. Consume(1)
      BY <2>7 DEF FinishGc
    <3>2. CellAlloc(1) \in Cells \ Live
      BY <1>1, <2>1, <3>1, Served
    <3>3. QED
      BY <2>1, <2>7, <3>2 DEF FinishGc, TypeOK
  <2>8. CASE FinishGc /\ ~Fits(1)
    BY <2>8 DEF FinishGc, heapVars
  <2>9. CASE Mutate
    <3>1. CASE AllocLeaf
      BY Zenon, <2>2, <3>1 DEF AllocLeaf
    <3>2. ASSUME NEW a, NEW d, AllocCons(a, d) PROVE A
      BY Zenon, <2>2, <3>2 DEF AllocCons
    <3>3. ASSUME NEW body, NEW nested, CompileFn(body, nested) PROVE A
      BY Zenon, <2>3, <3>3 DEF CompileFn
    <3>4. ASSUME NEW c, AllocStructDef(c) \/ AllocStruct(c) PROVE A
      BY Zenon, <2>2, <2>3, <3>4 DEF AllocStructDef, AllocStruct
    <3>5. ASSUME NEW path, NEW handler, Mount(path, handler) PROVE A
      BY Zenon, <2>3, <3>5 DEF Mount
    <3>6. ASSUME NEW s, NEW c, Load(c) \/ Define(s, c) \/ Return \/ OutOfCells
          PROVE  A
      BY Zenon, <2>5, <3>6 DEF Load, Define, Return, OutOfCells, heapVars
    <3>7. QED
      BY Zenon, <2>4, <2>9, <3>1, <3>2, <3>3, <3>4, <3>5, <3>6 DEF Mutate
  <2>10. CASE StartGc \/ Mark \/ StartSweep
    BY ZenonT(30), <2>5, <2>10
    DEF StartGc, Mark, MarkRoot, MarkKid, MarkSelf, StartSweep, heapVars
  <2>11. QED
    BY <1>2, <2>6, <2>7, <2>8, <2>9, <2>10 DEF Next, Gc
<1>3. IInv /\ [Next]_vars => [A]_vars
  BY <1>2
<1>4. QED
  BY <1>3, Inductive, PTL DEF Spec, LiveCellsKeepContents

=============================================================================
