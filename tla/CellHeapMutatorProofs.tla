----------------------- MODULE CellHeapMutatorProofs -----------------------
(***************************************************************************)
(* The inductive invariant of CellHeap, what is reachable, and the steps   *)
(* of the running program: none of them disturbs the invariant.            *)
(***************************************************************************)
EXTENDS CellHeap, SequenceTheorems, TLAPS

\* Programs that neither hold temporaries across (gc) nor nest fn in fn.
Disciplined == Programs \cap {"hold", "nest"} = {}

\* During marking: what has been marked is closed, because a cell is marked
\* after its pointers; what a call has already looked at is marked or null,
\* except the pointer the next call in is busy with; every root is still to
\* come, marked, or being traversed; only live cells are visited.
MarkInv ==
  /\ Closed(kids, marked)
  /\ marked \subseteq Live /\ roots \subseteq Live
  /\ RootSet \subseteq
       roots \cup marked \cup (IF calls = <<>> THEN {} ELSE {calls[1].cell})
  /\ \A k \in 1 .. Len(calls) :
       /\ calls[k].cell \in Live
       /\ \A i \in 1 .. calls[k].next - 1 :
            i \in DOMAIN kids[calls[k].cell] =>
              \/ kids[calls[k].cell][i] \in marked \cup {NULL}
              \/ /\ k < Len(calls)
                 /\ i = calls[k].next - 1
                 /\ kids[calls[k].cell][i] = calls[k + 1].cell

\* During the sweep: of the cells not yet visited the live ones are marked
\* and no others; the new free list holds the visited cells, but for the live
\* ones and the LAMBDAs.
SweepInv ==
  /\ \A c \in Live : c >= swept => c \in marked
  /\ marked \subseteq Live
  /\ \A c \in 0 .. swept - 1 : c \in Live \/ tag[c] = "LAMBDA" \/ c \in FreeCells
  /\ marked \subseteq swept .. cells_used - 1
  /\ swept <= cells_used
  /\ free_list_consumed = 0
  /\ \A i \in 1 .. Len(free_list) : free_list[i] < swept
  /\ calls = <<>>

\* Between collections no mark bit and no mark_tree call is left over.
RunInv == marked = {} /\ calls = <<>>

IInv ==
  /\ TypeOK
  /\ FreeListSound
  /\ LiveNeverFree
  /\ code = {}
  /\ pc \in {"mark", "sweep"} => held = {}
  /\ pc = "run" => RunInv
  /\ pc = "mark" => MarkInv
  /\ pc = "sweep" => SweepInv

-----------------------------------------------------------------------------
(* Reachability *)

\* What is asked for is reached.
LEMMA ReachContains ==
  ASSUME NEW k, NEW R \in SUBSET Cells
  PROVE  R \subseteq Reach(k, R)
BY DEF Reach

\* The cells reached are closed under the pointers of the heap.
LEMMA ReachClosed ==
  ASSUME NEW k \in [Cells -> Seq(Ptr)], NEW R
  PROVE  Reach(k, R) \in SUBSET Cells /\ Closed(k, Reach(k, R))
<1>1. Reach(k, R) \in SUBSET Cells
  BY DEF Reach
<1>2. ASSUME NEW c \in Reach(k, R), NEW i \in DOMAIN k[c], k[c][i] # NULL
      PROVE  k[c][i] \in Reach(k, R)
  <2>1. c \in Cells /\ k[c] \in Seq(Ptr)
    BY <1>1
  <2>2. k[c][i] \in Cells
    BY <1>2, <2>1 DEF Ptr
  <2>3. ASSUME NEW S \in SUBSET Cells, R \subseteq S, Closed(k, S)
        PROVE  k[c][i] \in S
    <3>1. c \in S
      BY <2>3 DEF Reach
    <3>2. QED
      BY <1>2, <2>3, <3>1 DEF Closed, Children
  <2>4. QED
    BY <2>2, <2>3 DEF Reach
<1>3. QED
  BY <1>1, <1>2 DEF Closed, Children

\* No other closed set that contains R leaves out a cell that is reached.
LEMMA ReachMinimal ==
  ASSUME NEW k, NEW R, NEW S \in SUBSET Cells, R \subseteq S, Closed(k, S)
  PROVE  Reach(k, R) \subseteq S
BY DEF Reach

\* A step after which the old live cells and the new cells N are closed and
\* hold every root makes nothing else live.
LEMMA LiveStep ==
  ASSUME TypeOK, NEW N \in SUBSET Cells, Closed(kids', Live \cup N),
         (RootSet \cup held)' \subseteq Live \cup N
  PROVE  Live' \subseteq Live \cup N
<1>1. Live \in SUBSET Cells
  BY ReachClosed DEF TypeOK, Live
<1>2. QED
  BY Zenon, <1>1, ReachMinimal DEF Live

\* Live cells are cells, closed, and contain the roots.
LEMMA LiveFacts ==
  ASSUME TypeOK
  PROVE  /\ Live \in SUBSET Cells
         /\ Closed(kids, Live)
         /\ RootSet \cup held \subseteq Live
<1>1. RootSet \cup held \in SUBSET Cells
  BY DEF TypeOK, RootSet, Ptr
<1>2. QED
  BY Zenon, <1>1, ReachContains, ReachClosed DEF TypeOK, Live

-----------------------------------------------------------------------------
(* cell_alloc *)

\* The next n (one or two) cells served are distinct cells of the heap, not
\* live, and not among those the free list still holds afterwards.
LEMMA Served ==
  ASSUME HeapAssumption, TypeOK, FreeListSound, LiveNeverFree,
         NEW n \in {1, 2}, Consume(n)
  PROVE  /\ \A k \in 1 .. n : /\ CellAlloc(k) \in Cells
                             /\ CellAlloc(k) \notin Live
                             /\ CellAlloc(k) < cells_used'
                             /\ CellAlloc(k) \notin FreeCells'
         /\ n = 2 => CellAlloc(1) # CellAlloc(2)
         /\ cells_used' \in cells_used .. MAX_CELLS
         /\ free_list' = free_list
         /\ free_list_consumed' \in free_list_consumed .. Len(free_list)
<1>0. /\ cells_used \in Nat /\ MAX_CELLS \in Nat /\ n \in Nat
      /\ Len(free_list) \in Nat /\ free_list_consumed \in Nat
      /\ Avail \in Nat /\ free_list \in Seq(Cells)
      /\ Avail = Len(free_list) - free_list_consumed
      /\ cells_used <= MAX_CELLS
  BY DEF TypeOK, HeapAssumption, Avail
<1>1. /\ cells_used' = cells_used + (n - Recycled(n))
      /\ Recycled(n) = IF n <= Avail THEN n ELSE Avail
      /\ cells_used' \in cells_used .. MAX_CELLS
      /\ free_list' = free_list
      /\ free_list_consumed' = free_list_consumed + Recycled(n)
      /\ free_list_consumed' \in free_list_consumed .. Len(free_list)
  BY <1>0 DEF Consume, Fits, Recycled
<1>a. /\ cells_used' \in Nat
      /\ cells_used <= cells_used' /\ cells_used' <= MAX_CELLS
  BY <1>0, <1>1
<1>2. ASSUME NEW k \in 1 .. n, k <= Avail
      PROVE  /\ CellAlloc(k) = free_list[free_list_consumed + k]
             /\ free_list_consumed + k \in free_list_consumed + 1 .. Len(free_list)
             /\ CellAlloc(k) \in FreeCells
             /\ free_list_consumed' >= free_list_consumed + k
  <2>1. /\ CellAlloc(k) = free_list[free_list_consumed + k]
        /\ free_list_consumed + k \in free_list_consumed + 1 .. Len(free_list)
    BY <1>0, <1>2 DEF CellAlloc
  <2>2. free_list_consumed' >= free_list_consumed + k
    BY <1>0, <1>1, <1>2
  <2>3. QED
    BY <2>1, <2>2 DEF FreeCells
<1>3. ASSUME NEW k \in 1 .. n, ~(k <= Avail)
      PROVE  /\ CellAlloc(k) = cells_used + (k - Avail) - 1
             /\ CellAlloc(k) \in cells_used .. cells_used' - 1
  <2>1. k \in Nat /\ 1 <= k /\ k <= n /\ Avail < k
    BY <1>0, <1>3
  <2>2. Recycled(n) = Avail
    BY <1>0, <1>1, <2>1
  <2>3. cells_used' = cells_used + (n - Avail)
    BY <1>1, <2>2
  <2>4. CellAlloc(k) = cells_used + (k - Avail) - 1
    BY <1>3 DEF CellAlloc
  <2>5. QED
    BY <1>0, <2>1, <2>3, <2>4
<1>4. \A c \in FreeCells : c \in Cells /\ c < cells_used /\ c \notin Live
  BY <1>0 DEF FreeCells, FreeListSound, LiveNeverFree
<1>5. ASSUME NEW k \in 1 .. n
      PROVE  /\ CellAlloc(k) \in Cells
             /\ CellAlloc(k) \notin Live
             /\ CellAlloc(k) < cells_used'
             /\ CellAlloc(k) \notin FreeCells'
  <2>1. CASE k <= Avail
    <3>1. CellAlloc(k) \in Cells /\ CellAlloc(k) \notin Live
      BY <1>2, <1>4, <2>1
    <3>2. CellAlloc(k) < cells_used'
      BY <1>0, <1>a, <1>2, <1>4, <2>1 DEF Cells
    <3>3. ASSUME NEW i \in free_list_consumed' + 1 .. Len(free_list)
          PROVE  free_list[i] # CellAlloc(k)
      BY <1>0, <1>1, <1>2, <2>1 DEF FreeListSound
    <3>4. QED
      BY <1>1, <3>1, <3>2, <3>3 DEF FreeCells
  <2>2. CASE ~(k <= Avail)
    <3>1. CellAlloc(k) \in cells_used .. cells_used' - 1
      BY <1>3, <2>2
    <3>2. CellAlloc(k) \in Cells /\ CellAlloc(k) < cells_used'
      BY <1>0, <1>a, <3>1 DEF Cells
    <3>3. CellAlloc(k) \notin Live
      BY <1>0, <1>1, <3>1 DEF LiveNeverFree
    <3>4. FreeCells' \subseteq FreeCells
      BY <1>0, <1>1 DEF FreeCells
    <3>5. CellAlloc(k) \notin FreeCells
      BY <1>0, <1>1, <1>4, <3>1
    <3>6. QED
      BY <3>2, <3>3, <3>4, <3>5
  <2>3. QED
    BY <2>1, <2>2
<1>6. ASSUME n = 2
      PROVE  CellAlloc(1) # CellAlloc(2)
  <2>0. 1 \in 1 .. n /\ 2 \in 1 .. n
    BY <1>6
  <2>1. CASE 2 <= Avail
    <3>1. 1 <= Avail
      BY <1>0, <2>1
    <3>2. QED
      BY <1>0, <1>2, <2>0, <2>1, <3>1 DEF FreeListSound
  <2>2. CASE ~(2 <= Avail) /\ 1 <= Avail
    <3>1. CellAlloc(1) \in FreeCells
      BY <1>2, <2>0, <2>2
    <3>2. CellAlloc(2) \in cells_used .. cells_used' - 1
      BY <1>3, <2>0, <2>2
    <3>3. QED
      BY <1>0, <1>1, <1>4, <3>1, <3>2 DEF Cells
  <2>3. CASE ~(1 <= Avail)
    <3>1. ~(2 <= Avail)
      BY <1>0, <2>3
    <3>2. /\ CellAlloc(1) = cells_used + (1 - Avail) - 1
          /\ CellAlloc(2) = cells_used + (2 - Avail) - 1
      BY <1>3, <2>0, <2>3, <3>1
    <3>3. QED
      BY <1>0, <3>2
  <2>4. QED
    BY <2>1, <2>2, <2>3
<1>7. QED
  BY <1>1, <1>5, <1>6

-----------------------------------------------------------------------------
(* Steps of the running program *)

\* A step of the program preserves the invariant when it makes at most the
\* allocated cells N live and leaves the collector's variables alone.
LEMMA GrowInv ==
  ASSUME HeapAssumption, IInv, NEW N \in SUBSET Cells,
         pc = "run", pc' \in {"run", "exit"},
         TypeOK', FreeListSound', code' = code,
         UNCHANGED <<marked, calls>>,
         Closed(kids', Live \cup N),
         (RootSet \cup held)' \subseteq Live \cup N,
         \A c \in Live \cup N : c < cells_used' /\ tag'[c] # "FREED"
  PROVE  IInv'
<1>1. LiveNeverFree'
  BY LiveStep DEF IInv, LiveNeverFree
<1>2. QED
  BY <1>1 DEF IInv, RunInv

\* What is left of the free list stays sound when cells outside it change.
LEMMA FreeListKept ==
  ASSUME HeapAssumption, TypeOK, FreeListSound, NEW N \in SUBSET Cells,
         N \cap FreeCells' = {},
         cells_used' \in cells_used .. MAX_CELLS,
         free_list' = free_list,
         free_list_consumed' \in free_list_consumed .. Len(free_list),
         \A c \in Cells \ N : tag'[c] = tag[c]
  PROVE  FreeListSound'
<1>1. /\ cells_used \in Nat /\ cells_used' \in Nat /\ cells_used <= cells_used'
      /\ free_list_consumed \in Nat /\ free_list_consumed' \in Nat
      /\ free_list_consumed <= free_list_consumed'
      /\ Len(free_list) \in Nat /\ free_list \in Seq(Cells)
  BY DEF TypeOK, HeapAssumption
<1>a. free_list_consumed' + 1 .. Len(free_list')
        \subseteq free_list_consumed + 1 .. Len(free_list)
  BY <1>1
<1>2. FreeCells' \subseteq FreeCells
  BY Zenon, <1>a DEF FreeCells
<1>3. FreeCells \subseteq Cells
  BY <1>1 DEF FreeCells
<1>4. \A c \in FreeCells' : c < cells_used' /\ tag'[c] = "FREED"
  <2> SUFFICES ASSUME NEW c \in FreeCells'
               PROVE  c < cells_used' /\ tag'[c] = "FREED"
    OBVIOUS
  <2>1. c \in FreeCells /\ c \in Cells \ N
    BY <1>2, <1>3
  <2>2. c < cells_used /\ tag[c] = "FREED"
    BY <2>1 DEF FreeListSound
  <2>3. c \in Nat
    BY <2>1 DEF Cells
  <2>4. QED
    BY <1>1, <2>1, <2>2, <2>3
<1>5. \A i, j \in free_list_consumed' + 1 .. Len(free_list') :
        free_list'[i] = free_list'[j] => i = j
  BY Zenon, <1>a DEF FreeListSound
<1>6. QED
  BY Zenon, <1>4, <1>5 DEF FreeListSound

\* One call of cell_alloc for a cell whose pointers are live or null.
LEMMA OneCell ==
  ASSUME HeapAssumption, TypeOK, FreeListSound, LiveNeverFree,
         NEW t \in Tags \ {"FREED"}, NEW ks \in Seq(Ptr),
         \A i \in DOMAIN ks : ks[i] \in Live \cup {NULL},
         Consume(1),
         tag'  = [tag EXCEPT ![CellAlloc(1)] = t],
         kids' = [kids EXCEPT ![CellAlloc(1)] = ks],
         held' = held \cup {CellAlloc(1)},
         pc' \in {"run", "mark", "sweep", "exit", "crash"},
         UNCHANGED <<env, fs_list, code, marked, roots, calls, swept>>
  PROVE  TypeOK' /\ FreeListSound' /\ LiveNeverFree'
<1> DEFINE c == CellAlloc(1)
<1>0. TypeOK /\ FreeListSound /\ LiveNeverFree /\ Consume(1)
  OBVIOUS
<1>1. /\ c \in Cells /\ c \notin Live /\ c < cells_used' /\ c \notin FreeCells'
      /\ cells_used' \in cells_used .. MAX_CELLS
      /\ free_list' = free_list
      /\ free_list_consumed' \in free_list_consumed .. Len(free_list)
  BY <1>0, Served
<1>2. /\ tag' = [tag EXCEPT ![c] = t]
      /\ kids' = [kids EXCEPT ![c] = ks]
      /\ held' = held \cup {c}
      /\ UNCHANGED <<env, fs_list, marked, roots, calls, swept>>
  OBVIOUS
<1> HIDE DEF c
<1>3. TypeOK'
  BY <1>0, <1>1, <1>2 DEF TypeOK, HeapAssumption
<1>4. FreeListSound'
  <2>1. \A x \in Cells \ {c} : tag'[x] = tag[x]
    BY <1>0, <1>2 DEF TypeOK
  <2>2. {c} \in SUBSET Cells /\ {c} \cap FreeCells' = {}
    BY <1>1
  <2>3. QED
    BY Zenon, <1>0, <1>1, <2>1, <2>2, FreeListKept
<1>5. /\ Live \in SUBSET Cells
      /\ Closed(kids, Live)
      /\ RootSet \cup held \subseteq Live
  BY <1>0, LiveFacts
<1>6. Closed(kids', Live \cup {c})
  <2>1. ASSUME NEW x \in Live
        PROVE  Children(kids', x) \subseteq Live
    <3>1. kids'[x] = kids[x]
      BY <1>0, <1>1, <1>2, <1>5, <2>1 DEF TypeOK
    <3>2. QED
      BY <1>5, <3>1 DEF Closed, Children
  <2>2. Children(kids', c) \subseteq Live
    <3>1. kids'[c] = ks
      BY <1>0, <1>1, <1>2 DEF TypeOK
    <3>2. QED
      BY <3>1 DEF Children
  <2>3. QED
    BY Zenon, <2>1, <2>2 DEF Closed
<1>7. (RootSet \cup held)' \subseteq Live \cup {c}
  BY <1>2, <1>5 DEF RootSet
<1>8. ASSUME NEW x \in Live \cup {c}
      PROVE  x < cells_used' /\ tag'[x] # "FREED"
  <2>1. CASE x = c
    BY <1>0, <1>1, <1>2, <2>1 DEF TypeOK
  <2>2. CASE x \in Live /\ x # c
    <3>1. x < cells_used /\ tag[x] # "FREED" /\ x \in Cells
      BY <1>0, <1>5, <2>2 DEF LiveNeverFree
    <3>2. tag'[x] = tag[x]
      BY <1>0, <1>2, <2>2, <3>1 DEF TypeOK
    <3>3. x < cells_used'
      BY <1>0, <1>1, <3>1 DEF TypeOK, Cells, HeapAssumption
    <3>4. QED
      BY <3>1, <3>2, <3>3
  <2>3. QED
    BY <2>1, <2>2
<1>9. Live' \subseteq Live \cup {c}
  <2>1. {c} \in SUBSET Cells
    BY <1>1
  <2>2. QED
    BY Zenon, <1>0, <1>6, <1>7, <2>1, LiveStep
<1>10. LiveNeverFree'
  BY <1>8, <1>9 DEF LiveNeverFree
<1>11. QED
  BY <1>3, <1>4, <1>10

\* The constructors that allocate one cell preserve the invariant.
LEMMA AllocOneInv ==
  ASSUME HeapAssumption, IInv, NEW t \in Tags \ {"FREED"}, NEW ks \in Seq(Ptr),
         \A i \in DOMAIN ks : ks[i] \in Live \cup {NULL},
         AllocOne(t, ks), code' = code
  PROVE  IInv'
<1>1. /\ Consume(1) /\ pc = "run"
      /\ tag'  = [tag EXCEPT ![CellAlloc(1)] = t]
      /\ kids' = [kids EXCEPT ![CellAlloc(1)] = ks]
      /\ held' = held \cup {CellAlloc(1)}
      /\ UNCHANGED <<env, fs_list, marked, roots, calls, swept, pc>>
  BY DEF AllocOne, Hold, gcVars
<1>2. TypeOK /\ FreeListSound /\ LiveNeverFree
  BY DEF IInv
<1>3. TypeOK' /\ FreeListSound' /\ LiveNeverFree'
  BY Zenon, <1>1, <1>2, OneCell
<1>4. QED
  BY <1>1, <1>3 DEF IInv, RunInv

\* Allocating two cells whose pointers are live, null or each other.
LEMMA AllocTwoInv ==
  ASSUME HeapAssumption, IInv,
         NEW t1 \in Tags \ {"FREED"}, NEW ks1 \in Seq(Ptr),
         NEW t2 \in Tags \ {"FREED"}, NEW ks2 \in Seq(Ptr),
         \A i \in DOMAIN ks1 :
           ks1[i] \in Live \cup {CellAlloc(1), CellAlloc(2), NULL},
         \A i \in DOMAIN ks2 :
           ks2[i] \in Live \cup {CellAlloc(1), CellAlloc(2), NULL},
         AllocTwo(t1, ks1, t2, ks2), code' = code,
         held' \subseteq held \cup {CellAlloc(1), CellAlloc(2)},
         fs_list' \in {fs_list, CellAlloc(1), CellAlloc(2)}
  PROVE  IInv'
<1> DEFINE c1 == CellAlloc(1)
           c2 == CellAlloc(2)
           N  == {c1, c2}
<1>0. TypeOK /\ FreeListSound /\ LiveNeverFree /\ pc = "run" /\ Consume(2)
  BY DEF IInv, AllocTwo
<1>1. /\ \A c \in N : /\ c \in Cells /\ c \notin Live
                     /\ c < cells_used' /\ c \notin FreeCells'
      /\ c1 # c2
      /\ cells_used' \in cells_used .. MAX_CELLS
      /\ free_list' = free_list
      /\ free_list_consumed' \in free_list_consumed .. Len(free_list)
  <2>1. 1 \in 1 .. 2 /\ 2 \in 1 .. 2
    OBVIOUS
  <2>2. QED
    BY <1>0, <2>1, Served
<1>2. /\ tag'  = [tag EXCEPT ![c1] = t1, ![c2] = t2]
      /\ kids' = [kids EXCEPT ![c1] = ks1, ![c2] = ks2]
      /\ held' \subseteq held \cup N
      /\ fs_list' \in {fs_list} \cup N
      /\ UNCHANGED <<env, marked, roots, calls, swept, pc>>
  BY DEF AllocTwo, gcVars
<1>a. /\ \A i \in DOMAIN ks1 : ks1[i] \in Live \cup N \cup {NULL}
      /\ \A i \in DOMAIN ks2 : ks2[i] \in Live \cup N \cup {NULL}
  OBVIOUS
<1>b. c1 \in N /\ c2 \in N /\ \A x \in N : x = c1 \/ x = c2
  OBVIOUS
<1> HIDE DEF N, c1, c2
<1>c. /\ \A x \in Cells \ N : tag'[x] = tag[x] /\ kids'[x] = kids[x]
      /\ tag'[c1] = t1 /\ tag'[c2] = t2
      /\ kids'[c1] = ks1 /\ kids'[c2] = ks2
  BY <1>0, <1>1, <1>2, <1>b DEF TypeOK
<1>3. TypeOK'
  <2>1. tag' \in [Cells -> Tags] /\ kids' \in [Cells -> Seq(Ptr)]
    BY Zenon, <1>0, <1>1, <1>2, <1>b DEF TypeOK
  <2>2. held' \subseteq Cells /\ fs_list' \in Ptr
    BY <1>0, <1>1, <1>2 DEF TypeOK, Ptr
  <2>3. cells_used' \in 0 .. MAX_CELLS /\ free_list_consumed' \in 0 .. Len(free_list')
    BY <1>0, <1>1 DEF TypeOK, HeapAssumption
  <2>4. QED
    BY Zenon, <1>0, <1>1, <1>2, <2>1, <2>2, <2>3 DEF TypeOK
<1>4. FreeListSound'
  <2>1. N \in SUBSET Cells /\ N \cap FreeCells' = {}
    BY <1>1
  <2>2. QED
    BY Zenon, <1>0, <1>1, <1>c, <2>1, FreeListKept
<1>5. /\ Live \in SUBSET Cells
      /\ Closed(kids, Live)
      /\ RootSet \cup held \subseteq Live
  BY <1>0, LiveFacts
<1>6. Closed(kids', Live \cup N)
  <2>1. ASSUME NEW x \in Live
        PROVE  Children(kids', x) \subseteq Live
    <3>1. kids'[x] = kids[x]
      BY <1>1, <1>c, <1>5, <2>1
    <3>2. QED
      BY <1>5, <3>1 DEF Closed, Children
  <2>2. Children(kids', c1) \subseteq Live \cup N
    BY <1>a, <1>c DEF Children
  <2>3. Children(kids', c2) \subseteq Live \cup N
    BY <1>a, <1>c DEF Children
  <2>4. QED
    BY <1>b, <2>1, <2>2, <2>3 DEF Closed
<1>7. (RootSet \cup held)' \subseteq Live \cup N
  <2>1. held' \subseteq Live \cup N
    BY <1>2, <1>5
  <2>2. RootSet' \subseteq Live \cup N
    BY <1>2, <1>5 DEF RootSet
  <2>3. QED
    BY <2>1, <2>2
<1>8. ASSUME NEW x \in Live \cup N
      PROVE  x < cells_used' /\ tag'[x] # "FREED"
  <2>1. CASE x \in N
    BY <1>1, <1>b, <1>c, <2>1
  <2>2. CASE x \in Live /\ x \notin N
    <3>1. x < cells_used /\ tag[x] # "FREED" /\ x \in Cells
      BY <1>0, <1>5, <2>2 DEF LiveNeverFree
    <3>2. tag'[x] = tag[x]
      BY <1>c, <2>2, <3>1
    <3>3. x < cells_used'
      BY <1>0, <1>1, <3>1 DEF TypeOK, Cells, HeapAssumption
    <3>4. QED
      BY <3>1, <3>2, <3>3
  <2>3. QED
    BY <2>1, <2>2
<1>9. N \in SUBSET Cells /\ pc' \in {"run", "exit"} /\ UNCHANGED <<marked, calls>>
  BY <1>0, <1>1, <1>2
<1>10. \A x \in Live \cup N : x < cells_used' /\ tag'[x] # "FREED"
  BY <1>8
<1>11. QED
  BY Zenon, <1>0, <1>3, <1>4, <1>6, <1>7, <1>9, <1>10, GrowInv

\* Overwriting the field of a live struct with a live cell.
LEMMA SputInv ==
  ASSUME HeapAssumption, IInv, NEW s \in Live, NEW c \in Live, Sput(s, c)
  PROVE  IInv'
<1>0. /\ TypeOK /\ FreeListSound /\ LiveNeverFree /\ pc = "run"
      /\ kids' = [kids EXCEPT ![s] = [kids[s] EXCEPT ![2] = c]]
      /\ UNCHANGED <<tag, cells_used, free_list, free_list_consumed, env,
                     fs_list, held, code, marked, roots, calls, swept, pc>>
  BY DEF IInv, Sput, rootVars, gcVars
<1>1. /\ Live \in SUBSET Cells
      /\ Closed(kids, Live)
      /\ RootSet \cup held \subseteq Live
  BY <1>0, LiveFacts
<1> DEFINE ks == [kids[s] EXCEPT ![2] = c]
<1>2. /\ s \in Cells /\ c \in Ptr /\ kids[s] \in Seq(Ptr)
      /\ kids \in [Cells -> Seq(Ptr)]
  BY <1>0, <1>1 DEF TypeOK, Ptr
<1>3. ks \in Seq(Ptr) /\ \A i \in DOMAIN ks : ks[i] \in {c, kids[s][i]} /\ i \in DOMAIN kids[s]
  <2>1. CASE 2 \in 1 .. Len(kids[s])
    BY <1>2, <2>1, ExceptSeq
  <2>2. CASE 2 \notin 1 .. Len(kids[s])
    <3>1. ks = kids[s]
      BY <1>2, <2>2
    <3>2. QED
      BY Zenon, <1>2, <3>1
  <2>3. QED
    BY <2>1, <2>2
<1>4. kids' = [kids EXCEPT ![s] = ks]
  BY <1>0
<1> HIDE DEF ks
<1>5. TypeOK'
  BY ZenonT(30), <1>0, <1>2, <1>3, <1>4 DEF TypeOK
<1>6. FreeListSound'
  BY <1>0 DEF FreeListSound, FreeCells
<1>7. Closed(kids', Live)
  <2>1. ASSUME NEW x \in Live, x # s
        PROVE  Children(kids', x) \subseteq Live
    <3>1. kids'[x] = kids[x]
      BY <1>1, <1>2, <1>4, <2>1
    <3>2. QED
      BY <1>1, <3>1 DEF Closed, Children
  <2>2. Children(kids', s) \subseteq Live
    <3>1. kids'[s] = ks
      BY <1>2, <1>4
    <3>2. Children(kids, s) \subseteq Live
      BY <1>1 DEF Closed
    <3>3. QED
      BY <1>3, <3>1, <3>2 DEF Children
  <2>3. QED
    BY <2>1, <2>2 DEF Closed
<1>8. (RootSet \cup held)' \subseteq Live
  BY <1>0, <1>1 DEF RootSet
<1>9. \A x \in Live : x < cells_used' /\ tag'[x] # "FREED"
  BY <1>0 DEF LiveNeverFree
<1>10. Live \cup {} = Live /\ {} \in SUBSET Cells /\ pc' \in {"run", "exit"}
  BY <1>0
<1>11. QED
  BY Zenon, <1>0, <1>5, <1>6, <1>7, <1>8, <1>9, <1>10, GrowInv

\* A step that leaves the heap alone and only moves live cells among the
\* environment and the temporaries.
LEMMA RootsInv ==
  ASSUME HeapAssumption, IInv, pc = "run", pc' \in {"run", "exit"},
         UNCHANGED <<heapVars, fs_list, code, gcVars>>,
         env' \in [Symbols -> Ptr],
         \A s \in Symbols : env'[s] \in Live \cup {NULL},
         held' \subseteq Live
  PROVE  IInv'
<1>0. /\ TypeOK /\ FreeListSound /\ LiveNeverFree
      /\ UNCHANGED <<tag, kids, cells_used, free_list, free_list_consumed,
                     fs_list, code, marked, roots, calls, swept>>
  BY DEF IInv, heapVars, gcVars
<1>1. /\ Live \in SUBSET Cells
      /\ Closed(kids, Live)
      /\ RootSet \cup held \subseteq Live
  BY <1>0, LiveFacts
<1>2. TypeOK'
  BY <1>0, <1>1 DEF TypeOK
<1>3. FreeListSound'
  BY <1>0 DEF FreeListSound, FreeCells
<1>4. Closed(kids', Live)
  BY <1>0, <1>1
<1>5. (RootSet \cup held)' \subseteq Live
  BY <1>0, <1>1 DEF RootSet
<1>6. \A x \in Live : x < cells_used' /\ tag'[x] # "FREED"
  BY <1>0 DEF LiveNeverFree
<1>7. Live \cup {} = Live /\ {} \in SUBSET Cells
  OBVIOUS
<1>8. QED
  BY Zenon, <1>0, <1>2, <1>3, <1>4, <1>5, <1>6, <1>7, GrowInv

\* Every step of a disciplined program preserves the invariant.
LEMMA MutateInv ==
  ASSUME HeapAssumption, Disciplined, IInv, Mutate
  PROVE  IInv'
<1>0. TypeOK /\ code = {} /\ pc = "run" /\ NULL \in Ptr
  BY DEF IInv, Mutate, Ptr
<1>1. /\ Live \in SUBSET Cells
      /\ RootSet \cup held \subseteq Live
  BY <1>0, LiveFacts
<1>2. Live \subseteq Ptr
  BY <1>1 DEF Ptr
<1>3. \A s \in Symbols : env[s] \in Live \cup {NULL}
  BY <1>1 DEF RootSet
<1>4. ASSUME AllocLeaf PROVE IInv'
  <2>1. <<>> \in Seq(Ptr) /\ DOMAIN <<>> = {}
    OBVIOUS
  <2>2. "LEAF" \in Tags \ {"FREED"}
    BY DEF Tags
  <2>3. QED
    BY Zenon, <1>4, <2>1, <2>2, AllocOneInv DEF AllocLeaf
<1>5. ASSUME NEW a \in Live \cup {NULL}, NEW d \in Live \cup {NULL}, AllocCons(a, d)
      PROVE  IInv'
  <2>1. <<a, d>> \in Seq(Ptr)
    BY <1>0, <1>2
  <2>2. \A i \in DOMAIN <<a, d>> : <<a, d>>[i] \in Live \cup {NULL}
    OBVIOUS
  <2>3. "CONS" \in Tags \ {"FREED"}
    BY DEF Tags
  <2>4. QED
    BY Zenon, <1>5, <2>1, <2>2, <2>3, AllocOneInv DEF AllocCons
<1>6. ASSUME NEW body \in Live, NEW nested \in BOOLEAN, CompileFn(body, nested)
      PROVE  IInv'
  <2> DEFINE ks1 == <<NULL, body>>
             ks2 == <<CellAlloc(1)>>
  <2>1. /\ AllocTwo("CONS", ks1, "LAMBDA", ks2)
        /\ held' = held \cup {CellAlloc(2)}
        /\ fs_list' = fs_list
    BY <1>6 DEF CompileFn, Hold
  <2>2. code' = code
    BY <1>6 DEF CompileFn, Disciplined
  <2>3. CellAlloc(1) \in Cells
    BY <2>1, Served DEF IInv, AllocTwo
  <2>4. ks1 \in Seq(Ptr) /\ ks2 \in Seq(Ptr)
    BY <1>0, <1>2, <2>3 DEF Ptr
  <2>5. /\ \A i \in DOMAIN ks1 : ks1[i] \in Live \cup {CellAlloc(1), CellAlloc(2), NULL}
        /\ \A i \in DOMAIN ks2 : ks2[i] \in Live \cup {CellAlloc(1), CellAlloc(2), NULL}
    OBVIOUS
  <2>6. "CONS" \in Tags \ {"FREED"} /\ "LAMBDA" \in Tags \ {"FREED"}
    BY DEF Tags
  <2> HIDE DEF ks1, ks2
  <2>7. QED
    BY <2>1, <2>2, <2>4, <2>5, <2>6, AllocTwoInv
<1>7. ASSUME NEW default \in Live, AllocStructDef(default)
      PROVE  IInv'
  <2>1. <<default>> \in Seq(Ptr)
    BY <1>2
  <2>2. \A i \in DOMAIN <<default>> : <<default>>[i] \in Live \cup {NULL}
    OBVIOUS
  <2>3. "STRUCT_DEF" \in Tags \ {"FREED"}
    BY DEF Tags
  <2>4. QED
    BY Zenon, <1>7, <2>1, <2>2, <2>3, AllocOneInv DEF AllocStructDef
<1>8. ASSUME NEW def \in Live, AllocStruct(def)
      PROVE  IInv'
  <2> DEFINE ks1 == <<def, CellAlloc(2)>>
             ks2 == <<>>
  <2>1. /\ AllocTwo("STRUCT", ks1, "LEAF", ks2)
        /\ held' = held \cup {CellAlloc(1)}
        /\ fs_list' = fs_list /\ code' = code
    BY <1>8 DEF AllocStruct, Hold
  <2>2. 2 \in 1 .. 2
    OBVIOUS
  <2>3. CellAlloc(2) \in Cells
    BY <2>1, <2>2, Served DEF IInv, AllocTwo
  <2>4. ks1 \in Seq(Ptr) /\ ks2 \in Seq(Ptr)
    BY <1>2, <2>3 DEF Ptr
  <2>5. /\ \A i \in DOMAIN ks1 : ks1[i] \in Live \cup {CellAlloc(1), CellAlloc(2), NULL}
        /\ \A i \in DOMAIN ks2 : ks2[i] \in Live \cup {CellAlloc(1), CellAlloc(2), NULL}
    OBVIOUS
  <2>6. "STRUCT" \in Tags \ {"FREED"} /\ "LEAF" \in Tags \ {"FREED"}
    BY DEF Tags
  <2> HIDE DEF ks1, ks2
  <2>7. QED
    BY <2>1, <2>4, <2>5, <2>6, AllocTwoInv
<1>9. ASSUME NEW s \in Live, NEW c \in Live, Sput(s, c)
      PROVE  IInv'
  BY <1>9, SputInv
<1>10. ASSUME NEW path \in Live, NEW handler \in Live \cup {NULL}, Mount(path, handler)
       PROVE  IInv'
  <2> DEFINE ks1 == <<path, handler>>
             ks2 == <<CellAlloc(1), fs_list>>
  <2>1. /\ AllocTwo("FS", ks1, "CONS", ks2)
        /\ held' = held \cup {CellAlloc(1)}
        /\ fs_list' = CellAlloc(2) /\ code' = code
    BY <1>10 DEF Mount, Hold
  <2>2. CellAlloc(1) \in Cells
    BY <2>1, Served DEF IInv, AllocTwo
  <2>3. fs_list \in Live \cup {NULL}
    BY <1>1 DEF RootSet
  <2>4. ks1 \in Seq(Ptr) /\ ks2 \in Seq(Ptr)
    BY <1>0, <1>2, <2>2, <2>3 DEF Ptr
  <2>5. /\ \A i \in DOMAIN ks1 : ks1[i] \in Live \cup {CellAlloc(1), CellAlloc(2), NULL}
        /\ \A i \in DOMAIN ks2 : ks2[i] \in Live \cup {CellAlloc(1), CellAlloc(2), NULL}
    BY <2>3
  <2>6. "FS" \in Tags \ {"FREED"} /\ "CONS" \in Tags \ {"FREED"}
    BY DEF Tags
  <2> HIDE DEF ks1, ks2
  <2>7. QED
    BY <2>1, <2>4, <2>5, <2>6, AllocTwoInv
<1>11. ASSUME NEW c \in Live \cup code, Load(c) PROVE IInv'
  BY <1>0, <1>1, <1>3, <1>11, RootsInv DEF Load, Hold, TypeOK
<1>12. ASSUME NEW s \in Symbols, NEW c \in Live, Define(s, c) PROVE IInv'
  <2>1. env' = [env EXCEPT ![s] = c] /\ env \in [Symbols -> Ptr]
    BY <1>0, <1>12 DEF Define, TypeOK
  <2>2. /\ env' \in [Symbols -> Ptr]
        /\ \A x \in Symbols : env'[x] \in Live \cup {NULL}
    BY <1>2, <1>3, <2>1
  <2>3. QED
    BY <1>0, <1>1, <1>12, <2>2, RootsInv DEF Define
<1>13. ASSUME Return PROVE IInv'
  BY <1>0, <1>3, <1>13, RootsInv DEF Return, TypeOK
<1>14. ASSUME OutOfCells PROVE IInv'
  BY <1>0, <1>1, <1>3, <1>14, RootsInv DEF OutOfCells, TypeOK, rootVars
<1>15. QED
  BY <1>4, <1>5, <1>6, <1>7, <1>8, <1>9, <1>10, <1>11, <1>12, <1>13, <1>14
  DEF Mutate
=============================================================================
