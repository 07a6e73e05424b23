------------------------------ MODULE CellHeap ------------------------------
(***************************************************************************)
(* The cell heap of sledge/alloc.c: cell_alloc, the alloc_* constructors,  *)
(* and collect_garbage with mark_tree's recursion and the sweep loop, one  *)
(* step per call, return or loop iteration.                                *)
(*                                                                         *)
(* A cell is its tag and "kids", the pointers mark_tree follows for that   *)
(* tag: ar and dr of a CONS, the args/body cons of a LAMBDA, the elements  *)
(* of a STRUCT, the mount point and handlers of an FS.  Leaf cells (INT,   *)
(* SYM, STR, BYTES...) have none; leaves only ever reached through one     *)
(* parent (field names, a struct's own name) are folded into the parent.   *)
(*                                                                         *)
(* "held" is what the running program and the C code that runs it have in  *)
(* registers, on the native stack and in C locals: the collector never     *)
(* sees it, because its stack walk waits for a word equal to               *)
(* STACK_FRAME_MARKER (alloc.c:201) and compiled functions push their own  *)
(* address ORed with that marker (compiler_new.c:939), so sw_state stays 0.*)
(***************************************************************************)
EXTENDS Integers, Sequences, FiniteSets

CONSTANTS
  MAX_CELLS,    \* cells reserved by init_allocator
  Symbols,      \* names of the global environment
  NULL,         \* the C null pointer
  CStackDepth,  \* nested mark_tree calls the native stack has room for
  MaxHeld,      \* model bound: temporaries a program keeps at a time
  Programs      \* what the programs being run do: use "cons", "fn", "struct"
                \* or "mount", "nest" fn inside fn, tie "cycle"s with sput,
                \* "hold" temporaries across a call of (gc)

ASSUME HeapAssumption ==
  /\ MAX_CELLS \in Nat \ {0}
  /\ CStackDepth \in Nat
  /\ MaxHeld \in Nat
  /\ NULL \notin Nat
  /\ Programs \subseteq
       {"cons", "fn", "struct", "mount", "nest", "cycle", "hold"}

Cells == 0 .. MAX_CELLS - 1
Ptr   == Cells \cup {NULL}
Tags  == {"FREED", "LEAF", "CONS", "LAMBDA", "STRUCT_DEF", "STRUCT", "FS"}

VARIABLES
  tag,                 \* Cell.tag without the mark bit
  kids,                \* the pointers of a cell that mark_tree follows
  marked,              \* cells with TAG_MARK set
  cells_used,
  free_list,           \* free_list[0 .. free_list_avail-1]
  free_list_consumed,
  env,                 \* global_env: the cell of each symbol's entry
  fs_list,             \* the static list of mounted filesystems
  held,                \* cells in registers, native stack and C locals
  code,                \* LAMBDA cells whose address is part of compiled code
  pc,                  \* "run", "mark", "sweep", "exit" or "crash"
  roots,               \* roots collect_garbage has not passed to mark_tree yet
  calls,               \* active mark_tree calls, innermost last
  swept                \* the sweep loop's i

heapVars == <<tag, kids, cells_used, free_list, free_list_consumed>>
rootVars == <<env, fs_list, held, code>>
gcVars   == <<marked, roots, calls, swept>>
vars     == <<heapVars, rootVars, gcVars, pc>>

-----------------------------------------------------------------------------
(* Reachability *)

\* A heap graph k maps each cell to its sequence of pointers.
Children(k, c) == {k[c][i] : i \in DOMAIN k[c]} \ {NULL}

Closed(k, S) == \A c \in S : Children(k, c) \subseteq S

\* The least closed set of cells of k that contains R.
Reach(k, R) ==
  {c \in Cells :
     \A S \in SUBSET Cells : R \subseteq S /\ Closed(k, S) => c \in S}

RootSet == ({env[s] : s \in Symbols} \cup {fs_list}) \ {NULL}

\* What a program can get at from the environment, the mounts and its
\* temporaries.
Live == Reach(kids, RootSet \cup held)

-----------------------------------------------------------------------------
(* cell_alloc *)

Avail == Len(free_list) - free_list_consumed

Recycled(n) == IF n <= Avail THEN n ELSE Avail

\* The cell that the k-th of the next cell_alloc calls returns.
CellAlloc(k) ==
  IF k <= Avail THEN free_list[free_list_consumed + k]
                ELSE cells_used + (k - Avail) - 1

FitsOneMore(n) == cells_used + (n - Recycled(n)) <= MAX_CELLS + 1
Fits(n) == cells_used + (n - Recycled(n)) <= MAX_CELLS

ConsumeNot(n) ==
  /\ Fits(n)
  /\ cells_used' = cells_used + (n - Recycled(n))
  /\ UNCHANGED <<free_list, free_list_consumed>>

\* n calls of cell_alloc in a row.
Consume(n) ==
  /\ Fits(n)
  /\ free_list_consumed' = free_list_consumed + Recycled(n)
  /\ cells_used' = cells_used + (n - Recycled(n))
  /\ UNCHANGED free_list

Hold(S) ==
  /\ held' = held \cup S
  /\ Cardinality(held') <= MaxHeld

\* One cell with the given tag and kids; the caller keeps its address.
AllocOne(t, ks) ==
  LET c == CellAlloc(1) IN
  /\ pc = "run"
  /\ Consume(1)
  /\ tag'  = [tag EXCEPT ![c] = t]
  /\ kids' = [kids EXCEPT ![c] = ks]
  /\ Hold({c})
  /\ UNCHANGED <<env, fs_list, gcVars, pc>>

\* Two cells, the second of them the one the caller keeps.
AllocTwo(t1, ks1, t2, ks2) ==
  LET c1 == CellAlloc(1)
      c2 == CellAlloc(2) IN
  /\ pc = "run"
  /\ Consume(2)
  /\ tag'  = [tag EXCEPT ![c1] = t1, ![c2] = t2]
  /\ kids' = [kids EXCEPT ![c1] = ks1, ![c2] = ks2]
  /\ UNCHANGED <<env, gcVars, pc>>

-----------------------------------------------------------------------------
(* The operations of a running program *)

\* alloc_int, alloc_sym, alloc_num_bytes, alloc_string_copy, alloc_error...
AllocLeaf == AllocOne("LEAF", <<>>) /\ UNCHANGED code

\* alloc_cons: builtins cons and list, the reader, alloc_list.
AllocCons(a, d) == AllocOne("CONS", <<a, d>>) /\ UNCHANGED code

\* BUILTIN_FN: alloc_lambda(alloc_cons(fn_args, fn_body)).  A fn inside the
\* body of another leaves its LAMBDA's address in the outer one's code.
CompileFn(body, nested) ==
  LET sig == CellAlloc(1)
      lambda == CellAlloc(2) IN
  /\ nested => "nest" \in Programs
  /\ AllocTwo("CONS", <<NULL, body>>, "LAMBDA", <<sig>>)
  /\ Hold({lambda})
  /\ code' = IF nested THEN code \cup {lambda} ELSE code
  /\ UNCHANGED fs_list

\* BUILTIN_STRUCT: alloc_struct_def filled with the evaluated default.
AllocStructDef(default) ==
  AllocOne("STRUCT_DEF", <<default>>) /\ UNCHANGED code

\* alloc_struct: element 0 is the definition, the field a clone of its
\* default.  (A default that is a list is cloned by further alloc_cons.)
AllocStruct(def) ==
  LET clone  == CellAlloc(2)
      result == CellAlloc(1) IN
  /\ tag[def] = "STRUCT_DEF"
  /\ kids[def][1] # NULL /\ tag[kids[def][1]] = "LEAF"
  /\ AllocTwo("STRUCT", <<def, clone>>, "LEAF", <<>>)
  /\ Hold({result})
  /\ UNCHANGED <<fs_list, code>>

\* fs_mount: an FS cell consed onto fs_list.
Mount(path, handler) ==
  LET fs_cell == CellAlloc(1) IN
  /\ AllocTwo("FS", <<path, handler>>, "CONS", <<fs_cell, fs_list>>)
  /\ fs_list' = CellAlloc(2)
  /\ Hold({fs_cell})
  /\ UNCHANGED code

\* A pointer is loaded: a global, car, cdr, sget, a constant of the code.
Load(c) ==
  /\ pc = "run"
  /\ c \notin held
  /\ Hold({c})
  /\ UNCHANGED <<heapVars, env, fs_list, code, gcVars, pc>>

\* insert_symbol: def of a new or a known name.
Define(s, c) ==
  /\ pc = "run"
  /\ env' = [env EXCEPT ![s] = c]
  /\ UNCHANGED <<heapVars, fs_list, held, code, gcVars, pc>>

\* BUILTIN_SPUT: the field of an existing struct is overwritten.
Sput(s, c) ==
  /\ pc = "run"
  /\ tag[s] = "STRUCT"
  /\ s \in Reach(kids, {c}) => "cycle" \in Programs
  /\ kids' = [kids EXCEPT ![s][2] = c]
  /\ UNCHANGED <<tag, cells_used, free_list, free_list_consumed, rootVars,
                 gcVars, pc>>

\* The expression has been evaluated: registers and stack are reused.
Return ==
  /\ pc = "run"
  /\ held # {}
  /\ held' = {}
  /\ UNCHANGED <<heapVars, env, fs_list, code, gcVars, pc>>

\* cell_alloc with no free cell and MAX_CELLS used: exit(1).
OutOfCells ==
  /\ pc = "run"
  /\ ~Fits(1)
  /\ pc' = "exit"
  /\ UNCHANGED <<heapVars, rootVars, gcVars>>

-----------------------------------------------------------------------------
(* collect_garbage *)

\* What collect_garbage hands to mark_tree: the cell of every entry of the
\* environment, then fs_list.
GcRootsEnvOnly == {env[s] : s \in Symbols} \ {NULL}
GcRoots == ({env[s] : s \in Symbols} \cup {fs_list}) \ {NULL}

StartGc ==
  /\ pc = "run"
  /\ held # {} => "hold" \in Programs
  /\ roots' = GcRoots
  /\ pc' = "mark"
  /\ UNCHANGED <<heapVars, rootVars, marked, calls, swept>>

\* The pointers mark_tree follows from c under its present tag.
FollowedCarOnly(c) ==
  IF tag[c] = "FREED" \/ kids[c] = <<>> THEN <<>> ELSE <<kids[c][1]>>
Followed(c) == IF tag[c] = "FREED" THEN <<>> ELSE kids[c]

\* A mark_tree call that has been entered with a non-null, unmarked cell.
Entered(c) == [cell |-> c, next |-> 1]

Top == calls[Len(calls)]

\* The innermost call goes on to its next pointer.
SamePointer == calls
NextPointer == [calls EXCEPT ![Len(calls)].next = @ + 1]

\* sm_enum hands the next entry's cell to mark_tree, or fs_list is next.
MarkRoot(r) ==
  /\ pc = "mark"
  /\ calls = <<>>
  /\ roots' = roots \ {r}
  /\ calls' = IF r \in marked THEN <<>> ELSE <<Entered(r)>>
  /\ UNCHANGED <<heapVars, rootVars, marked, swept, pc>>

\* The innermost mark_tree call looks at a pointer: nothing to do, a nested
\* call, or no stack left for one.
MarkKid ==
  /\ pc = "mark"
  /\ calls # <<>>
  /\ Top.next <= Len(Followed(Top.cell))
  /\ LET kid == Followed(Top.cell)[Top.next] IN
     \/ /\ kid = NULL \/ kid \in marked
        /\ calls' = NextPointer
        /\ UNCHANGED pc
     \/ /\ kid # NULL /\ kid \notin marked
        /\ Len(calls) < CStackDepth
        /\ calls' = Append(NextPointer, Entered(kid))
        /\ UNCHANGED pc
     \/ /\ kid # NULL /\ kid \notin marked
        /\ Len(calls) >= CStackDepth
        /\ pc' = "crash"
        /\ UNCHANGED calls
  /\ UNCHANGED <<heapVars, rootVars, marked, roots, swept>>

\* Its pointers are done: only now is the cell itself marked (line 159).
MarkSelf ==
  /\ pc = "mark"
  /\ calls # <<>>
  /\ Top.next > Len(Followed(Top.cell))
  /\ marked' = marked \cup {Top.cell}
  /\ calls' = SubSeq(calls, 1, Len(calls) - 1)
  /\ UNCHANGED <<heapVars, rootVars, roots, swept, pc>>

StartSweepNoReset ==
  /\ pc = "mark"
  /\ calls = <<>> /\ roots = {}
  /\ pc' = "sweep"
  /\ swept' = 0
  /\ UNCHANGED <<heapVars, rootVars, marked, roots, calls>>

StartSweep ==
  /\ pc = "mark"
  /\ calls = <<>> /\ roots = {}
  /\ pc' = "sweep"
  /\ swept' = 0
  /\ free_list' = <<>>
  /\ free_list_consumed' = 0
  /\ UNCHANGED <<tag, kids, cells_used, rootVars, marked, roots, calls>>

\* The sweep leaves c alone: it is marked, or a LAMBDA ("we cannot free
\* LAMBDAS currently", lines 250-251).
KeepsConses(c) == c \in marked \/ tag[c] \in {"LAMBDA", "CONS"}
Keeps(c) == c \in marked \/ tag[c] = "LAMBDA"

\* One iteration of the sweep loop.
SweepCell ==
  /\ pc = "sweep"
  /\ swept < cells_used
  /\ IF Keeps(swept)
     THEN UNCHANGED <<tag, free_list>>
     ELSE /\ tag' = [tag EXCEPT ![swept] = "FREED"]
          /\ free_list' = Append(free_list, swept)
  /\ marked' = marked \ {swept}
  /\ swept' = swept + 1
  /\ UNCHANGED <<kids, cells_used, free_list_consumed, rootVars, roots, calls,
                 pc>>

\* return alloc_int(gc)
FinishGc ==
  /\ pc = "sweep"
  /\ swept = cells_used
  /\ IF Fits(1)
     THEN /\ Consume(1)
          /\ tag'  = [tag EXCEPT ![CellAlloc(1)] = "LEAF"]
          /\ kids' = [kids EXCEPT ![CellAlloc(1)] = <<>>]
          /\ held' = held \cup {CellAlloc(1)}
          /\ pc' = "run"
     ELSE /\ pc' = "exit"
          /\ UNCHANGED <<heapVars, held>>
  /\ UNCHANGED <<env, fs_list, code, gcVars>>

-----------------------------------------------------------------------------
(* Specification *)

\* filesystems_init has allocated the empty mount list.
Init ==
  /\ tag = [c \in Cells |-> IF c = 0 THEN "CONS" ELSE "FREED"]
  /\ kids = [c \in Cells |-> IF c = 0 THEN <<NULL, NULL>> ELSE <<>>]
  /\ cells_used = 1
  /\ free_list = <<>> /\ free_list_consumed = 0
  /\ env = [s \in Symbols |-> NULL]
  /\ fs_list = 0
  /\ held = {} /\ code = {}
  /\ marked = {} /\ roots = {} /\ calls = <<>> /\ swept = 0
  /\ pc = "run"

Mutate ==
  /\ pc = "run"
  /\ LET live == Live IN
     \/ AllocLeaf
     \/ /\ "cons" \in Programs
        /\ \E a, d \in live \cup {NULL} : AllocCons(a, d)
     \/ /\ "fn" \in Programs
        /\ \E body \in live, nested \in BOOLEAN : CompileFn(body, nested)
     \/ /\ "struct" \in Programs
        /\ \/ \E default \in live : AllocStructDef(default)
           \/ \E def \in live : AllocStruct(def)
           \/ \E s, c \in live : Sput(s, c)
     \/ /\ "mount" \in Programs
        /\ \E path \in live, handler \in live \cup {NULL} : Mount(path, handler)
     \/ \E c \in live \cup code : Load(c)
     \/ \E s \in Symbols, c \in live : Define(s, c)
     \/ Return
     \/ OutOfCells

Mark == (\E r \in roots : MarkRoot(r)) \/ MarkKid \/ MarkSelf

Gc == StartGc \/ Mark \/ StartSweep \/ SweepCell \/ FinishGc

Next == Mutate \/ Gc

Spec == Init /\ [][Next]_vars

\* collect_garbage is one C call: once entered, the processor runs its steps.
FairSpec == Spec /\ WF_vars(Mark \/ StartSweep \/ SweepCell \/ FinishGc)

-----------------------------------------------------------------------------
(* Properties *)

\* Pointers and counters stay in the heap init_allocator reserved.
TypeOK ==
  /\ tag \in [Cells -> Tags]
  /\ kids \in [Cells -> Seq(Ptr)]
  /\ marked \subseteq Cells
  /\ cells_used \in 0 .. MAX_CELLS
  /\ free_list \in Seq(Cells)
  /\ free_list_consumed \in 0 .. Len(free_list)
  /\ env \in [Symbols -> Ptr]
  /\ fs_list \in Ptr
  /\ held \subseteq Cells /\ code \subseteq Cells
  /\ pc \in {"run", "mark", "sweep", "exit", "crash"}
  /\ roots \subseteq Cells
  /\ calls \in Seq([cell : Cells, next : Nat \ {0}])
  /\ swept \in 0 .. MAX_CELLS

\* The part of free_list that cell_alloc will still hand out.
FreeCells == {free_list[i] : i \in free_list_consumed + 1 .. Len(free_list)}

\* cell_alloc never hands out a cell twice: what is left of the free list
\* names distinct cells below cells_used, all of them freed by the sweep.
FreeListSound ==
  /\ \A i, j \in free_list_consumed + 1 .. Len(free_list) :
       free_list[i] = free_list[j] => i = j
  /\ \A c \in FreeCells : c < cells_used /\ tag[c] = "FREED"

\* Nothing a program can reach through the environment, the mounts or its
\* own temporaries has been given back by collect_garbage.
LiveNeverFree == \A c \in Live : c < cells_used /\ tag[c] # "FREED"

\* When marking is over the marked cells are exactly the reachable ones.
MarkedExactly ==
  pc = "sweep" /\ swept = 0 => marked = Reach(kids, RootSet)

\* No step but sput changes what a live cell holds: no allocation recycles
\* it, no sweep retags it.
LiveCellsKeepContents ==
  [][\A c \in Live : /\ tag'[c] = tag[c]
                     /\ kids'[c] = kids[c] \/ tag[c] = "STRUCT"]_vars

\* A finished collection has recycled all garbage but the LAMBDA cells.
NoGarbageLeft ==
  [][pc = "sweep" /\ pc' = "run" =>
       \A c \in 0 .. cells_used - 1 :
         c \in Live \/ tag[c] = "LAMBDA" \/ c \in FreeCells]_vars

\* No cell that marking can reach leads back to itself.
Acyclic ==
  \A c \in Reach(kids, RootSet) : c \notin Reach(kids, Children(kids, c))

\* "Finds all reachable objects and frees the rest": a collection returns to
\* the program, unless the heap is full.  (mark_tree marks a cell only after
\* what it points to, so a cycle exhausts the native stack.)
GcReturns == pc = "mark" /\ Acyclic ~> pc \in {"run", "exit"}
=============================================================================
