----------------------------- MODULE GlobalEnv -----------------------------
(***************************************************************************)
(* The global environment: the hash table of sledge/strmap.c, with the     *)
(* env_entry records that insert_symbol (sledge/compiler_new.c) puts into  *)
(* it.  compile_expr looks a symbol up once and puts the address of its    *)
(* env_entry into the code (ARGT_ENV, load_cell), which loads the cell     *)
(* through it whenever it runs.                                            *)
(***************************************************************************)
EXTENDS Naturals, Sequences, SequencesExt

CONSTANTS
  Names,       \* symbol names
  LongNames,   \* those of MAX_SYMBOL_SIZE characters or more
  Values,      \* cells
  Undefined,   \* no cell
  Count,       \* map->count: number of buckets
  Hash         \* hash(name)

ASSUME EnvAssumption ==
  /\ LongNames \subseteq Names
  /\ Undefined \notin Values
  /\ Count \in Nat \ {0}
  /\ Hash \in [Names -> Nat]

VARIABLES
  buckets,   \* pairs of every bucket: <<key, value>>, value an entry
  entries,   \* env_entry records: <<name, cell>>, in order of allocation
  code,      \* <<name, entry>>: references in compiled code
  last       \* the last def or reference executed, with name and cell

vars == <<buckets, entries, code, last>>

Init ==
  /\ buckets = [b \in 0 .. Count - 1 |-> <<>>]
  /\ entries = <<>>
  /\ code = {}
  /\ last = <<>>

-----------------------------------------------------------------------------
(* strmap.c *)

Index(n) == Hash[n] % Count

NoPair == 0

\* get_pair: the first pair of the bucket with that key.
GetPairButLast(pairs, n) ==
  LET hits == {j \in 1 .. Len(pairs) - 1 : pairs[j].key = n} IN
  IF hits = {} THEN NoPair ELSE CHOOSE j \in hits : \A k \in hits : j <= k
GetPair(pairs, n) ==
  LET hits == {j \in 1 .. Len(pairs) : pairs[j].key = n} IN
  IF hits = {} THEN NoPair ELSE CHOOSE j \in hits : \A k \in hits : j <= k

\* sm_get: the entry, or NoPair
SmGet(n) ==
  LET pairs == buckets[Index(n)]
      j == GetPair(pairs, n) IN
  IF j = NoPair THEN NoPair ELSE pairs[j].value

\* sm_put: the pair's value is replaced, or a new pair comes last.
SmPut(n, e) ==
  LET b == Index(n)
      j == GetPair(buckets[b], n) IN
  IF j = NoPair
  THEN [buckets EXCEPT ![b] = Append(@, [key |-> n, value |-> e])]
  ELSE [buckets EXCEPT ![b][j].value = e]

\* sm_enum: the entries in the order they are visited.
SmEnum ==
  LET pairs == FlattenSeq([b \in 1 .. Count |-> buckets[b - 1]]) IN
  [j \in 1 .. Len(pairs) |-> pairs[j].value]

-----------------------------------------------------------------------------
(* compiler_new.c *)

\* insert_symbol: snprintf would have to cut the name.
NeverTooLong(n) == FALSE
TooLong(n) == n \in LongNames

\* insert_symbol: a known name's entry gets the new cell, so that code which
\* refers to it follows; an unknown name gets an entry.
InsertSymbolAnew(n, v) ==
  /\ IF TooLong(n) THEN UNCHANGED <<buckets, entries>>
     ELSE /\ entries' = Append(entries, [name |-> n, cell |-> v])
          /\ buckets' = SmPut(n, Len(entries) + 1)
  /\ last' = <<"def", n, v>>
  /\ UNCHANGED code
InsertSymbol(n, v) ==
  /\ IF SmGet(n) # NoPair
     THEN /\ entries' = [entries EXCEPT ![SmGet(n)].cell = v]
          /\ UNCHANGED buckets
     ELSE IF TooLong(n) THEN UNCHANGED <<buckets, entries>>
     ELSE /\ entries' = Append(entries, [name |-> n, cell |-> v])
          /\ buckets' = SmPut(n, Len(entries) + 1)
  /\ last' = <<"def", n, v>>
  /\ UNCHANGED code

\* compile_expr: a symbol that is found becomes a reference of the code.
Compile(n) ==
  /\ SmGet(n) # NoPair
  /\ code' = code \cup {<<n, SmGet(n)>>}
  /\ UNCHANGED <<buckets, entries, last>>

\* The code runs: jit_lea of the entry, jit_ldr of its cell.
Refer(r) ==
  /\ r \in code
  /\ last' = <<"refer", r[1], entries[r[2]].cell>>
  /\ UNCHANGED <<buckets, entries, code>>

Next ==
  \/ \E n \in Names : Compile(n) \/ \E v \in Values : InsertSymbol(n, v)
  \/ \E r \in code : Refer(r)

Spec == Init /\ [][Next]_vars

-----------------------------------------------------------------------------
(* Properties *)

\* Entries are numbered by allocation; only names that fit are entered.
TypeOK ==
  /\ buckets \in
       [0 .. Count - 1 -> Seq([key : Names, value : 1 .. Len(entries)])]
  /\ entries \in Seq([name : Names \ LongNames, cell : Values])
  /\ code \subseteq Names \X (1 .. Len(entries))
  /\ last = <<>> \/ last \in {"def", "refer"} \X Names \X Values

\* collect_garbage and list_symbols see every entry, and none of them twice:
\* sm_enum visits exactly the entries allocated so far.
EnumVisitsAll ==
  /\ IsInjective(SmEnum)
  /\ ToSet(SmEnum) = DOMAIN entries

\* An entry whose address is in compiled code stays the entry of its name.
EntriesStay == \A r \in code : SmGet(r[1]) = r[2]

Env ==
  INSTANCE Environment WITH
    bound <- [n \in Names |->
                IF SmGet(n) = NoPair THEN Undefined ELSE entries[SmGet(n)].cell]

\* The table is a map from names to cells, whatever collides: def binds one
\* name and no other, and code compiled before a def sees the new cell.
IsEnvironment == Env!Spec
=============================================================================
