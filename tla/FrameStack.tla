----------------------------- MODULE FrameStack -----------------------------
(***************************************************************************)
(* compile_expr's picture of the native stack (sledge/compiler_new.c).     *)
(*                                                                         *)
(* While compile_expr emits the code of one fn body it keeps frame->sp,    *)
(* the number of words that code has pushed, and records for every         *)
(* argument it pushes the sp at which it did.  A load addresses the word   *)
(* sp - slot words below the top (load_cell, load_int), and so it must     *)
(* find there the word the slot stands for.  Locals and parameters beyond  *)
(* the registers are addressed the same way with slots below zero.         *)
(*                                                                         *)
(* The model runs the compiler over all bodies up to a nesting depth, and  *)
(* the code it emits along with it: "stack" is what that code's stack      *)
(* holds at the point being compiled.  Code that branches is covered arm   *)
(* by arm: every form leaves the stack as it found it.                     *)
(***************************************************************************)
EXTENDS Integers, Sequences, SequencesExt

CONSTANTS
  ARG_SPILLOVER,  \* parameters passed in registers (3; 0 on x86)
  MaxParams,      \* model bound: parameters of the fn
  MaxLets,        \* model bound: num_lets of the fn
  MaxArgs,        \* model bound: arguments of an expression (< MAXARGS)
  MaxDepth,       \* model bound: nested compile_expr calls
  Forms,          \* what bodies are made of: subset of AllForms
  Ascending       \* jit_push(r1,r2) leaves r2 on top (false: ARM's stmfd)

AllForms == {"prim", "call", "let", "if", "do", "list", "struct"}

ASSUME FrameAssumption ==
  /\ ARG_SPILLOVER \in Nat /\ MaxParams \in Nat /\ MaxLets \in Nat
  /\ MaxArgs \in Nat /\ MaxDepth \in Nat
  /\ Forms \subseteq AllForms
  /\ Ascending \in BOOLEAN

VARIABLES
  params,    \* parameters of the fn being compiled
  num_lets,  \* words analyze_fn reserves for its locals
  structs,   \* ghost: a struct form has been started in it
  locals,    \* frame->locals
  sp,        \* frame->sp
  stack,     \* words on the native stack, the top one last
  regs,      \* words in the registers LBDREG, LBDREG+1...
  acts,      \* compile_expr calls under way, innermost last
  read,      \* <<meant, found>> for every load of the last step
  done       \* the fn's code is complete

frameVars == <<params, num_lets, structs>>
vars == <<frameVars, locals, sp, stack, regs, acts, read, done>>

-----------------------------------------------------------------------------
(* Words and slots *)

Param(j) == <<"param", j>>
Local(i) == <<"local", i>>
Value(d, i) == <<"value", d, i>>   \* of argument i of the call at depth d

RegParams == IF params < ARG_SPILLOVER THEN params ELSE ARG_SPILLOVER

\* Slot of parameter j when it is on the stack (below the locals, the LAMBDA
\* word and the return address).
SpillSlotLow(lets, j) == -lets - (j - ARG_SPILLOVER) - 1
SpillSlot(lets, j) == -lets - (j - ARG_SPILLOVER) - 2

ConstArg == [type |-> "CONST", slot |-> 0, word |-> <<"const">>]
ParamArg(j) ==
  IF j < ARG_SPILLOVER
  THEN [type |-> "REG", slot |-> j, word |-> Param(j)]
  ELSE [type |-> "STACK", slot |-> SpillSlot(num_lets, j), word |-> Param(j)]
LocalArg(i) == [type |-> "STACK", slot |-> -i, word |-> Local(i)]

\* The symbols a body can name: get_sym_frame_idx finds them in the frame.
FrameArgs == {ParamArg(j) : j \in 0 .. params - 1}
               \cup {LocalArg(i) : i \in 0 .. locals - 1}

\* The word n words below the top of the stack s.
Below(s, n) ==
  IF Len(s) - n \in 1 .. Len(s) THEN s[Len(s) - n] ELSE <<"outside">>

\* What load_cell or load_int of a finds, on stack s with frame->sp = p.
Found(a, s, p) ==
  CASE a.type = "CONST" -> a.word
    [] a.type = "REG"   -> regs[a.slot + 1]
    [] a.type = "STACK" -> Below(s, p - a.slot)

Loads(as) == {<<a.word, Found(a, stack, sp)>> : a \in as}

\* jit_str_stack: the value of a is stored on stack s with frame->sp = p.
Stored(a, s, p) ==
  LET i == Len(s) - (p - a.slot) IN
  IF a.type = "STACK" /\ i \in 1 .. Len(s) THEN [s EXCEPT ![i] = a.word] ELSE s

Drop(s, n) == SubSeq(s, 1, Len(s) - n)

\* Where a register saved by push_frame_regs is, with n words pushed since its
\* first one (compiler_new.c:1729).
SavedRegOneUp(n, q) == n - q
SavedReg(n, q) == n - q - 1

\* push_frame_regs; pop_frame_regs undoes it.
PushRegs(s, n) ==
  s \o (IF Ascending THEN SubSeq(regs, 1, n) ELSE Reverse(SubSeq(regs, 1, n)))

\* The stack of a fn with the given number of local words, once entered by
\* jit_callr on stack s: return address, LAMBDA word, locals.
Entered(s, lets) ==
  s \o <<<<"ret">>, <<"lambda">>>> \o [i \in 1 .. lets |-> Local(lets - i)]

-----------------------------------------------------------------------------
(* compile_expr *)

Depth == Len(acts)
Top == acts[Depth]

\* A compile_expr call: its operator, argdefs, args_pushed, and how far the
\* forms that compile subexpressions themselves have come.
Call(op) == [op |-> op, args |-> <<>>, pushed |-> 0, n |-> 0]

\* Forms whose arguments are compiled eagerly by the do-while loop.
Eager == {"prim", "call", "let", "if"}

\* The loop is not over: a let takes one value, an if one condition.
TakesArg(act) ==
  /\ act.op \in Eager /\ act.n = 0
  /\ Len(act.args) < (IF act.op \in {"let", "if"} THEN 1 ELSE MaxArgs)

\* Subexpressions compiled by the form itself: then and else (after the
\* condition, n = 1), the forms of a do, the items of a list, the fields of a
\* struct (n counts two words for each).
TakesBody(act) ==
  CASE act.op = "if"     -> act.n \in 1 .. 2
    [] act.op = "struct" -> act.n < 2 * MaxArgs
    [] act.op \in {"do", "list"} -> act.n < MaxArgs
    [] OTHER -> FALSE

TakesExpr(act) == TakesArg(act) \/ TakesBody(act)

\* What the code has pushed before a subexpression of act is evaluated: struct
\* pushes its name once and the key of each field, uncounted by frame->sp.
Prepared(act, s) ==
  IF act.op # "struct" THEN s
  ELSE (IF act.n = 0 THEN Append(s, <<"name">>) ELSE s) \o <<<<"key">>>>

\* The call at depth d gets the value of a subexpression, whose code left
\* stack s and frame->sp = p.  An argument is pushed and its slot recorded.
Delivered(d, s, p) ==
  LET act == acts[d]
      i == Len(act.args) + 1
      arg == [type |-> "STACK", slot |-> p + 1, word |-> Value(d, i)] IN
  CASE TakesArg(act) ->
         [act |-> [act EXCEPT !.args = Append(@, arg), !.pushed = @ + 1],
          stack |-> Append(s, Value(d, i)), sp |-> p + 1]
    [] act.op = "list" ->
         [act |-> [act EXCEPT !.n = @ + 1],
          stack |-> Append(s, <<"item">>), sp |-> p + 1]
    [] act.op = "struct" ->
         [act |-> [act EXCEPT !.n = @ + 2],
          stack |-> Append(s, <<"field">>), sp |-> p + 2]
    [] OTHER ->
         [act |-> [act EXCEPT !.n = @ + 1], stack |-> s, sp |-> p]

\* A constant or a symbol of the frame as an argument: nothing is emitted yet.
SimpleArg(a) ==
  /\ ~done /\ Depth > 0 /\ TakesArg(Top)
  /\ acts' = [acts EXCEPT ![Depth].args = Append(@, a)]
  /\ read' = {}
  /\ UNCHANGED <<frameVars, locals, sp, stack, regs, done>>

\* compile_expr of a subexpression (op ...) starts.
Enter(op) ==
  /\ ~done /\ Depth > 0 /\ Depth < MaxDepth /\ TakesExpr(Top)
  /\ stack' = Prepared(Top, stack)
  /\ acts' = Append(acts, Call(op))
  /\ structs' = (structs \/ op = "struct")
  /\ read' = {}
  /\ UNCHANGED <<params, num_lets, locals, sp, regs, done>>

\* compile_expr of a symbol in a body: loaded into R0 at once.
Atom(a) ==
  /\ ~done /\ Depth > 0 /\ TakesBody(Top)
  /\ LET s == Prepared(Top, stack)
         r == Delivered(Depth, s, sp) IN
     /\ read' = {<<a.word, Found(a, s, sp)>>}
     /\ acts' = [acts EXCEPT ![Depth] = r.act]
     /\ stack' = r.stack /\ sp' = r.sp
  /\ UNCHANGED <<frameVars, locals, regs, done>>

\* clean_return: the arguments are dropped, and the caller goes on.
CleanReturn(s, p) ==
  LET s1 == Drop(s, Top.pushed)
      p1 == p - Top.pushed
      r  == Delivered(Depth - 1, s1, p1) IN
  IF Depth = 1
  THEN stack' = s1 /\ sp' = p1 /\ acts' = <<>>
  ELSE /\ stack' = r.stack /\ sp' = r.sp
       /\ acts' = [Front(acts) EXCEPT ![Depth - 1] = r.act]

\* A builtin that loads its arguments and runs (arithmetic, cons, car, get,
\* def, print, send...).  Those that save the frame registers around their
\* call restore them before they return.
Prim ==
  /\ ~done /\ Depth > 0 /\ Top.op = "prim"
  /\ read' = Loads(ToSet(Top.args))
  /\ CleanReturn(stack, sp)
  /\ UNCHANGED <<frameVars, locals, regs, done>>

\* The condition of an if is loaded.
IfCond ==
  /\ ~done /\ Depth > 0 /\ Top.op = "if" /\ Top.n = 0 /\ Len(Top.args) = 1
  /\ read' = Loads(ToSet(Top.args))
  /\ acts' = [acts EXCEPT ![Depth].n = 1]
  /\ UNCHANGED <<frameVars, locals, sp, stack, regs, done>>

\* An if (which cannot do without its else), a do or a while is complete.
EndBody ==
  /\ ~done /\ Depth > 0
  /\ \/ Top.op = "if" /\ Top.n = 3
     \/ Top.op = "do" /\ Top.n >= 1
  /\ read' = {}
  /\ CleanReturn(stack, sp)
  /\ UNCHANGED <<frameVars, locals, regs, done>>

\* let: the value is loaded and stored in the word of a new local (analyze_fn
\* has counted it), or of a known local or parameter.
LetAlwaysNew(a) ==
  /\ ~done /\ Depth > 0 /\ Top.op = "let" /\ Len(Top.args) = 1
  /\ a \in FrameArgs \/ (a = LocalArg(locals) /\ locals < num_lets)
  /\ locals' = locals + 1
  /\ read' = Loads(ToSet(Top.args)) \cup Loads({a})
  /\ CleanReturn(Stored(a, stack, sp), sp)
  /\ UNCHANGED <<frameVars, regs, done>>
Let(a) ==
  /\ ~done /\ Depth > 0 /\ Top.op = "let" /\ Len(Top.args) = 1
  /\ a \in FrameArgs \/ (a = LocalArg(locals) /\ locals < num_lets)
  /\ locals' = IF a \in FrameArgs THEN locals ELSE locals + 1
  /\ read' = Loads(ToSet(Top.args)) \cup Loads({a})
  /\ CleanReturn(Stored(a, stack, sp), sp)
  /\ UNCHANGED <<frameVars, regs, done>>

\* list: the items are popped again while they are consed up.
EndListOneLeft ==
  /\ ~done /\ Depth > 0 /\ Top.op = "list"
  /\ read' = {}
  /\ CleanReturn(Drop(stack, Top.n), sp - Top.n + 1)
  /\ UNCHANGED <<frameVars, locals, regs, done>>
EndList ==
  /\ ~done /\ Depth > 0 /\ Top.op = "list"
  /\ read' = {}
  /\ CleanReturn(Drop(stack, Top.n), sp - Top.n)
  /\ UNCHANGED <<frameVars, locals, regs, done>>

\* struct: n words and the name are popped, each counted by frame->sp.
EndStructKeepsName ==
  /\ ~done /\ Depth > 0 /\ Top.op = "struct"
  /\ LET s == IF Top.n = 0 THEN Append(stack, <<"name">>) ELSE stack IN
     CleanReturn(Drop(s, Top.n), sp - Top.n)
  /\ read' = {}
  /\ UNCHANGED <<frameVars, locals, regs, done>>
EndStruct ==
  /\ ~done /\ Depth > 0 /\ Top.op = "struct"
  /\ LET s == IF Top.n = 0 THEN Append(stack, <<"name">>) ELSE stack IN
     CleanReturn(Drop(s, Top.n + 1), sp - (Top.n + 1))
  /\ read' = {}
  /\ UNCHANGED <<frameVars, locals, regs, done>>

\* The call of a lambda: the frame registers are saved, arguments from
\* ARG_SPILLOVER on pushed, last one first (every push moves the top and
\* frame->sp alike), the others moved to registers; a parameter of this fn is
\* taken from the saved registers, as its own may already hold an argument.
\* The callee finds them in its registers and below its own frame; afterwards
\* all of it is popped.
Lambda ==
  LET args   == Top.args
      n      == Len(args)
      spo    == IF n > ARG_SPILLOVER THEN n - ARG_SPILLOVER ELSE 0
      saved  == PushRegs(stack, RegParams)
      p      == sp + RegParams
      full   == saved \o [k \in 1 .. spo |-> Found(args[n - k + 1], saved, p)]
      inReg(a) == IF a.type = "REG"
                  THEN Below(full, SavedReg(RegParams + spo, a.slot))
                  ELSE Found(a, full, p + spo)
      inCallee(j) == IF j < ARG_SPILLOVER
                     THEN inReg(args[j + 1])
                     ELSE Below(Entered(full, MaxLets), -SpillSlot(MaxLets, j)) IN
  /\ ~done /\ Depth > 0 /\ Top.op = "call"
  /\ read' = {<<args[j + 1].word, inCallee(j)>> : j \in 0 .. n - 1}
  /\ CleanReturn(stack, sp)
  /\ UNCHANGED <<frameVars, locals, regs, done>>

\* The end of the fn: locals and LAMBDA word are dropped, and jit_ret takes
\* what is then on top for the return address.
Ret ==
  /\ ~done /\ Depth = 0
  /\ LET s == Drop(stack, num_lets + 1) IN
     read' = {<<<<"ret">>, Below(s, 0)>>}
  /\ done' = TRUE
  /\ UNCHANGED <<frameVars, locals, sp, stack, regs, acts>>

\* Undefined symbols, wrong types, missing arguments: every compile_expr call
\* returns 0 and the code is discarded.
Fail ==
  /\ ~done /\ Depth > 0
  /\ done' = TRUE /\ acts' = <<>> /\ read' = {}
  /\ UNCHANGED <<frameVars, locals, sp, stack, regs>>

-----------------------------------------------------------------------------
(* Specification *)

Init ==
  /\ params \in 0 .. MaxParams
  /\ num_lets \in 0 .. MaxLets
  /\ locals = 0 /\ sp = 0
  /\ stack = Entered([k \in 1 .. params - RegParams |-> Param(params - k)],
                     num_lets)
  /\ regs = [q \in 1 .. RegParams |-> Param(q - 1)]
  /\ \E op \in Forms : acts = <<Call(op)>> /\ structs = (op = "struct")
  /\ read = {} /\ done = FALSE

Next ==
  \/ \E a \in FrameArgs \cup {ConstArg} : SimpleArg(a) \/ Atom(a)
  \/ \E op \in Forms : Enter(op)
  \/ Prim \/ IfCond \/ EndBody \/ EndList \/ EndStruct \/ Lambda
  \/ \E a \in FrameArgs \cup {LocalArg(locals)} : Let(a)
  \/ Ret \/ Fail

Spec == Init /\ [][Next]_vars

-----------------------------------------------------------------------------
(* Properties *)

Base == params - RegParams + 2 + num_lets

\* Locals fit the words analyze_fn reserved, and no more arguments are
\* recorded as pushed than the expression has.
TypeOK ==
  /\ params \in 0 .. MaxParams /\ num_lets \in 0 .. MaxLets
  /\ locals \in 0 .. num_lets
  /\ sp \in Int /\ done \in BOOLEAN /\ structs \in BOOLEAN
  /\ Len(acts) <= MaxDepth
  /\ \A d \in 1 .. Depth :
       /\ acts[d].op \in Forms
       /\ acts[d].pushed <= Len(acts[d].args)
       /\ acts[d].n \in 0 .. 2 * MaxArgs + 1

\* "record sp at this point": frame->sp is the number of words the code has
\* pushed in its frame whenever compile_expr starts on an expression, loads
\* an argument or returns.  (struct pushes its name and keys uncounted.)
SpCountsPushes == ~structs => Len(stack) = Base + sp

\* Every load of the emitted code finds the word its argument stands for: an
\* argument the value computed for it, a symbol its own local or parameter,
\* a called lambda the arguments of the call, and jit_ret the return address.
\* (Until a struct has upset frame->sp.)
LoadsFindTheirWord == ~structs => \A r \in read : r[1] = r[2]

\* Whatever a body is made of, struct included, and however wrong frame->sp
\* has become: the code of a fn pops what it pushed, no let overwrites its
\* return address, and its jit_ret returns to the caller.  (As long as the
\* parameters fit the registers: a let of a stack parameter after a struct
\* does overwrite it.)
ReturnsToCaller ==
  params <= ARG_SPILLOVER =>
    \A r \in read : r[1] = <<"ret">> => r[2] = <<"ret">>
=============================================================================
