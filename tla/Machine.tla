------------------------------ MODULE Machine ------------------------------
(***************************************************************************)
(* The register machine of vm/execute.rs running one compiled function:    *)
(* one action per instruction, each the whole arm of execute_inner with    *)
(* the calls it makes (vm/execute/runtime_ops.rs).  Calls push frames onto *)
(* one list; where the code nests a call of execute inside a Rust function *)
(* (a metamethod, an iterator), the frame says in `cont' what that Rust    *)
(* function does when the frame returns.                                   *)
(*                                                                         *)
(* All the state is in m: the value stack, its top, the frames, the open   *)
(* upvalues (the ids, highest slot first), the heap of upvalues, closures  *)
(* and tables, the log of what the program told the outside, and the       *)
(* register that a failed concatenation blames.  Tables are maps here      *)
(* (module Tables has their layout); hooks, budgets, taint, secrets and    *)
(* collection are other modules' business; an error ends the run (module   *)
(* CallStack has what catches it).  Stack slots count from 0.              *)
(***************************************************************************)
EXTENDS CodeGen, FiniteSets

CONSTANTS MAXTAGLOOP,   \* the longest chain of __index tables (100)
          LUA_MINSTACK  \* the slots a Rust function gets (20)

VARIABLE m

Fn(id) == <<"fn", id>>        \* a closure of the heap
Ext(name) == <<"ext", name>>  \* a Rust function
Tab(id) == <<"tab", id>>
IsFunction(v) == v[1] \in {"fn", "ext"}
IsFalse(v) == v = Nil \/ v = Bool(FALSE)
MULTRET == -1
Globals == 1

----------------------------------------------------------------------------
(* The stack and the heap. *)

StackGet(s, i) == IF i < Len(s.stack) THEN s.stack[i + 1] ELSE Nil

StackSet(s, i, v) ==
  [s EXCEPT !.stack = IF i < Len(@) THEN [@ EXCEPT ![i + 1] = v]
                      ELSE @ \o [j \in 1..(i - Len(@)) |-> Nil] \o <<v>>]

FillNil(s, from, to) == FoldLeft(LAMBDA acc, i : StackSet(acc, i, Nil), s,
                                 [i \in 1..(to - from) |-> from + i - 1])

(* Copies n slots upwards from the first, as copy_within does. *)
CopyTo(s, from, n, to) ==
  FoldLeft(LAMBDA acc, i : StackSet(acc, to + i - 1, StackGet(s, from + i - 1)),
           s, [i \in 1..n |-> i])

Error(s, msg) == [s EXCEPT !.status = msg]

RawGet(s, t, key) == IF key \in DOMAIN s.tables[t].map THEN s.tables[t].map[key] ELSE Nil

RawSet(s, t, key, v) ==
  IF key = Nil THEN Error(s, "index is nil")
  ELSE [s EXCEPT !.tables[t].map =
         IF v = Nil THEN Restrict(@, DOMAIN @ \ {key})
         ELSE [k \in DOMAIN @ \cup {key} |-> IF k = key THEN v ELSE @[k]]]

NewTable(s, map) == [s EXCEPT !.tables = Append(@, [map |-> map, meta |-> 0])]

(* The metamethod of a value; only tables have metatables here. *)
MetaOf(s, v, event) ==
  IF v[1] = "tab" /\ s.tables[v[2]].meta # 0
  THEN RawGet(s, s.tables[v[2]].meta, Str(event)) ELSE Nil

(* A length: the first border. *)
Border(s, t) ==
  CHOOSE n \in 0..Cardinality(DOMAIN s.tables[t].map) :
     /\ Number(n + 1) \notin DOMAIN s.tables[t].map
     /\ \A i \in 1..n : Number(i) \in DOMAIN s.tables[t].map

----------------------------------------------------------------------------
(* Upvalues. *)

UpGet(s, u) == IF s.upvals[u].open THEN StackGet(s, s.upvals[u].at) ELSE s.upvals[u].value

UpSet(s, u, v) ==
  IF s.upvals[u].open THEN StackSet(s, s.upvals[u].at, v)
  ELSE [s EXCEPT !.upvals[u].value = v]

(* Slip: a new open upvalue goes to the front of the list. *)
FindUpvalueFront(s, slot) ==
  LET found == SelectInSeq(s.open, LAMBDA u : s.upvals[u].at = slot)
      id == Len(s.upvals) + 1
  IN IF found # 0 THEN [s |-> s, u |-> s.open[found]]
     ELSE [u |-> id,
           s |-> [s EXCEPT !.upvals = Append(@, [open |-> TRUE, at |-> slot, value |-> Nil]),
                           !.open = <<id>> \o @]]

(* The open upvalue of a slot: the search stops below it, since the list is  *)
(* sorted; a new one is put in its place.                                    *)
FindUpvalue(s, slot) ==
  LET found == SelectInSeq(s.open, LAMBDA u : s.upvals[u].at = slot)
      id == Len(s.upvals) + 1
      higher == SelectSeq(s.open, LAMBDA u : s.upvals[u].at >= slot)
  IN IF found # 0 THEN [s |-> s, u |-> s.open[found]]
     ELSE [u |-> id,
           s |-> [s EXCEPT !.upvals = Append(@, [open |-> TRUE, at |-> slot, value |-> Nil]),
                           !.open = InsertAt(@, Len(higher) + 1, id)]]

(* Closes the open upvalues at and above a slot, from the front of the list  *)
(* as far as they reach.                                                     *)
CloseUpvalues(s, level) ==
  LET n == SelectInSeq(s.open, LAMBDA u : s.upvals[u].at < level)
      gone == IF n = 0 THEN s.open ELSE SubSeq(s.open, 1, n - 1)
  IN [FoldLeft(LAMBDA acc, u : [acc EXCEPT !.upvals[u] =
                                  [open |-> FALSE, at |-> 0, value |-> UpGet(acc, u)]],
               s, gone)
        EXCEPT !.open = SubSeq(@, Len(gone) + 1, Len(@))]

----------------------------------------------------------------------------
(* Calls. *)

Frame(s) == Last(s.frames)
ClosureAt(s, func) == s.closures[StackGet(s, func)[2]]
ProtoOf(s) == ClosureAt(s, Frame(s).func).proto
Goto(s, pc) == [s EXCEPT !.frames[Len(s.frames)].pc = pc]

RECURSIVE PosCall(_, _), CallTm(_, _, _, _), Concat(_, _, _, _)

(* The arguments of a vararg function stay below its base; the fixed ones    *)
(* move up, and `arg' gets the others when the body may use it.              *)
PadArguments(s, n) == [FillNil(s, s.top, s.top + n) EXCEPT !.top = @ + n]

ArgTable(values) ==
  [k \in {Number(i) : i \in {j \in DOMAIN values : values[j] # Nil}} \cup {Str("n")} |->
     IF k = Str("n") THEN Number(Len(values)) ELSE values[k[2]]]
PushArgTable(s, values) ==
  [NewTable(StackSet(s, s.top, Tab(Len(s.tables) + 1)), ArgTable(values)) EXCEPT !.top = @ + 1]

(* The fixed arguments are at `fixed', nvar more behind them.                *)
MoveFixed(s, p, fixed, nvar) ==
  LET moved == [FillNil(CopyTo(s, fixed, p.nparams, s.top), fixed, fixed + p.nparams)
                  EXCEPT !.top = @ + p.nparams]
  IN [base |-> s.top,
      s |-> IF "needs" \notin p.vararg THEN moved
            ELSE PushArgTable(moved, [i \in 1..nvar |-> StackGet(s, fixed + p.nparams + i - 1)])]

AdjustVarargs(s, p, nargs) ==
  IF nargs < p.nparams
  THEN MoveFixed(PadArguments(s, p.nparams - nargs), p, s.top - nargs, 0)
  ELSE MoveFixed(s, p, s.top - nargs, nargs - p.nparams)

(* Enters a Lua function: its arguments are made to fit its parameters and   *)
(* the rest of its registers are cleared.                                    *)
FixedArguments(s, top) ==
  [IF s.top < top THEN FillNil(s, s.top, top) ELSE s EXCEPT !.top = top]

PushFrame(e, top, func, nres, cont) ==
  [FillNil(e.s, e.s.top, top) EXCEPT
     !.top = top,
     !.frames = Append(@, [func |-> func, base |-> e.base, top |-> top, pc |-> 0,
                           nres |-> nres, cont |-> cont])]
EnterAt(e, p, func, nres, cont) == PushFrame(e, e.base + p.maxstack, func, nres, cont)

EnterLua(s, func, nres, cont) ==
  LET p == ClosureAt(s, func).proto
      nargs == IF s.top > func + 1 THEN s.top - func - 1 ELSE 0
  IN EnterAt(IF "is" \in p.vararg THEN AdjustVarargs(s, p, nargs)
             ELSE [base |-> func + 1, s |-> FixedArguments(s, func + 1 + p.nparams)],
             p, func, nres, cont)

(* A Rust function, from its arguments to the results it pushes: `emit'      *)
(* tells the outside, `pass' gives its arguments back, `setmeta' sets a      *)
(* metatable.                                                                *)
EnterRust(s, func, name, nres, cont) ==
  LET args == [i \in 1..(s.top - func - 1) |-> StackGet(s, func + i)]
      s1 == [s EXCEPT !.frames = Append(@,
               [func |-> func, base |-> func + 1, top |-> s.top + LUA_MINSTACK, pc |-> 0,
                nres |-> nres, cont |-> cont])]
  IN PosCall(CASE name = "emit" -> [s1 EXCEPT !.log = Append(@, args)]
               [] name = "pass" -> s1
               [] name = "setmeta" ->
                    [s1 EXCEPT !.tables[args[1][2]].meta = args[2][2], !.top = func + 2],
             IF name = "emit" THEN s.top ELSE func + 1)

EnterFunction(s, func, nres, cont) ==
  IF StackGet(s, func)[1] = "fn" THEN EnterLua(s, func, nres, cont)
  ELSE EnterRust(s, func, StackGet(s, func)[2], nres, cont)

(* A value that is no function gives way to its __call, before which it is   *)
(* the first argument.                                                       *)
PreCall(s, func, nres, cont) ==
  LET f == StackGet(s, func)
      tm == MetaOf(s, f, "__call")
      under == [StackSet(CopyTo(s, func, s.top - func, func + 1), func, tm)
                  EXCEPT !.top = s.top + 1]
  IN IF IsFunction(f) \/ IsFunction(tm)
     THEN EnterFunction(IF IsFunction(f) THEN s ELSE under, func, nres, cont)
     ELSE Error(s, "call")

Push(s, v) == [StackSet(s, s.top, v) EXCEPT !.top = @ + 1]

(* Calls a metamethod above the top of the stack. *)
CallTm(s, tm, args, cont) ==
  LET nres == IF cont.k = "void" THEN 0 ELSE 1
  IN PreCall(FoldLeft(Push, s, <<tm>> \o args), s.top, nres,
             [cont EXCEPT !.at = s.top])

(* What to do with the result of a call: `res' stores it in slot reg, `cmp'  *)
(* jumps on it, `concat' goes on below it, `for' starts the next round.      *)
Cont(k) == [k |-> k, at |-> 0, reg |-> 0, want |-> TRUE, a |-> 0, b |-> 0, last |-> 0]

(* A jump on a condition: the next word says where to. *)
CondJump(s, holds) ==
  LET pc == Frame(s).pc
  IN Goto(s, pc + 1 + IF holds THEN ProtoOf(s).code[pc + 1].b ELSE 0)

IsStrOrNum(v) == v[1] \in {"str", "num"}
Text(v) == IF v[1] = "num" THEN ToString(v[2]) ELSE v[2]

(* Joins registers b to last from the right; a run of strings and numbers at *)
(* once, anything else pairwise through its metamethod.                      *)
Concat(s, a, b, last) ==
  LET base == Frame(s).base
      reg(i) == StackGet(s, base + i)
      tm == IF MetaOf(s, reg(last - 1), "__concat") # Nil
            THEN MetaOf(s, reg(last - 1), "__concat") ELSE MetaOf(s, reg(last), "__concat")
      bad == {i \in b..last : ~IsStrOrNum(reg(i))}
      from == IF bad = {} THEN b ELSE Max(bad) + 1
      joined == FoldLeft(LAMBDA acc, i : acc \o Text(reg(i)), "",
                         [i \in 1..(last - from + 1) |-> from + i - 1])
  IN IF last = b THEN StackSet(s, base + a, reg(b))
     ELSE IF from < last THEN Concat(StackSet(s, base + from, Str(joined)), a, b, from)
     ELSE IF tm = Nil
     THEN [Error(s, "concatenate") EXCEPT
             !.blamed = IF IsStrOrNum(reg(last - 1)) THEN last ELSE last - 1]
     ELSE CallTm(s, tm, <<reg(last - 1), reg(last)>>,
                 [Cont("concat") EXCEPT !.reg = base + last - 1, !.a = a, !.b = b,
                                        !.last = last])

(* What the caller of the frame that has returned does with the results.     *)
Continue(s, fr) ==
  LET c == fr.cont
      v == StackGet(s, c.at)
      stored == StackSet(s, c.reg, v)
      s0 == [s EXCEPT !.top = Frame(s).top]
      control == StackGet(s0, c.reg + 3)
  IN CASE c.k = "call" -> IF fr.nres = MULTRET THEN s ELSE s0
       [] c.k = "res" -> stored
       [] c.k = "void" -> s
       [] c.k = "cmp" -> CondJump(s, (~IsFalse(v)) = c.want)
       [] c.k = "concat" -> Concat(stored, c.a, c.b, c.last - 1)
       [] c.k = "for" -> CondJump(StackSet(s0, c.reg + 2,
                                           IF control = Nil THEN StackGet(s0, c.reg + 2)
                                           ELSE control), control # Nil)
       [] c.k = "host" -> [s EXCEPT !.status = "done"]

(* Leaves the current frame: its results, from slot first to the top, go to  *)
(* the function's slot and after it, as many as were asked for.              *)
PosCall(s, first) ==
  LET fr == Frame(s)
      have == IF s.top > first THEN s.top - first ELSE 0
      n == IF fr.nres = MULTRET THEN have ELSE fr.nres
      moved == CopyTo(s, first, IF have < n THEN have ELSE n, fr.func)
      s1 == IF have < n THEN FillNil(moved, fr.func + have, fr.func + n) ELSE moved
  IN Continue([s1 EXCEPT !.top = fr.func + n, !.frames = Front(@)], fr)

----------------------------------------------------------------------------
(* Access through metatables, arithmetic and comparison. *)

RECURSIVE GetTable(_, _, _, _, _), SetTable(_, _, _, _, _)

(* The value at key, looked for along the chain of __index; it goes to slot  *)
(* reg.                                                                      *)
GetTable(s, t, key, reg, n) ==
  LET v == IF t[1] = "tab" THEN RawGet(s, t[2], key) ELSE Nil
      tm == MetaOf(s, t, "__index")
  IN IF n = 0 THEN Error(s, "loop in gettable")
     ELSE IF v # Nil \/ (t[1] = "tab" /\ tm = Nil) THEN StackSet(s, reg, v)
     ELSE IF tm = Nil THEN Error(s, "index")
     ELSE IF IsFunction(tm)
     THEN CallTm(s, tm, <<t, key>>, [Cont("res") EXCEPT !.reg = reg])
     ELSE GetTable(s, tm, key, reg, n - 1)

(* A new key goes where __newindex says, an old one into its own table.      *)
SetTable(s, t, key, v, n) ==
  LET tm == MetaOf(s, t, "__newindex")
  IN IF n = 0 THEN Error(s, "loop in settable")
     ELSE IF t[1] = "tab" /\ (tm = Nil \/ RawGet(s, t[2], key) # Nil)
     THEN RawSet(s, t[2], key, v)
     ELSE IF tm = Nil THEN Error(s, "index")
     ELSE IF IsFunction(tm) THEN CallTm(s, tm, <<t, key, v>>, Cont("void"))
     ELSE SetTable(s, tm, key, v, n - 1)

Event == [ADD |-> "__add", SUB |-> "__sub", MUL |-> "__mul", MOD |-> "__mod"]

Arith(s, op, x, y, reg) ==
  LET tm == IF MetaOf(s, x, Event[op]) # Nil THEN MetaOf(s, x, Event[op])
            ELSE MetaOf(s, y, Event[op])
  IN IF x[1] = "num" /\ y[1] = "num"
     THEN StackSet(s, reg, Number(Folded(op, x[2], y[2])))
     ELSE IF tm = Nil THEN Error(s, "arith")
     ELSE CallTm(s, tm, <<x, y>>, [Cont("res") EXCEPT !.reg = reg])

(* A comparison metamethod counts only when both operands have the same.     *)
OrderTm(s, x, y, event) ==
  IF x[1] = y[1] /\ MetaOf(s, x, event) = MetaOf(s, y, event)
  THEN MetaOf(s, x, event) ELSE Nil

CompareTm(s, tm, x, y, want) == CallTm(s, tm, <<x, y>>, [Cont("cmp") EXCEPT !.want = want])

Equal(s, x, y, want) ==
  LET tm == OrderTm(s, x, y, "__eq")
  IN IF x = y THEN CondJump(s, want)
     ELSE IF x[1] # "tab" \/ tm = Nil THEN CondJump(s, ~want)
     ELSE CompareTm(s, tm, x, y, want)

(* x <= y without __le is not (y < x).                                       *)
Order(s, op, x, y, want) ==
  LET own == OrderTm(s, x, y, IF op = "LT" THEN "__lt" ELSE "__le")
      gt == OrderTm(s, y, x, "__lt")
  IN IF x[1] = "num" /\ y[1] = "num"
     THEN CondJump(s, (IF op = "LT" THEN x[2] < y[2] ELSE x[2] <= y[2]) = want)
     ELSE IF own # Nil THEN CompareTm(s, own, x, y, want)
     ELSE IF op = "LE" /\ gt # Nil THEN CompareTm(s, gt, y, x, ~want)
     ELSE Error(s, "compare")
----------------------------------------------------------------------------
(* The instructions. *)

Instr == ProtoOf(m).code[Frame(m).pc + 1]
A == Frame(m).base + Instr.a
B == Frame(m).base + Instr.b
C == Frame(m).base + Instr.c
RK(x) == IF x >= BITRK THEN ProtoOf(m).k[x - BITRK + 1]
         ELSE StackGet(m, Frame(m).base + x)

(* The machine after the instruction was fetched. *)
Fetched == Goto(m, Frame(m).pc + 1)

Op(ops) ==
  /\ m.status = "run"
  /\ Instr.op \in ops

Store(v) == m' = StackSet(Fetched, A, v)

Move == Op({"MOVE"}) /\ Store(StackGet(m, B))
LoadK == Op({"LOADK"}) /\ Store(ProtoOf(m).k[Instr.b + 1])

LoadBool ==
  /\ Op({"LOADBOOL"})
  /\ m' = StackSet(Goto(m, Frame(m).pc + 1 + Instr.c), A, Bool(Instr.b = 1))

LoadNil == Op({"LOADNIL"}) /\ m' = FillNil(Fetched, A, B + 1)

GetUpval == Op({"GETUPVAL"}) /\ Store(UpGet(m, ClosureAt(m, Frame(m).func).upvals[Instr.b + 1]))

SetUpval ==
  /\ Op({"SETUPVAL"})
  /\ m' = UpSet(Fetched, ClosureAt(m, Frame(m).func).upvals[Instr.b + 1], StackGet(m, A))

GetGlobal ==
  /\ Op({"GETGLOBAL"})
  /\ m' = GetTable(Fetched, Tab(Globals), ProtoOf(m).k[Instr.b + 1], A, MAXTAGLOOP)

SetGlobal ==
  /\ Op({"SETGLOBAL"})
  /\ m' = SetTable(Fetched, Tab(Globals), ProtoOf(m).k[Instr.b + 1], StackGet(m, A), MAXTAGLOOP)

GetTableOp ==
  /\ Op({"GETTABLE"})
  /\ m' = GetTable(Fetched, StackGet(m, B), RK(Instr.c), A, MAXTAGLOOP)

SetTableOp ==
  /\ Op({"SETTABLE"})
  /\ m' = SetTable(Fetched, StackGet(m, A), RK(Instr.b), RK(Instr.c), MAXTAGLOOP)

NewTableOp ==
  /\ Op({"NEWTABLE"})
  /\ m' = StackSet(NewTable(Fetched, <<>>), A, Tab(Len(m.tables) + 1))

Self ==
  /\ Op({"SELF"})
  /\ m' = GetTable(StackSet(Fetched, A + 1, StackGet(m, B)), StackGet(m, B),
                   RK(Instr.c), A, MAXTAGLOOP)

ArithOps == Op(DOMAIN Event) /\ m' = Arith(Fetched, Instr.op, RK(Instr.b), RK(Instr.c), A)

Unm ==
  LET v == StackGet(m, B)
      tm == MetaOf(m, v, "__unm")
  IN /\ Op({"UNM"})
     /\ m' = IF v[1] = "num" THEN StackSet(Fetched, A, Number(-v[2]))
             ELSE IF tm = Nil THEN Error(Fetched, "arith")
             ELSE CallTm(Fetched, tm, <<v, v>>, [Cont("res") EXCEPT !.reg = A])

Not == Op({"NOT"}) /\ Store(Bool(IsFalse(StackGet(m, B))))

Length ==
  LET v == StackGet(m, B)
  IN /\ Op({"LEN"})
     /\ m' = IF v[1] = "tab" THEN StackSet(Fetched, A, Number(Border(m, v[2])))
             ELSE IF v[1] = "str" THEN StackSet(Fetched, A, Number(Len(v[2])))
             ELSE Error(Fetched, "length")

ConcatOp == Op({"CONCAT"}) /\ m' = Concat(Fetched, Instr.a, Instr.b, Instr.c)

Jump == Op({"JMP"}) /\ m' = Goto(m, Frame(m).pc + 1 + Instr.b)

Eq == Op({"EQ"}) /\ m' = Equal(Fetched, RK(Instr.b), RK(Instr.c), Instr.a = 1)

Less ==
  /\ Op({"LT", "LE"})
  /\ m' = Order(Fetched, Instr.op, RK(Instr.b), RK(Instr.c), Instr.a = 1)

Test == Op({"TEST"}) /\ m' = CondJump(Fetched, (~IsFalse(StackGet(m, A))) = (Instr.c = 1))

TestSet ==
  LET holds == (~IsFalse(StackGet(m, B))) = (Instr.c = 1)
  IN /\ Op({"TESTSET"})
     /\ m' = CondJump(IF holds THEN StackSet(Fetched, A, StackGet(m, B)) ELSE Fetched, holds)

Call ==
  LET s == IF Instr.b = MultRet THEN Fetched ELSE [Fetched EXCEPT !.top = A + Instr.b]
  IN /\ Op({"CALL"})
     /\ m' = PreCall(s, A, Instr.c - 1, Cont("call"))

(* The frame of the function called takes the place of the caller's, which  *)
(* keeps its slot and what its own caller expects of it.                     *)
Replace(s, fr) ==
  LET new == Frame(s)
      s1 == CloseUpvalues(s, fr.base)
      s2 == CopyTo(s1, new.func, s.top - new.func, fr.func)
      top == fr.func + s.top - new.func
  IN [s2 EXCEPT !.top = top,
        !.frames = Append(Front(Front(@)),
                     [new EXCEPT !.func = fr.func, !.base = fr.func + new.base - new.func,
                                 !.top = top, !.nres = fr.nres, !.cont = fr.cont])]

Replaced(r, fr, depth) == IF Len(r.frames) > depth THEN Replace(r, fr) ELSE r

TailCall ==
  LET s == IF Instr.b = MultRet THEN Fetched ELSE [Fetched EXCEPT !.top = A + Instr.b]
  IN /\ Op({"TAILCALL"})
     /\ m' = Replaced(PreCall(s, A, MULTRET, Cont("call")), Frame(Fetched), Len(m.frames))

Return ==
  LET s == CloseUpvalues(m, Frame(m).base)
  IN /\ Op({"RETURN"})
     /\ m' = PosCall(IF Instr.b = MultRet THEN s ELSE [s EXCEPT !.top = A + Instr.b - 1], A)

(* A step before the first value: the loop begins at FORLOOP. *)
ForPrep ==
  LET num(i) == StackGet(m, A + i)[1] = "num"
      start == Number(StackGet(m, A)[2] - StackGet(m, A + 2)[2])
  IN /\ Op({"FORPREP"})
     /\ m' = IF num(0) /\ num(1) /\ num(2)
             THEN StackSet(Goto(m, Frame(m).pc + 1 + Instr.b), A, start)
             ELSE Error(m, "for")

ForLoop ==
  LET step == StackGet(m, A + 2)[2]
      idx == StackGet(m, A)[2] + step
      limit == StackGet(m, A + 1)[2]
      goes == IF step > 0 THEN idx <= limit ELSE limit <= idx
      back == Goto(m, Frame(m).pc + 1 + Instr.b)
  IN /\ Op({"FORLOOP"})
     /\ m' = IF goes THEN StackSet(StackSet(back, A, Number(idx)), A + 3, Number(idx))
             ELSE Fetched

(* Calls the iterator on copies of it, the state and the control value. *)
TForLoop ==
  LET s == [CopyTo(Fetched, A, 3, A + 3) EXCEPT !.top = A + 6]
  IN /\ Op({"TFORLOOP"})
     /\ m' = PreCall(s, A + 3, Instr.c, [Cont("for") EXCEPT !.reg = A])

Close == Op({"CLOSE"}) /\ m' = CloseUpvalues(Fetched, A)

(* The words behind CLOSURE say where each variable comes from. *)
Closure ==
  LET p == ProtoOf(m).protos[Instr.b + 1]
      word(i) == ProtoOf(m).code[Frame(m).pc + 1 + i]
      own == ClosureAt(m, Frame(m).func).upvals
      take(acc, i) ==
        LET f == FindUpvalue(acc.s, Frame(m).base + word(i).b)
        IN IF word(i).op = "MOVE" THEN [s |-> f.s, ups |-> Append(acc.ups, f.u)]
           ELSE [acc EXCEPT !.ups = Append(@, own[word(i).b + 1])]
      n == Len(p.upvals)
      r == FoldLeft(take, [s |-> Goto(m, Frame(m).pc + 1 + n), ups |-> <<>>],
                    [i \in 1..n |-> i])
      s1 == [r.s EXCEPT !.closures = Append(@, [proto |-> p, upvals |-> r.ups])]
  IN /\ Op({"CLOSURE"})
     /\ m' = StackSet(s1, A, Fn(Len(s1.closures)))

VarArg ==
  LET first == Frame(m).func + 1 + ProtoOf(m).nparams
      have == Frame(m).base - first
      n == IF Instr.b = MultRet THEN have ELSE Instr.b - 1
      s == FillNil(CopyTo(Fetched, first, IF n < have THEN n ELSE have, A), A + have, A + n)
  IN /\ Op({"VARARG"})
     /\ m' = IF Instr.b = MultRet THEN [s EXCEPT !.top = A + n] ELSE s

(* Stores a batch of list items; a zero C means that the batch number is in  *)
(* the next word.                                                            *)
SetList ==
  LET n == IF Instr.b = MultRet THEN m.top - A - 1 ELSE Instr.b
      wide == Instr.c = 0
      c == IF wide THEN ProtoOf(m).code[Frame(m).pc + 2].b ELSE Instr.c
      s == [Goto(m, Frame(m).pc + IF wide THEN 2 ELSE 1) EXCEPT
              !.top = IF Instr.b = MultRet THEN Frame(m).top ELSE @]
  IN /\ Op({"SETLIST"})
     /\ m' = FoldLeft(LAMBDA acc, i :
                        RawSet(acc, StackGet(m, A)[2],
                               Number((c - 1) * LFIELDS_PER_FLUSH + i), StackGet(m, A + i)),
                      s, [i \in 1..n |-> i])

Step ==
  \/ Move \/ LoadK \/ LoadBool \/ LoadNil \/ GetUpval \/ SetUpval \/ GetGlobal \/ SetGlobal
  \/ GetTableOp \/ SetTableOp \/ NewTableOp \/ Self \/ ArithOps \/ Unm \/ Not \/ Length
  \/ ConcatOp \/ Jump \/ Eq \/ Less \/ Test \/ TestSet \/ Call \/ TailCall \/ Return
  \/ ForPrep \/ ForLoop \/ TForLoop \/ Close \/ Closure \/ VarArg \/ SetList

(* A machine about to run a compiled chunk: the globals are the outside's    *)
(* functions.                                                                *)
Start(proto, externals, args) ==
  LET globals == [k \in {Str(x) : x \in externals} |-> Ext(k[2])]
      s == [stack |-> <<Fn(1)>> \o args, top |-> 1 + Len(args), frames |-> <<>>,
            open |-> <<>>, upvals |-> <<>>,
            closures |-> <<[proto |-> proto, upvals |-> <<>>]>>,
            tables |-> <<[map |-> globals, meta |-> 0]>>, log |-> <<>>, status |-> "run",
            blamed |-> NO_REG]
  IN EnterLua(s, 0, MULTRET, Cont("host"))

(* What a run has shown: what it told the outside, and its results.          *)
Results == [i \in 1..m.top |-> m.stack[i]]
=============================================================================
