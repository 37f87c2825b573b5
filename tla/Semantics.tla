----------------------------- MODULE Semantics -----------------------------
(***************************************************************************)
(* What a program means, by the reference manual of Lua 5.1 and not by the *)
(* code: an evaluator of the syntax tree over a store.  Every local is an  *)
(* address of its own, a function is a body with the addresses it sees,    *)
(* and the only results are what the program tells the outside and what    *)
(* it returns.  The compiler and the machine are compared with it.         *)
(*                                                                         *)
(* st holds the store, the tables, the functions, the log, and why the     *)
(* last statement stopped: "" (it did not), "break", "return", "error".    *)
(* An error tells in st.blame what the program calls the value to blame.   *)
(***************************************************************************)
EXTENDS Names

(* The externals are the ones of the machine; env.vars maps names in scope  *)
(* to addresses, env.outer those that the function found when it was made.  *)
World(externals) ==
  [vals |-> <<>>, funs |-> <<>>, log |-> <<>>, why |-> "", ret |-> <<>>,
   blame |-> NoName,
   tables |-> <<[map |-> [k \in {Str(x) : x \in externals} |-> Ext(k[2])], meta |-> 0]>>]

Scope(dots) == [vars |-> <<>>, outer |-> <<>>, dots |-> dots]

Declare(st, env, name, v) ==
  [st |-> [st EXCEPT !.vals = Append(@, v)],
   env |-> [env EXCEPT !.vars = [x \in DOMAIN @ \cup {name} |->
                                   IF x = name THEN Len(st.vals) + 1 ELSE @[x]]]]

(* Names one by one, each with the value at its place or nil. *)
DeclareAll(st, env, names, vs) ==
  FoldLeft(LAMBDA acc, i : Declare(acc.st, acc.env, names[i],
                                   IF i <= Len(vs) THEN vs[i] ELSE Nil),
           [st |-> st, env |-> env], [i \in DOMAIN names |-> i])

(* An error, of no operand or of the i-th, which NamedBy turns into what    *)
(* the program calls it.                                                    *)
Wrong(st) == [st EXCEPT !.why = "error", !.blame = NoName]
WrongOf(st, i) == [st EXCEPT !.why = "error", !.blame = <<"operand", i>>]

(* How the program calls the value of an expression; an `and' or `or' has   *)
(* the name of either side or none.                                         *)
RECURSIVE NameOf(_, _)
NameOf(env, x) ==
  CASE x.k = "Paren" -> NameOf(env, x.operand)
    [] x.k = "Name" /\ x.name \notin DOMAIN env.vars -> <<"global", x.name>>
    [] x.k = "Name" /\ x.name \in DOMAIN env.vars ->
         <<IF x.name \in DOMAIN env.outer /\ env.outer[x.name] = env.vars[x.name]
           THEN "upvalue" ELSE "local", x.name>>
    [] x.k = "Field" -> <<"field", x.name>>
    [] x.k = "Index" -> <<"field", IF x.key.k = "Str" THEN x.key.s ELSE "?">>
    [] x.k = "BinOp" /\ x.op \in {"And", "Or"} -> <<"any", "">>
    [] OTHER -> NoName

NamedBy(st, env, xs) ==
  IF st.blame[1] = "operand" THEN [st EXCEPT !.blame = NameOf(env, xs[@[2]])] ELSE st
NamedVal(r, env, xs) == [r EXCEPT !.st = NamedBy(@, env, xs)]
One(vs) == IF vs = <<>> THEN Nil ELSE vs[1]

(* An expression, a block and a call are given a meaning in terms of one      *)
(* another, by one recursive operator: Does("eval", st, env, expression) and   *)
(* Does("apply", st, function, arguments) are the state after and the values,  *)
(* Does("exec", st, env, block) the state and the scope after.                *)
RECURSIVE Does(_, _, _, _)
Eval(st, env, x) == Does("eval", st, env, x)
Exec(st, env, block) == Does("exec", st, env, block)
Apply(st, f, args) == Does("apply", st, f, args)
Run(st, env, block) == Exec(st, env, block).st

Eval1(st, env, x) == LET r == Eval(st, env, x) IN [st |-> r.st, v |-> One(r.vs)]
Val(st, v) == [st |-> st, vs |-> <<v>>]

RECURSIVE EvalList(_, _, _)
EvalList(st, env, xs) ==
  IF xs = <<>> THEN [st |-> st, vs |-> <<>>]
  ELSE LET head == Eval(st, env, Head(xs))
           rest == EvalList(head.st, env, Tail(xs))
       IN IF Len(xs) = 1 THEN head
          ELSE [st |-> rest.st, vs |-> <<One(head.vs)>> \o rest.vs]

(* A metamethod's answer, cut to one value. *)
Ask(st, f, args) == LET r == Apply(st, f, args) IN Val(r.st, One(r.vs))

RECURSIVE IndexOf(_, _, _)
IndexOf(st, t, key) ==
  LET v == IF t[1] = "tab" THEN RawGet(st, t[2], key) ELSE Nil
      tm == MetaOf(st, t, "__index")
  IN IF st.why # "" \/ v # Nil \/ (t[1] = "tab" /\ tm = Nil) THEN Val(st, v)
     ELSE IF tm = Nil THEN Val(WrongOf(st, 1), Nil)
     ELSE IF IsFunction(tm) THEN Ask(st, tm, <<t, key>>)
     ELSE IndexOf(st, tm, key)

RECURSIVE AssignTo(_, _, _, _)
AssignTo(st, t, key, v) ==
  LET tm == MetaOf(st, t, "__newindex")
      r == [RawSet([tables |-> st.tables, status |-> ""], t[2], key, v) EXCEPT !.status = @]
  IN IF st.why = "error" THEN st
     ELSE IF t[1] = "tab" /\ (tm = Nil \/ RawGet(st, t[2], key) # Nil)
     THEN IF r.status = "" THEN [st EXCEPT !.tables = r.tables] ELSE Wrong(st)
     ELSE IF tm = Nil THEN WrongOf(st, 1)
     ELSE IF IsFunction(tm) THEN Apply(st, tm, <<t, key, v>>).st
     ELSE AssignTo(st, tm, key, v)

(* The first of the two operands' metamethods; for comparisons both must    *)
(* have the same.                                                           *)
Either(st, x, y, event) == IF MetaOf(st, x, event) # Nil THEN MetaOf(st, x, event)
                           ELSE MetaOf(st, y, event)
Shared(st, x, y, event) ==
  IF x[1] = "tab" /\ y[1] = "tab" /\ MetaOf(st, x, event) = MetaOf(st, y, event)
  THEN MetaOf(st, x, event) ELSE Nil

Truth(r, yes) == Val(r.st, Bool((~IsFalse(One(r.vs))) = yes))

Compare(st, op, x, y) ==
  LET eq == Shared(st, x, y, "__eq")
      lt == Shared(st, x, y, "__lt")
      le == Shared(st, x, y, "__le")
      nums == x[1] = "num" /\ y[1] = "num"
  IN CASE op = "Eq" -> IF x = y THEN Val(st, Bool(TRUE))
                       ELSE IF eq = Nil THEN Val(st, Bool(FALSE))
                       ELSE Truth(Apply(st, eq, <<x, y>>), TRUE)
       [] op = "Lt" -> IF nums THEN Val(st, Bool(x[2] < y[2]))
                       ELSE IF lt = Nil THEN Val(Wrong(st), Nil)
                       ELSE Truth(Apply(st, lt, <<x, y>>), TRUE)
       [] op = "Le" -> IF nums THEN Val(st, Bool(x[2] <= y[2]))
                       ELSE IF le # Nil THEN Truth(Apply(st, le, <<x, y>>), TRUE)
                       ELSE IF lt = Nil THEN Val(Wrong(st), Nil)
                       ELSE Truth(Apply(st, lt, <<y, x>>), FALSE)

Binary(st, op, x, y) ==
  LET tm == Either(st, x, y, IF op = "Concat" THEN "__concat" ELSE Event[ArithOp[op]])
      ne == Compare(st, "Eq", x, y)
  IN IF st.why # "" THEN Val(st, Nil)
     ELSE IF op = "Ne" THEN Val(ne.st, Bool(IsFalse(One(ne.vs))))
     ELSE IF op \in {"Eq", "Lt", "Le"} THEN Compare(st, op, x, y)
     ELSE IF op = "Gt" THEN Compare(st, "Lt", y, x)
     ELSE IF op = "Ge" THEN Compare(st, "Le", y, x)
     ELSE IF op = "Concat" /\ IsStrOrNum(x) /\ IsStrOrNum(y)
     THEN Val(st, Str(Text(x) \o Text(y)))
     ELSE IF op # "Concat" /\ x[1] = "num" /\ y[1] = "num"
             /\ (op # "Mod" \/ y[2] # 0)
     THEN Val(st, Number(Folded(ArithOp[op], x[2], y[2])))
     ELSE IF tm = Nil
     THEN Val(WrongOf(st, IF (IF op = "Concat" THEN IsStrOrNum(x) ELSE x[1] = "num")
                          THEN 2 ELSE 1), Nil)
     ELSE Ask(st, tm, <<x, y>>)

Unary(st, op, v) ==
  LET tm == MetaOf(st, v, "__unm")
  IN CASE st.why # "" -> Val(st, Nil)
       [] op = "Not" -> Val(st, Bool(IsFalse(v)))
       [] op = "Neg" -> IF v[1] = "num" THEN Val(st, Number(-v[2]))
                        ELSE IF tm = Nil THEN Val(WrongOf(st, 1), Nil) ELSE Ask(st, tm, <<v, v>>)
       [] op = "Len" -> IF v[1] = "tab" THEN Val(st, Number(Border(st, v[2])))
                        ELSE IF v[1] = "str" THEN Val(st, Number(Len(v[2])))
                        ELSE Val(WrongOf(st, 1), Nil)

FieldsOf(st, env, t, fields) ==
  LET step(acc, i) ==
        LET f == fields[i]
            k == IF f.k = "Name" THEN [st |-> acc.st, v |-> Str(f.name)]
                 ELSE Eval1(acc.st, env, f.key)
            v == Eval1(k.st, env, f.value)
            items == Eval(acc.st, env, f.value)
            vs == IF i = Len(fields) THEN items.vs ELSE <<One(items.vs)>>
        IN IF f.k = "Value"
           THEN [n |-> acc.n + Len(vs),
                 st |-> FoldLeft(LAMBDA a, j : AssignTo(a, t, Number(acc.n + j), vs[j]),
                                 items.st, [j \in DOMAIN vs |-> j])]
           ELSE [acc EXCEPT !.st = AssignTo(v.st, t, k.v, v.v)]
  IN FoldLeft(step, [st |-> st, n |-> 0], [i \in DOMAIN fields |-> i]).st

MakeFunction(st, env, params, body) ==
  [st |-> [st EXCEPT !.funs = Append(@, [params |-> params, vararg |-> body.vararg,
                                          body |-> body.body, vars |-> env.vars])],
   vs |-> <<Fn(Len(st.funs) + 1)>>]

(* A call that the program writes: the message names what is no function,    *)
(* unless it is a global without a value.                                    *)
CallOf(st, f, args, name) ==
  LET shown == IF name[1] = "global" /\ f = Nil THEN NoName ELSE name
  IN IF st.why = "" /\ ~IsFunction(f) /\ ~IsFunction(MetaOf(st, f, "__call"))
     THEN [st |-> [Wrong(st) EXCEPT !.blame = shown], vs |-> <<>>]
     ELSE Apply(st, f, args)

ValuesOf(st, env, x) ==
  LET l == Eval1(st, env, x.left)
      r == Eval1(l.st, env, x.right)
      u == Eval1(st, env, x.operand)
      t == Eval1(st, env, x.table)
      k == Eval1(t.st, env, x.key)
      g == IndexOf(st, Tab(Globals), Str(x.name))
      f == Eval1(st, env, x.func)
      member == IndexOf(t.st, t.v, Str(x.name))
      args(s) == EvalList(s, env, x.args)
      tab == Tab(Len(st.tables) + 1)
  IN CASE st.why # "" -> [st |-> st, vs |-> <<>>]
       [] x.k = "Nil" -> Val(st, Nil)
       [] x.k = "True" -> Val(st, Bool(TRUE))
       [] x.k = "False" -> Val(st, Bool(FALSE))
       [] x.k = "Number" -> Val(st, Number(x.n))
       [] x.k = "Str" -> Val(st, Str(x.s))
       [] x.k = "VarArg" -> [st |-> st, vs |-> env.dots]
       [] x.k = "Name" -> IF x.name \in DOMAIN env.vars
                          THEN Val(st, st.vals[env.vars[x.name]]) ELSE g
       [] x.k = "Paren" -> Val(u.st, u.v)
       [] x.k = "UnOp" -> NamedVal(Unary(u.st, x.op, u.v), env, <<x.operand>>)
       [] x.k = "BinOp" /\ x.op = "And" -> IF IsFalse(l.v) THEN Val(l.st, l.v) ELSE Val(r.st, r.v)
       [] x.k = "BinOp" /\ x.op = "Or" -> IF IsFalse(l.v) THEN Val(r.st, r.v) ELSE Val(l.st, l.v)
       [] x.k = "BinOp" -> NamedVal(Binary(r.st, x.op, l.v, r.v), env, <<x.left, x.right>>)
       [] x.k = "Index" -> NamedVal(IndexOf(k.st, t.v, k.v), env, <<x.table>>)
       [] x.k = "Field" -> NamedVal(member, env, <<x.table>>)
       [] x.k = "Call" -> LET a == args(f.st)
                          IN CallOf(a.st, f.v, a.vs, NameOf(env, x.func))
       [] x.k = "MethodCall" ->
            LET a == args(NamedBy(member.st, env, <<x.table>>))
            IN CallOf(a.st, One(member.vs), <<t.v>> \o a.vs, <<"method", x.name>>)
       [] x.k = "FuncDef" -> MakeFunction(st, env, x.body.params, x.body)
       [] x.k = "TableCtor" ->
            Val(FieldsOf(NewTable(st, <<>>), env, tab, x.fields), tab)

(* The local `arg' of a vararg function; a program that uses it does not     *)
(* use `...' in the same function.                                           *)
DeclareArg(st, env, dots) ==
  LET items == [k \in {Number(i) : i \in {j \in DOMAIN dots : dots[j] # Nil}} \cup {Str("n")} |->
                  IF k = Str("n") THEN Number(Len(dots)) ELSE dots[k[2]]]
  IN Declare(NewTable(st, items), env, "arg", Tab(Len(st.tables) + 1))

(* A call: of a Lua function in a scope of its own, or of the outside.      *)
ResultsOf(st, f, args) ==
  LET fn == st.funs[f[2]]
      n == Len(fn.params)
      dots == IF Len(args) > n THEN SubSeq(args, n + 1, Len(args)) ELSE <<>>
      d == DeclareAll(st, [vars |-> fn.vars, outer |-> fn.vars, dots |-> dots], fn.params,
                      args)
      da == IF fn.vararg /\ ~Contains(fn.params, "arg") THEN DeclareArg(d.st, d.env, dots) ELSE d
      r == Run(da.st, da.env, fn.body)
      tm == MetaOf(st, f, "__call")
  IN IF st.why # "" THEN [st |-> st, vs |-> <<>>]
     ELSE IF f = Ext("emit") THEN [st |-> [st EXCEPT !.log = Append(@, args)], vs |-> <<>>]
     ELSE IF f = Ext("pass") THEN [st |-> st, vs |-> args]
     ELSE IF f = Ext("setmeta")
     THEN Val([st EXCEPT !.tables[args[1][2]].meta = args[2][2]], args[1])
     ELSE IF f[1] = "fn"
     THEN [st |-> [r EXCEPT !.why = IF @ = "error" THEN @ ELSE "", !.ret = <<>>],
           vs |-> r.ret]
     ELSE IF IsFunction(tm) THEN Apply(st, tm, <<f>> \o args)
     ELSE [st |-> Wrong(st), vs |-> <<>>]

(* What a target stands for, before any value is computed.                  *)
Place(st, env, x) ==
  LET t == Eval1(st, env, x.table)
      k == Eval1(t.st, env, x.key)
  IN CASE x.k = "Name" /\ x.name \in DOMAIN env.vars ->
            [st |-> st, at |-> env.vars[x.name], t |-> Nil, key |-> Nil]
       [] x.k = "Name" -> [st |-> st, at |-> 0, t |-> Tab(Globals), key |-> Str(x.name)]
       [] x.k = "Index" -> [st |-> k.st, at |-> 0, t |-> t.v, key |-> k.v]
       [] x.k = "Field" -> [st |-> t.st, at |-> 0, t |-> t.v, key |-> Str(x.name)]

PutAt(st, p, v) ==
  IF st.why # "" THEN st ELSE IF p.at # 0 THEN [st EXCEPT !.vals[p.at] = v]
  ELSE AssignTo(st, p.t, p.key, v)

PlacesOf(st, env, targets) ==
  FoldLeft(LAMBDA acc, x : LET p == Place(acc.st, env, x)
                           IN [st |-> p.st, ps |-> Append(acc.ps, p)],
           [st |-> st, ps |-> <<>>], targets)

\* The values r into the places ps, the last one first.
PutAll(r, ps, env, targets) ==
  FoldLeft(LAMBDA acc, i : NamedBy(PutAt(acc, ps[i], IF i <= Len(r.vs) THEN r.vs[i] ELSE Nil),
                                   env, <<targets[i].table>>),
           r.st, Reverse([i \in DOMAIN targets |-> i]))

AssignAt(places, env, targets, values) ==
  PutAll(EvalList(places.st, env, values), places.ps, env, targets)
AssignAll(st, env, targets, values) == AssignAt(PlacesOf(st, env, targets), env, targets, values)

Broken(st) == IF st.why = "break" THEN [st EXCEPT !.why = ""] ELSE st

(* while, and repeat, whose condition is in the scope of its body.          *)
RECURSIVE Loop(_, _, _)
Loop(st, env, x) ==
  LET c == Eval1(st, env, x.cond)
      body == Exec(c.st, env, x.body)
      until == Exec(st, env, x.body)
      u == Eval1(until.st, until.env, x.cond)
  IN IF x.k = "While"
     THEN IF c.st.why # "" \/ IsFalse(c.v) THEN c.st
          ELSE IF body.st.why # "" THEN Broken(body.st) ELSE Loop(body.st, env, x)
     ELSE IF until.st.why # "" THEN Broken(until.st)
          ELSE IF u.st.why # "" \/ ~IsFalse(u.v) THEN u.st ELSE Loop(u.st, env, x)

RECURSIVE CountLoop(_, _, _, _, _, _)
CountLoop(st, env, x, i, limit, step) ==
  LET d == Declare(st, env, x.name, Number(i))
      r == Run(d.st, d.env, x.body)
  IN IF IF step > 0 THEN i > limit ELSE i < limit THEN st
     ELSE IF r.why # "" THEN Broken(r)
     ELSE CountLoop(r, env, x, i + step, limit, step)

RECURSIVE ForEach(_, _, _, _, _, _)
ForEach(st, env, x, f, s, control) ==
  LET vs == Apply(st, f, <<s, control>>)
      d == DeclareAll(vs.st, env, x.names, vs.vs)
      r == Run(d.st, d.env, x.body)
  IN IF vs.st.why # "" \/ One(vs.vs) = Nil THEN vs.st
     ELSE IF r.why # "" THEN Broken(r)
     ELSE ForEach(r, env, x, f, s, One(vs.vs))

RECURSIVE Chain(_, _, _)
Chain(st, env, x) ==
  LET c == Eval1(st, env, Head(x.conds))
      rest == [x EXCEPT !.conds = Tail(@), !.bodies = Tail(@)]
  IN IF x.conds = <<>> THEN IF x.else = <<>> THEN st ELSE Run(st, env, x.else[1])
     ELSE IF c.st.why # "" THEN c.st
     ELSE IF IsFalse(c.v) THEN Chain(c.st, env, rest) ELSE Run(c.st, env, Head(x.bodies))

Field(t, name) == [k |-> "Field", table |-> t, name |-> name]
Name(x) == [k |-> "Name", name |-> x]

(* One statement: the state after it and the scope it leaves.               *)
ExecStat(st, env, x) ==
  LET same(s) == [st |-> s, env |-> env]
      r == EvalList(st, env, x.values)
      b == EvalList(st, env, x.bounds)
      it == EvalList(st, env, x.iters)
      nth(vs, i) == IF i <= Len(vs) THEN vs[i] ELSE Nil
      fd == MakeFunction(st, env, (IF x.needself THEN <<"self">> ELSE <<>>) \o x.body.params,
                         x.body)
      target == FoldLeft(Field, Name(x.path[1]), Tail(x.path))
      own == Declare(st, env, x.name, Nil)
      lf == MakeFunction(own.st, own.env, x.body.params, x.body)
        put == PutAt(fd.st, Place(fd.st, env, target), fd.vs[1])
  IN CASE x.k = "Assign" -> same(AssignAll(st, env, x.targets, x.values))
       [] x.k = "LocalDecl" -> DeclareAll(r.st, env, x.names, r.vs)
       [] x.k = "Do" -> same(Run(st, env, x.body))
       [] x.k \in {"While", "Repeat"} -> same(Loop(st, env, x))
       [] x.k = "If" -> same(Chain(st, env, x))
       [] x.k = "NumericFor" ->
            same(IF b.st.why # "" THEN b.st
                 ELSE IF \E i \in 1..Len(b.vs) : b.vs[i][1] # "num" THEN Wrong(b.st)
                 ELSE CountLoop(b.st, env, x, b.vs[1][2], b.vs[2][2],
                                IF Len(b.vs) = 3 THEN b.vs[3][2] ELSE 1))
       [] x.k = "GenericFor" ->
            same(IF it.st.why # "" THEN it.st
                 ELSE ForEach(it.st, env, x, nth(it.vs, 1), nth(it.vs, 2), nth(it.vs, 3)))
       [] x.k = "FuncDecl" -> same(NamedBy(put, env, <<target.table>>))
       [] x.k = "LocalFunc" ->
            [own EXCEPT !.st = [lf.st EXCEPT !.vals[own.env.vars[x.name]] = lf.vs[1]]]
       [] x.k = "Return" -> same(IF r.st.why # "" THEN r.st
                                 ELSE [r.st EXCEPT !.why = "return", !.ret = r.vs])
       [] x.k = "Break" -> same([st EXCEPT !.why = "break"])
       [] x.k = "ExprStat" -> same(Eval(st, env, x.expr).st)

ExecAll(st, env, block) ==
  FoldLeft(LAMBDA acc, x : IF acc.st.why # "" THEN acc ELSE ExecStat(acc.st, acc.env, x),
           [st |-> st, env |-> env], block)

Does(what, st, a, b) ==
  CASE what = "eval" -> ValuesOf(st, a, b)
    [] what = "exec" -> ExecAll(st, a, b)
    [] what = "apply" -> ResultsOf(st, a, b)

(* Tables and functions are told apart from the rest, not from one another.  *)
Seen(v) == IF v[1] \in {"tab", "fn", "ext"} THEN <<v[1], 0>> ELSE v
SeenAll(vs) == [i \in DOMAIN vs |-> Seen(vs[i])]

(* What a chunk called with `args' shows.                                    *)
Shows(st) ==
  LET failed == st.why \in {"error", "break"}
  IN [log |-> [i \in DOMAIN st.log |-> SeenAll(st.log[i])],
      results |-> IF failed THEN <<>> ELSE SeenAll(st.ret),
      failed |-> failed,
      name |-> st.blame]
Meaning(block, externals, args) == Shows(Run(World(externals), Scope(args), block))
=============================================================================
