----------------------------- MODULE MCCompiler -----------------------------
(***************************************************************************)
(* Programs for the code generator and the machine: some hundred written   *)
(* by hand, one or more for every construct, and every small combination   *)
(* of logical operators in every place where a condition or a value can    *)
(* stand.  A behaviour takes one program, compiles it and runs it.         *)
(***************************************************************************)
EXTENDS Semantics

CONSTANT MAX_SYNTAX_LEVELS

(* A program is read from what the grammar makes of its syntax tree.        *)
G == INSTANCE Grammar
L == INSTANCE Lexer
P == INSTANCE Parser WITH LUAI_MAXVARS <- MAXACTIVEVARS, LUAI_MAXUPVALUES <- MAXUPVALUES

VARIABLE prog   \* the program, a block of the syntax tree, and its text

vars == <<prog, m>>

----------------------------------------------------------------------------
(* A notation for programs. *)

V(x) == Name(x)
N(i) == [k |-> "Number", n |-> i]
S(x) == [k |-> "Str", s |-> x]
NilX == [k |-> "Nil"]
TrueX == [k |-> "True"]
FalseX == [k |-> "False"]
Dots == [k |-> "VarArg"]
Bin(op, l, r) == [k |-> "BinOp", op |-> op, left |-> l, right |-> r]
Un(op, x) == [k |-> "UnOp", op |-> op, operand |-> x]
Paren(x) == [k |-> "Paren", operand |-> x]
At(t, key) == [k |-> "Index", table |-> t, key |-> key]
CallX(f, args) == [k |-> "Call", func |-> f, args |-> args]
Method(t, x, args) == [k |-> "MethodCall", table |-> t, name |-> x, args |-> args]
Body(params, dots, block) == [params |-> params, vararg |-> dots, body |-> block]
Func(params, block) == [k |-> "FuncDef", body |-> Body(params, FALSE, block)]
FuncV(params, block) == [k |-> "FuncDef", body |-> Body(params, TRUE, block)]
Ctor(fields) == [k |-> "TableCtor", fields |-> fields]
Item(v) == [k |-> "Value", value |-> v]
Named(x, v) == [k |-> "Name", name |-> x, value |-> v]
Keyed(key, v) == [k |-> "Index", key |-> key, value |-> v]
List(n) == Ctor([i \in 1..n |-> Item(N(i))])

Set(ts, vs) == [k |-> "Assign", targets |-> ts, values |-> vs]
Local(xs, vs) == [k |-> "LocalDecl", names |-> xs, values |-> vs]
Do(b) == [k |-> "Do", body |-> b]
While(c, b) == [k |-> "While", cond |-> c, body |-> b]
Repeat(b, c) == [k |-> "Repeat", body |-> b, cond |-> c]
If(c, b) == [k |-> "If", conds |-> <<c>>, bodies |-> <<b>>, else |-> <<>>]
IfElse(cs, bs, e) == [k |-> "If", conds |-> cs, bodies |-> bs, else |-> <<e>>]
For(x, bounds, b) == [k |-> "NumericFor", name |-> x, bounds |-> bounds, body |-> b]
ForIn(xs, it, b) == [k |-> "GenericFor", names |-> xs, iters |-> it, body |-> b]
Function(path, self, body) ==
  [k |-> "FuncDecl", path |-> path, needself |-> self, body |-> body]
LocalFunction(x, params, b) ==
  [k |-> "LocalFunc", name |-> x, body |-> Body(params, FALSE, b)]
Ret(vs) == [k |-> "Return", values |-> vs]
Break == [k |-> "Break"]
Run1(x) == [k |-> "ExprStat", expr |-> x]
Emits(xs) == Run1(CallX(V("emit"), xs))
Passes(xs) == CallX(V("pass"), xs)
Put(x, v) == Set(<<V(x)>>, <<v>>)
Meta(t, fields) == Run1(CallX(V("setmeta"), <<t, Ctor(fields)>>))

Externals == {"emit", "pass", "setmeta"}

----------------------------------------------------------------------------
(* Assignments, calls and results. *)

Plain == <<
  <<>>,
  << Ret(<<N(1), S("a"), NilX, TrueX, FalseX>>) >>,
  << Local(<<"a", "b", "c">>, <<N(1)>>), Local(<<"d">>, <<>>), Ret(<<V("a"), V("b"), V("c"), V("d")>>) >>,
  << Local(<<"a">>, <<N(1), N(2)>>), Local(<<"b">>, <<N(3), Passes(<<N(4), N(5)>>)>>),
     Ret(<<V("a"), V("b")>>) >>,
  << Local(<<"a", "b", "c">>, <<N(1), Passes(<<N(2), N(3), N(4)>>)>>), Ret(<<V("c"), V("b"), V("a")>>) >>,
  << Local(<<"a", "b", "c">>, <<Passes(<<N(2)>>)>>), Ret(<<V("a"), V("b"), V("c")>>) >>,
  << Local(<<"a", "b", "c">>, <<Dots>>), Ret(<<V("a"), V("b"), V("c"), Dots>>) >>,
  << Local(<<"a", "b">>, <<N(1), N(2)>>), Set(<<V("a"), V("b")>>, <<V("b"), V("a")>>),
     Ret(<<V("a"), V("b")>>) >>,
  (* targets and their places; an assigned local that an earlier target uses *)
  << Local(<<"i", "t">>, <<N(1), Ctor(<<>>)>>),
     Set(<<At(V("t"), V("i")), V("i")>>, <<V("t"), N(2)>>),
     Ret(<<V("i"), At(V("t"), N(1)), At(V("t"), N(2))>>) >>,
  << Local(<<"t", "i">>, <<Ctor(<<>>), N(1)>>), Local(<<"u">>, <<V("t")>>),
     Set(<<At(V("t"), V("i")), At(V("t"), N(7)), V("t"), V("i")>>, <<N(5), N(6), N(7), N(8)>>),
     Ret(<<At(V("u"), N(1)), At(V("u"), N(7)), V("t"), V("i")>>) >>,
  << Set(<<V("x"), V("y"), V("z")>>, <<N(1), Passes(<<N(2), N(3), N(4)>>)>>), Ret(<<V("x"), V("y"), V("z")>>) >>,
  << Set(<<V("x"), V("y")>>, <<N(1), N(2), N(3)>>), Ret(<<V("y"), V("x")>>) >>,
  << Local(<<"x">>, <<N(9)>>), Set(<<V("x"), V("y"), V("w")>>, <<Passes(<<>>)>>), Ret(<<V("y"), V("x"), V("w")>>) >>,
  << Local(<<"x", "y">>, <<N(9), N(8)>>), Set(<<V("x"), V("y")>>, <<N(7)>>), Ret(<<V("y"), V("x")>>) >>,
  << Local(<<"x", "y">>, <<>>), Set(<<V("x"), V("y")>>, <<Dots>>), Ret(<<V("y"), V("x")>>) >>,
  << Local(<<"a">>, <<N(1)>>), Local(<<"a", "b">>, <<V("a"), V("a")>>), Ret(<<V("a"), V("b")>>) >>,
  (* nil into registers: one instruction for neighbours, none across a jump   *)
  << Local(<<"a">>, <<N(1)>>), Local(<<"b">>, <<NilX>>), Local(<<"c">>, <<NilX>>), Put("a", NilX),
     Ret(<<V("a"), V("b"), V("c")>>) >>,
  << Local(<<"a", "b", "c">>, <<N(1), N(2), N(3)>>), Put("b", NilX), Put("c", NilX), Put("a", NilX), Put("b", NilX),
     Ret(<<V("a"), V("b"), V("c")>>) >>,
  << Local(<<"a", "b">>, <<N(1), N(2)>>), If(V("q"), <<Put("a", NilX)>>), Put("b", NilX), Ret(<<V("a"), V("b")>>) >>,
  << Local(<<"a", "b">>, <<N(1), N(2)>>), If(V("a"), <<Put("a", NilX)>>), Put("b", NilX), Ret(<<V("a"), V("b")>>) >>,
  << Emits(<<N(1)>>), Emits(<<>>), Emits(<<Passes(<<N(1), N(2)>>), Passes(<<N(3), N(4)>>)>>),
     Emits(<<Paren(Passes(<<N(1), N(2)>>))>>), Emits(<<Dots>>), Emits(<<Dots, Dots>>), Emits(<<Paren(Dots)>>) >>,
  << Ret(<<Passes(<<Dots>>)>>) >>,
  << Ret(<<Paren(Passes(<<Dots>>))>>) >>,
  << Ret(<<N(0), Passes(<<N(1), N(2)>>)>>) >>,
  << Ret(<<Passes(<<N(1), N(2)>>), N(0)>>) >>,
  << Run1(CallX(V("nothing"), <<>>)) >>,
  << Emits(<<N(1)>>), Put("x", At(V("nothing"), N(1))) >>,
  << Local(<<"t">>, <<Ctor(<<>>)>>), Set(<<At(V("t"), NilX)>>, <<N(1)>>) >>,
  << Local(<<"x">>, <<Bin("Add", N(1), NilX)>>) >>,
  << Local(<<"x">>, <<Bin("Lt", N(1), NilX)>>) >>,
  << Local(<<"x">>, <<Bin("Concat", N(1), NilX)>>) >>,
  << Local(<<"x">>, <<Un("Neg", TrueX)>>) >>,
  << Local(<<"x">>, <<Un("Len", TrueX)>>) >>
>>

(* Arithmetic, folded or not, concatenation and length.                       *)
Sums == <<
  << Ret(<<Bin("Add", N(1), Bin("Mul", N(2), N(3))), Bin("Sub", N(1), N(5)), Un("Neg", N(4)), Bin("Mod", N(7), N(3)),
           Bin("Mod", Un("Neg", N(7)), N(3)), Bin("Mod", N(7), Un("Neg", N(3)))>>) >>,
  << Local(<<"a", "b">>, <<N(7), N(3)>>),
     Ret(<<Bin("Add", V("a"), V("b")), Bin("Sub", V("a"), N(1)), Bin("Sub", N(1), V("b")), Un("Neg", V("a")),
           Bin("Mod", V("a"), V("b")), Bin("Mul", Bin("Add", V("a"), N(1)), Bin("Sub", V("b"), N(1)))>>) >>,
  << Put("x", N(5)), Local(<<"a">>, <<N(2)>>),
     Ret(<<Bin("Sub", V("x"), Bin("Sub", V("a"), Passes(<<N(1), N(9)>>))), Bin("Sub", Bin("Sub", V("x"), V("a")), Passes(<<N(1)>>))>>) >>,
  << Local(<<"a">>, <<N(2)>>),
     Ret(<<Bin("Concat", S("x"), Bin("Concat", V("a"), Bin("Concat", S("y"), N(3)))),
           Bin("Concat", Bin("Concat", S("x"), V("a")), S("y")),
           Bin("Concat", Passes(<<S("p"), N(4)>>), Bin("Concat", Bin("Add", V("a"), N(1)), S("q")))>>) >>,
  << Ret(<<Un("Len", S("abc")), Un("Len", List(3)), Un("Not", Un("Len", S(""))), Un("Neg", Un("Len", S("ab")))>>) >>,
  << Ret(<<Bin("Eq", N(1), N(1)), Bin("Ne", N(1), N(2)), Bin("Lt", N(1), N(2)), Bin("Gt", N(1), N(2)), Bin("Le", N(2), N(2)),
           Bin("Ge", N(1), N(2)), Bin("Eq", S("a"), N(1)), Bin("Eq", NilX, FalseX), Bin("Ne", NilX, V("q"))>>) >>,
  << Local(<<"a", "b">>, <<N(1), N(2)>>),
     Ret(<<Bin("Gt", Bin("Add", V("a"), N(2)), V("b")), Bin("Ge", V("a"), Bin("Add", V("a"), V("b"))),
           Bin("Eq", Bin("Lt", V("a"), V("b")), TrueX), Bin("Ne", Bin("Add", V("a"), N(1)), V("b"))>>) >>,
  << Local(<<"f">>, <<Passes(<<V("pass")>>)>>),
     Ret(<<Bin("Add", CallX(V("f"), <<N(1), N(2)>>), CallX(V("f"), <<N(3), N(4)>>)),
           Bin("Concat", CallX(V("f"), <<S("s")>>), CallX(V("f"), <<S("t")>>))>>) >>
>>

(* Tables: constructors, batches, fields, methods.                           *)
Stores == <<
  << Local(<<"t">>, <<Ctor(<<Item(N(1)), Named("x", N(2)), Keyed(Bin("Add", N(2), N(3)), S("five")), Item(N(4))>>)>>),
     Ret(<<At(V("t"), N(1)), Field(V("t"), "x"), At(V("t"), N(5)), At(V("t"), N(2)), Un("Len", V("t"))>>) >>,
  << Local(<<"t">>, <<List(5)>>), Ret(<<Un("Len", V("t")), At(V("t"), N(5)), At(V("t"), N(4))>>) >>,
  << Local(<<"t">>, <<List(LFIELDS_PER_FLUSH * (MAXARG_C + 1) + 1)>>),
     Ret(<<Un("Len", V("t")), At(V("t"), N(1)), At(V("t"), Un("Len", V("t")))>>) >>,
  << Local(<<"t">>, <<Ctor(<<Item(N(1)), Item(Passes(<<N(2), N(3), N(4)>>))>>)>>), Ret(<<Un("Len", V("t")), At(V("t"), N(4))>>) >>,
  << Local(<<"t">>, <<Ctor(<<Item(Passes(<<N(1), N(2)>>)), Item(Passes(<<N(3), N(4)>>))>>)>>), Ret(<<Un("Len", V("t")), At(V("t"), N(2))>>) >>,
  << Local(<<"t">>, <<Ctor(<<Item(Dots)>>)>>), Ret(<<Un("Len", V("t")), At(V("t"), N(1)), At(V("t"), N(2))>>) >>,
  << Local(<<"t">>, <<Ctor(<<Item(Paren(Dots)), Item(N(9))>>)>>), Ret(<<At(V("t"), N(1)), At(V("t"), N(2))>>) >>,
  << Local(<<"t">>, <<Ctor(<<Item(Ctor(<<Named("y", N(3))>>)), Named("f", Func(<<>>, <<Ret(<<N(6)>>)>>)), Item(Passes(<<N(1)>>))>>)>>),
     Ret(<<Field(At(V("t"), N(1)), "y"), CallX(Field(V("t"), "f"), <<>>), At(V("t"), N(2))>>) >>,
  << Local(<<"t">>, <<Ctor(<<>>)>>), Set(<<Field(V("t"), "x")>>, <<Ctor(<<>>)>>), Set(<<Field(Field(V("t"), "x"), "y")>>, <<N(1)>>),
     Set(<<At(V("t"), Field(Field(V("t"), "x"), "y"))>>, <<Bin("Add", Field(Field(V("t"), "x"), "y"), N(1))>>),
     Ret(<<At(V("t"), N(1)), Field(Field(V("t"), "x"), "y")>>) >>,
  << Local(<<"t">>, <<Ctor(<<Named("n", N(1))>>)>>),
     Function(<<"t", "add">>, TRUE, Body(<<"x">>, FALSE, <<Set(<<Field(V("self"), "n")>>, <<Bin("Add", Field(V("self"), "n"), V("x"))>>), Ret(<<V("self")>>)>>)),
     Ret(<<Field(Method(Method(V("t"), "add", <<N(2)>>), "add", <<Passes(<<N(3), N(4)>>)>>), "n")>>) >>,
  << Put("g", Ctor(<<Named("h", Ctor(<<>>))>>)), Function(<<"g", "h", "f">>, FALSE, Body(<<"x">>, FALSE, <<Ret(<<V("x"), V("x")>>)>>)),
     Ret(<<CallX(Field(Field(V("g"), "h"), "f"), <<N(8)>>)>>) >>,
  << Function(<<"f">>, FALSE, Body(<<"a", "b">>, FALSE, <<Ret(<<V("b"), V("a")>>)>>)), Emits(<<CallX(V("f"), <<N(1)>>)>>),
     Emits(<<CallX(V("f"), <<N(1), N(2), N(3)>>)>>), Ret(<<CallX(V("f"), <<CallX(V("f"), <<N(1), N(2)>>)>>)>>) >>
>>

(* Loops, breaks and the variables that closures keep.                       *)
Count(x, from, to, b) == For(x, <<N(from), N(to)>>, b)
Keep(x) == Set(<<At(V("fs"), Bin("Add", Un("Len", V("fs")), N(1)))>>, <<Func(<<>>, <<Put(x, Bin("Add", V(x), N(10))), Ret(<<V(x)>>)>>)>>)
Kept(b) == <<Local(<<"fs">>, <<Ctor(<<>>)>>)>> \o b \o
           <<Count("i", 1, 2, <<Count("j", 1, 2, <<If(At(V("fs"), V("j")), <<Emits(<<CallX(At(V("fs"), V("j")), <<>>)>>)>>)>>)>>)>>
Bump(x) == Put(x, Bin("Add", V(x), N(1)))

Loops == <<
  << Local(<<"s">>, <<N(0)>>), Count("i", 1, 3, <<Put("s", Bin("Add", V("s"), V("i")))>>), Ret(<<V("s")>>) >>,
  << For("i", <<N(3), N(1), Un("Neg", N(1))>>, <<Emits(<<V("i")>>)>>), For("i", <<N(1), N(5), N(2)>>, <<Emits(<<V("i")>>)>>), Count("i", 2, 1, <<Emits(<<V("i")>>)>>) >>,
  << Count("i", 1, 9, <<Put("i", Bin("Mul", V("i"), N(2))), If(Bin("Gt", V("i"), N(5)), <<Break>>), Emits(<<V("i")>>)>>) >>,
  << For("i", <<NilX, N(1)>>, <<>>) >>,
  << Local(<<"n">>, <<N(0)>>), While(Bin("Lt", V("n"), N(3)), <<Bump("n"), If(Bin("Eq", V("n"), N(2)), <<Break>>), Emits(<<V("n")>>)>>), Ret(<<V("n")>>) >>,
  << Local(<<"n">>, <<N(0)>>), While(TrueX, <<Bump("n"), IfElse(<<Bin("Lt", V("n"), N(2)), Bin("Lt", V("n"), N(3))>>, <<<<Emits(<<S("a")>>)>>, <<Emits(<<S("b")>>)>>>>, <<Break>>)>>), Ret(<<V("n")>>) >>,
  << Local(<<"n">>, <<N(0)>>), Repeat(<<Bump("n"), Local(<<"last">>, <<Bin("Ge", V("n"), N(3))>>), Emits(<<V("n")>>)>>, V("last")) >>,
  << Local(<<"n">>, <<N(0)>>), Repeat(<<Bump("n"), If(Bin("Eq", V("n"), N(2)), <<Break>>)>>, FalseX), Ret(<<V("n")>>) >>,
  << LocalFunction("it", <<"s", "c">>, <<If(Bin("Lt", V("c"), V("s")), <<Ret(<<Bin("Add", V("c"), N(1)), V("s")>>)>>)>>),
     ForIn(<<"a", "b">>, <<V("it"), N(3), N(0)>>, <<Emits(<<V("a"), V("b")>>), If(Bin("Eq", V("a"), N(2)), <<Break>>)>>),
     ForIn(<<"a">>, <<V("it"), N(1), N(0)>>, <<Emits(<<V("a")>>)>>),
     ForIn(<<"a", "b", "c">>, <<Passes(<<V("it"), N(2), N(0), N(7)>>)>>, <<Emits(<<V("a"), V("b"), V("c")>>)>>) >>,
  << ForIn(<<"a">>, <<V("pass"), NilX>>, <<Emits(<<V("a")>>)>>), ForIn(<<"a">>, <<V("pass"), N(1)>>, <<Emits(<<V("a")>>), Break>>), ForIn(<<"a">>, <<N(1)>>, <<>>) >>,
  (* a closure in every kind of block, called again after the block *)
  Kept(<<Count("i", 1, 2, <<Keep("i")>>)>>),
  Kept(<<Count("i", 1, 2, <<Local(<<"x">>, <<V("i")>>), Keep("x"), Keep("x")>>)>>),
  Kept(<<Count("i", 1, 3, <<Local(<<"x">>, <<V("i")>>), Keep("x"), If(Bin("Eq", V("i"), N(2)), <<Break>>)>>)>>),
  Kept(<<Do(<<Local(<<"x">>, <<N(1)>>), Keep("x")>>), Do(<<Local(<<"y">>, <<N(2)>>), Emits(<<V("y")>>)>>), Local(<<"z">>, <<N(3)>>)>>),
  Kept(<<Local(<<"n">>, <<N(0)>>), Repeat(<<Bump("n"), Local(<<"x">>, <<V("n")>>), Keep("x")>>, Bin("Ge", V("x"), N(2)))>>),
  Kept(<<Local(<<"n">>, <<N(0)>>), Repeat(<<Bump("n"), Local(<<"x">>, <<V("n")>>), Keep("x"), If(Bin("Eq", V("n"), N(2)), <<Break>>)>>, FalseX)>>),
  Kept(<<ForIn(<<"a">>, <<Func(<<"s", "c">>, <<If(Bin("Lt", V("c"), N(2)), <<Ret(<<Bin("Add", V("c"), N(1))>>)>>)>>), N(0), N(0)>>, <<Keep("a")>>)>>),
  Kept(<<Local(<<"n">>, <<N(0)>>), While(Bin("Lt", V("n"), N(1)), <<Bump("n"), Local(<<"x">>, <<V("n")>>), Keep("x"), If(Bin("Eq", V("n"), N(1)), <<Break>>)>>)>>),
  Kept(<<Local(<<"x">>, <<N(1)>>), Keep("x"), Local(<<"y">>, <<N(5)>>), Keep("y"), Do(<<Local(<<"z">>, <<N(7)>>), Keep("z"), Emits(<<V("x")>>)>>), Emits(<<V("x"), V("y")>>)>>),
  << While(V("q"), <<Emits(<<N(1)>>)>>), Emits(<<N(2)>>), Count("i", 1, 2, <<While(TrueX, <<Break>>), Emits(<<V("i")>>)>>) >>,
  << Break >>
>>

(* Functions: parameters, varargs, upvalues through several functions, tail   *)
(* calls that give up their frame.                                           *)
Functions1 == <<
  << Local(<<"f">>, <<FuncV(<<"a">>, <<Ret(<<V("a"), Dots>>)>>)>>), Emits(<<CallX(V("f"), <<>>)>>), Emits(<<CallX(V("f"), <<N(1), N(2), N(3)>>)>>) >>,
  << Local(<<"f">>, <<FuncV(<<"a">>, <<Ret(<<Field(V("arg"), "n"), At(V("arg"), N(1)), At(V("arg"), N(2)), V("a")>>)>>)>>), Emits(<<CallX(V("f"), <<N(1), N(2), NilX, N(4)>>)>>), Ret(<<CallX(V("f"), <<>>)>>) >>,
  << Local(<<"f">>, <<FuncV(<<"arg">>, <<Ret(<<V("arg")>>)>>)>>), Ret(<<CallX(V("f"), <<N(4), N(5)>>)>>) >>,
  << Local(<<"f">>, <<FuncV(<<>>, <<Local(<<"x", "y">>, <<Dots>>), Local(<<"z">>, <<N(8)>>), Ret(<<V("z"), V("y"), V("x")>>)>>)>>), Ret(<<CallX(V("f"), <<N(1)>>)>>) >>,
  << Local(<<"f">>, <<FuncV(<<>>, <<Local(<<"x", "y", "z">>, <<N(1), Dots>>), Ret(<<Ctor(<<Item(Dots)>>), V("z"), V("y"), V("x")>>)>>)>>), Ret(<<CallX(V("f"), <<N(1)>>)>>) >>,
  << LocalFunction("f", <<"n">>, <<If(Bin("Le", V("n"), N(1)), <<Ret(<<N(1)>>)>>), Ret(<<Bin("Mul", V("n"), CallX(V("f"), <<Bin("Sub", V("n"), N(1))>>))>>)>>), Ret(<<CallX(V("f"), <<N(4)>>)>>) >>,
  << LocalFunction("f", <<"n", "a">>, <<If(Bin("Eq", V("n"), N(0)), <<Ret(<<V("a"), N(7)>>)>>), Ret(<<CallX(V("f"), <<Bin("Sub", V("n"), N(1)), Bin("Add", V("a"), V("n"))>>)>>)>>), Ret(<<CallX(V("f"), <<N(3), N(0)>>)>>) >>,
  << Put("keep", NilX), LocalFunction("g", <<"x">>, <<Local(<<"y", "z">>, <<N(5), N(6)>>), Ret(<<CallX(V("keep"), <<>>)>>)>>),
     LocalFunction("f", <<"a">>, <<Local(<<"b">>, <<Bin("Add", V("a"), N(1))>>), Put("keep", Func(<<>>, <<Bump("b"), Ret(<<V("b"), V("a")>>)>>)), Ret(<<CallX(V("g"), <<N(9)>>)>>)>>),
     Emits(<<CallX(V("f"), <<N(1)>>)>>), Ret(<<CallX(V("keep"), <<>>)>>) >>,
  << Local(<<"a">>, <<N(1)>>), Local(<<"f">>, <<Func(<<"b">>, <<Ret(<<Func(<<"c">>, <<Put("a", Bin("Add", V("a"), V("c"))), Put("b", Bin("Add", V("b"), V("a"))), Ret(<<V("a"), V("b")>>)>>)>>)>>)>>),
     Local(<<"g", "h">>, <<CallX(V("f"), <<N(10)>>), CallX(V("f"), <<N(20)>>)>>),
     Emits(<<CallX(V("g"), <<N(1)>>)>>), Emits(<<CallX(V("h"), <<N(1)>>)>>), Emits(<<CallX(V("g"), <<N(1)>>)>>), Ret(<<V("a")>>) >>,
  << Local(<<"a", "b">>, <<N(1), N(2)>>), Local(<<"f">>, <<Func(<<>>, <<Ret(<<Func(<<>>, <<Ret(<<V("b"), V("a")>>)>>), V("b")>>)>>)>>), Put("a", N(3)), Ret(<<CallX(CallX(V("f"), <<>>), <<>>)>>) >>,
  (* registers that an earlier, deeper call has used are clean again *)
  << Local(<<"f", "g">>, <<Func(<<"a">>, <<Local(<<"x", "y", "z">>, <<N(1), N(2), N(3)>>), Ret(<<V("x")>>)>>), Func(<<"a">>, <<Local(<<"b", "c">>, <<>>), Ret(<<V("a"), V("b"), V("c")>>)>>)>>),
     Emits(<<CallX(V("f"), <<N(0)>>)>>), Emits(<<CallX(V("g"), <<>>)>>), Emits(<<CallX(V("f"), <<N(0), N(1), N(2), N(3), N(4), N(5), N(6)>>)>>), Emits(<<CallX(V("g"), <<N(4)>>)>>) >>,
  << Local(<<"a", "b", "c">>, <<CallX(Func(<<>>, <<Ret(<<N(1)>>)>>), <<>>)>>), Ret(<<V("a"), V("b"), V("c")>>) >>,
  << Local(<<"t">>, <<Ctor(<<>>)>>), Meta(V("t"), <<Named("__call", Func(<<"self", "x">>, <<Ret(<<V("x"), V("self")>>)>>))>>), Emits(<<CallX(V("t"), <<N(5)>>)>>), Ret(<<CallX(V("t"), <<N(6), N(7)>>)>>) >>,
  << Emits(<<CallX(Func(<<"a", "b">>, <<If(V("a"), <<Ret(<<V("b")>>)>>), Ret(<<>>)>>), <<N(1), N(2)>>), CallX(Func(<<>>, <<>>), <<>>)>>) >>
>>

(* Metamethods, Lua and external, also where they answer with a jump.        *)
MetaT(fields) == <<Local(<<"t", "u">>, <<Ctor(<<Named("v", N(1))>>), Ctor(<<Named("v", N(2))>>)>>), Local(<<"mt">>, <<Ctor(fields)>>),
                   Run1(CallX(V("setmeta"), <<V("t"), V("mt")>>)), Run1(CallX(V("setmeta"), <<V("u"), V("mt")>>))>>
Vsum(op) == Func(<<"x", "y">>, <<Emits(<<V("x"), V("y")>>), Ret(<<Bin(op, Field(V("x"), "v"), Field(V("y"), "v")), N(99)>>)>>)
Second == Func(<<"x", "y">>, <<Ret(<<V("y"), V("x")>>)>>)

Metas == <<
  MetaT(<<Named("__add", Vsum("Add")), Named("__sub", Vsum("Sub")), Named("__mul", Second), Named("__mod", V("pass")), Named("__unm", Func(<<"x">>, <<Ret(<<Field(V("x"), "v")>>)>>))>>)
    \o <<Local(<<"k">>, <<N(7)>>), Ret(<<Bin("Add", V("t"), V("u")), Bin("Sub", V("t"), V("u")), Bin("Mul", V("t"), N(3)), Bin("Mul", N(4), V("u")), Bin("Mod", V("t"), N(2)), Un("Neg", V("u")), V("k")>>)>>,
  MetaT(<<Named("__concat", Func(<<"x", "y">>, <<Emits(<<V("x"), V("y")>>), Ret(<<S("c")>>)>>))>>)
    \o <<Ret(<<Bin("Concat", S("a"), Bin("Concat", V("t"), Bin("Concat", S("b"), Bin("Concat", N(1), S("d"))))), Bin("Concat", V("t"), V("u"))>>)>>,
  MetaT(<<Named("__eq", Func(<<"x", "y">>, <<Ret(<<Bin("Eq", Field(V("x"), "v"), N(1))>>)>>)), Named("__lt", Vsum("Lt")), Named("__le", Vsum("Le"))>>)
    \o <<Emits(<<Bin("Eq", V("t"), V("u")), Bin("Ne", V("t"), V("u")), Bin("Eq", V("u"), V("t")), Bin("Eq", V("t"), V("t")), Bin("Eq", V("t"), N(1))>>),
         Emits(<<Bin("Lt", V("t"), V("u")), Bin("Gt", V("t"), V("u")), Bin("Le", V("t"), V("u")), Bin("Ge", V("t"), V("u"))>>),
         IfElse(<<Bin("Gt", V("t"), V("u")), Bin("Lt", V("t"), V("u"))>>, <<<<Ret(<<N(1)>>)>>, <<Ret(<<N(2)>>)>>>>, <<Ret(<<N(3)>>)>>)>>,
  MetaT(<<Named("__lt", Vsum("Lt"))>>)
    \o <<Ret(<<Bin("Le", V("t"), V("u")), Bin("Ge", V("t"), V("u")), Un("Not", Bin("Le", V("u"), V("t"))), Bin("And", Bin("Le", V("u"), V("t")), N(5))>>)>>,
  MetaT(<<Named("__index", Func(<<"x", "y">>, <<Ret(<<V("y"), V("x")>>)>>)), Named("__newindex", Func(<<"x", "y", "z">>, <<Emits(<<V("y"), V("z")>>)>>))>>)
    \o <<Set(<<Field(V("t"), "v")>>, <<N(5)>>), Set(<<Field(V("t"), "w")>>, <<N(6)>>), Local(<<"k">>, <<N(7)>>), Emits(<<Field(V("t"), "v"), Field(V("t"), "w"), At(V("t"), N(3)), V("k")>>)>>,
  MetaT(<<Named("__index", Ctor(<<Named("w", N(4)), Named("f", Func(<<"self">>, <<Ret(<<Field(V("self"), "v")>>)>>))>>)), Named("__newindex", V("pass"))>>)
    \o <<Set(<<Field(V("t"), "w")>>, <<N(6)>>), Emits(<<Field(V("t"), "w"), Method(V("u"), "f", <<>>), Field(V("t"), "zz")>>)>>,
  (* a chain of tables, each the index of the one before, and one that loops *)
  << Local(<<"a", "b", "c">>, <<Ctor(<<>>), Ctor(<<>>), Ctor(<<Named("x", N(3))>>)>>),
     Meta(V("a"), <<Named("__index", V("b")), Named("__newindex", V("b"))>>), Meta(V("b"), <<Named("__index", V("c")), Named("__newindex", V("c"))>>),
     Set(<<Field(V("a"), "y")>>, <<N(1)>>), Emits(<<Field(V("a"), "x"), Field(V("a"), "y"), Field(V("b"), "y"), Field(V("c"), "y")>>) >>,
  MetaT(<<Named("__add", N(1))>>) \o <<Ret(<<Bin("Add", V("t"), V("u"))>>)>>,
  MetaT(<<>>) \o <<Ret(<<Bin("Lt", V("t"), V("u"))>>)>>,
  MetaT(<<Named("__call", Func(<<"self", "s", "c">>, <<If(Bin("Lt", V("c"), N(2)), <<Ret(<<Bin("Add", V("c"), N(1))>>)>>)>>))>>)
    \o <<ForIn(<<"a">>, <<V("t"), N(0), N(0)>>, <<Emits(<<V("a")>>)>>), Ret(<<CallX(V("t"), <<N(0), N(1)>>)>>)>>
>>

(* What goes wrong, and what the message should call it: values under every    *)
(* kind of name, in registers that held other things before.                  *)
Failing == <<
  << Local(<<"a", "f">>, <<N(1)>>), Run1(CallX(V("f"), <<V("a")>>)) >>,
  << Put("x", N(5)), Emits(<<N(1), N(2)>>), Run1(CallX(V("x"), <<>>)) >>,
  << Local(<<"t">>, <<Ctor(<<>>)>>), Emits(<<V("t")>>), Run1(CallX(Field(V("t"), "f"), <<V("t"), N(1)>>)) >>,
  << Local(<<"t">>, <<Ctor(<<>>)>>), Ret(<<CallX(Field(V("t"), "f"), <<V("t")>>)>>) >>,
  << Local(<<"t", "k">>, <<Ctor(<<>>), S("k")>>), Emits(<<Field(At(V("t"), V("k")), "y")>>) >>,
  << Local(<<"t">>, <<Ctor(<<>>)>>), Set(<<Field(Field(V("t"), "x"), "y"), V("t")>>, <<N(1), N(2)>>) >>,
  << Local(<<"t">>, <<Ctor(<<>>)>>), Run1(Method(V("t"), "go", <<N(1)>>)) >>,
  << Local(<<"t">>, <<Ctor(<<>>)>>), Run1(Method(Field(V("t"), "x"), "go", <<N(1)>>)) >>,
  << Local(<<"t", "u">>, <<NilX>>), Run1(Method(V("u"), "go", <<N(1)>>)) >>,
  << Emits(<<V("q")>>), Set(<<Field(V("nothing"), "x")>>, <<N(1)>>) >>,
  << Function(<<"nothing", "f">>, FALSE, Body(<<>>, FALSE, <<>>)) >>,
  << Local(<<"u">>, <<NilX>>), Local(<<"f">>, <<Func(<<"a">>, <<Local(<<"b">>, <<V("a")>>), Ret(<<Bin("Add", V("b"), V("u"))>>)>>)>>), Emits(<<CallX(V("f"), <<N(1)>>)>>) >>,
  << Local(<<"u", "w">>, <<NilX>>), Local(<<"f">>, <<Func(<<"u">>, <<Emits(<<V("u"), Field(V("w"), "x")>>)>>)>>), Ret(<<CallX(V("f"), <<N(1)>>)>>) >>,
  << Local(<<"u">>, <<NilX>>), Local(<<"f">>, <<Func(<<>>, <<Ret(<<CallX(V("u"), <<>>)>>)>>)>>), Ret(<<CallX(V("f"), <<>>)>>) >>,
  (* shadowing and registers used again                                        *)
  << Local(<<"a">>, <<N(1)>>), Do(<<Local(<<"a", "b">>, <<N(2), N(3)>>), Emits(<<V("a"), V("b")>>)>>), Emits(<<Field(V("q"), "x")>>) >>,
  << Local(<<"a">>, <<N(1)>>), Local(<<"a">>, <<Ctor(<<>>)>>), Do(<<Local(<<"b">>, <<N(3)>>)>>), Run1(CallX(Paren(V("a")), <<>>)) >>,
  << Local(<<"a">>, <<N(1)>>), Local(<<"f">>, <<Func(<<>>, <<Ret(<<V("a")>>)>>)>>), Emits(<<Field(Field(V("f"), "x"), "y")>>) >>,
  << Local(<<"a", "g">>, <<N(1)>>), Local(<<"t">>, <<List(8)>>), Local(<<"f">>, <<Func(<<>>, <<Ret(<<V("a"), V("g")>>)>>)>>), Emits(<<Un("Len", Field(V("t"), "x"))>>) >>,
  << Emits(<<CallX(Passes(<<N(1)>>), <<N(2)>>)>>) >>,
  << Emits(<<Field(Passes(<<NilX>>), "y")>>) >>,
  << Emits(<<Bin("Add", Field(V("q"), "x"), N(1))>>) >>,
  (* the operand to blame                                                      *)
  << Local(<<"a", "b">>, <<N(1)>>), Ret(<<Bin("Add", V("a"), V("b"))>>) >>,
  << Local(<<"a", "b">>, <<N(1)>>), Ret(<<Bin("Mul", V("q"), V("b"))>>) >>,
  << Local(<<"a", "b">>, <<N(1)>>), Ret(<<Bin("Sub", Bin("Add", V("a"), N(2)), Un("Neg", V("b")))>>) >>,
  << Local(<<"t">>, <<Ctor(<<>>)>>), Ret(<<Bin("Mod", Bin("Add", N(1), Passes(<<N(2)>>)), Field(V("t"), "x"))>>) >>,
  << Local(<<"a", "b">>, <<S("x")>>), Ret(<<Bin("Concat", V("a"), Bin("Concat", V("b"), S("y")))>>) >>,
  << Local(<<"a">>, <<S("x")>>), Ret(<<Bin("Concat", V("a"), Bin("Concat", V("q"), Bin("Concat", V("a"), V("emit"))))>>) >>,
  << Local(<<"a">>, <<S("x")>>), Ret(<<Bin("Concat", V("q"), Bin("Concat", Field(V("a"), "z"), V("a")))>>) >>,
  << Local(<<"a">>, <<S("x")>>), Ret(<<Bin("Concat", V("pass"), V("a"))>>) >>,
  << Ret(<<Un("Len", V("q"))>>) >>,
  MetaT(<<Named("__add", Func(<<"x", "y">>, <<Ret(<<Field(Field(V("x"), "q"), "z")>>)>>))>>) \o <<Ret(<<Bin("Add", V("t"), V("u"))>>)>>,
  (* jumps on the way                                                          *)
  << Local(<<"a">>, <<N(1)>>), IfElse(<<V("q")>>, << <<Put("x", Field(V("a"), "b"))>> >>, <<Put("y", Field(V("w"), "c"))>>) >>,
  << Local(<<"a">>, <<N(1)>>), If(V("a"), <<Run1(CallX(V("a"), <<V("q")>>))>>), Emits(<<Field(V("q"), "c")>>) >>,
  << Local(<<"n">>, <<N(0)>>), While(Bin("Lt", V("n"), N(2)), <<Bump("n"), If(Bin("Eq", V("n"), N(2)), <<Put("x", Field(V("q"), "c"))>>)>>) >>,
  << Local(<<"n">>, <<N(0)>>), Repeat(<<Local(<<"x">>, <<V("n")>>), Bump("n")>>, Field(V("x"), "c")) >>,
  << Local(<<"x">>, <<Bin("Eq", V("q"), N(2))>>), Ret(<<Field(V("x"), "c")>>) >>,
  << Count("i", 1, 2, <<Run1(CallX(V("i"), <<V("q")>>))>>) >>,
  << ForIn(<<"k">>, <<N(5)>>, <<Emits(<<V("k")>>)>>) >>,
  << Local(<<"a">>, <<N(1)>>), ForIn(<<"k", "v">>, <<V("pass"), N(5), N(6)>>, <<Emits(<<Field(V("v"), "x")>>)>>) >>
>>

Written == Plain \o Sums \o Stores \o Loops \o Functions1 \o Metas \o Failing

----------------------------------------------------------------------------
(* Every small combination of and, or, not and a comparison, in every place.  *)

Atoms == << FalseX, N(1), V("a"), Passes(<<NilX, N(2)>>), Bin("Lt", V("n"), N(2)) >>

Negated(x, yes) == IF yes THEN Un("Not", x) ELSE x

(* A context that shows the value or the outcome of x.                        *)
Places == << "local", "assign", "return", "argument", "item", "key", "operand",
             "if", "elseif", "while", "repeat" >>
InPlace(place, x) ==
  <<Local(<<"a", "n">>, <<Dots>>), Local(<<"r">>, <<N(5)>>)>> \o
  CASE place = "local" -> <<Local(<<"y">>, <<x>>), Ret(<<V("y"), V("r")>>)>>
    [] place = "assign" -> <<Put("r", x), Ret(<<V("r"), V("a")>>)>>
    [] place = "return" -> <<Ret(<<x>>)>>
    [] place = "argument" -> <<Emits(<<x, V("r"), x>>)>>
    [] place = "item" -> <<Local(<<"t">>, <<Ctor(<<Item(x), Named("z", x), Item(x)>>)>>),
                           Ret(<<At(V("t"), N(1)), Field(V("t"), "z"), At(V("t"), N(2))>>)>>
    [] place = "key" -> <<Local(<<"t">>, <<Ctor(<<>>)>>), Set(<<At(V("t"), x), V("r")>>, <<V("n"), x>>), Ret(<<V("r"), At(V("t"), V("r"))>>)>>
    [] place = "operand" -> <<Ret(<<Bin("Eq", x, V("r")), Un("Not", x), Bin("Ne", V("a"), x)>>)>>
    [] place = "if" -> <<If(x, <<Emits(<<N(1)>>)>>), IfElse(<<Un("Not", x)>>, << <<Ret(<<N(2)>>)>> >>, <<Ret(<<N(3)>>)>>)>>
    [] place = "elseif" -> <<IfElse(<<Bin("Eq", V("a"), N(6)), x>>, << <<Emits(<<N(1)>>)>>, <<Emits(<<N(2)>>)>> >>, <<Emits(<<N(3)>>)>>), Ret(<<V("r")>>)>>
    [] place = "while" -> <<While(x, <<Bump("n"), If(Bin("Gt", V("n"), N(4)), <<Break>>)>>), Ret(<<V("n")>>)>>
    [] place = "repeat" -> <<Repeat(<<Bump("n"), If(Bin("Gt", V("n"), N(4)), <<Break>>)>>, x), Ret(<<V("n")>>)>>

CONSTANTS Inputs,   \* the arguments that these chunks are called with
          Deep,     \* the places in which operators are nested twice
          Typed,    \* the length of the token sequences that are only parsed
          Departure \* the program of Gaps that GapSpec runs

(* Programs for which the code does something else, left out above: a closure  *)
(* in the body of a while, nil for a parameter in the first statement, an     *)
(* operand too far down the constants, a call that is not the last field,     *)
(* more values than variables with `...' last, and one loop after the other,  *)
(* whose variables are all counted till the block ends.                       *)
Gaps == <<
  Kept(<<Local(<<"n">>, <<N(0)>>), While(Bin("Lt", V("n"), N(2)), <<Bump("n"), Local(<<"x">>, <<V("n")>>), Keep("x")>>)>>),
  << Local(<<"f">>, <<Func(<<"a">>, <<Put("a", NilX), Ret(<<V("a")>>)>>)>>), Ret(<<CallX(V("f"), <<N(1)>>)>>) >>,
  << Local(<<"t">>, <<Ctor(<<Named("u", N(0)), Named("v", N(7))>>)>>), Emits(<<Bin("Add", N(5), Passes(<<N(6)>>))>>) >>,
  << Local(<<"t">>, <<Ctor(<<Item(Passes(<<N(1), N(2)>>)), Named("x", N(3))>>)>>), Ret(<<Un("Len", V("t"))>>) >>,
  << Local(<<"x">>, <<N(5)>>), Local(<<"y">>, <<N(1), N(2), Dots>>), Ret(<<V("x"), V("y")>>) >>,
  [i \in 1..6 |-> Count("i", 1, 1, <<Emits(<<V("i")>>)>>)]
>>

(* A behaviour takes a program with its arguments, and with a text when it is *)
(* to be read; the others are compiled as they are.                           *)
Running(block, args) == prog = [block |-> block, args |-> args, text |-> G!TextOf(G!Block(block))]
Built(block, args) == prog = [block |-> block, args |-> args, text |-> <<>>]

InitWritten == \E i \in DOMAIN Written : Running(Written[i], <<Number(3), Number(4)>>)

Twice(left, o1, o2, x, y, z, not) ==
  IF left THEN Bin(o2, Negated(Bin(o1, x, y), not), z)
  ELSE Bin(o1, x, Negated(Bin(o2, y, z), not))

(* One operator in every place, and two in the places of Deep.                *)
InitOne ==
  \E place \in Range(Places), args \in Inputs, op \in {"And", "Or"},
    i \in DOMAIN Atoms, j \in DOMAIN Atoms, x \in BOOLEAN, y \in BOOLEAN :
      Running(InPlace(place, Bin(op, Negated(Atoms[i], x), Negated(Atoms[j], y))), args)

InitTwo ==
  \E place \in Deep, args \in Inputs, o1 \in {"And", "Or"}, o2 \in {"And", "Or"},
    i \in DOMAIN Atoms, j \in DOMAIN Atoms, k \in DOMAIN Atoms,
    left \in BOOLEAN, not \in BOOLEAN :
      Built(InPlace(place, Twice(left, o1, o2, Atoms[i], Atoms[j], Atoms[k], not)), args)

(* Text that no tree was printed for: every short sequence of some tokens,    *)
(* behind `return' or as statements, and of some characters, also inside a    *)
(* comment and a string; it is read and not run.                              *)
Operands == {"a", "-", "^", "..", "<", "(", ")"}
Words_ == {"a", "\n(", "(", ")", "=", ",", "do", "end", "local", "function", "break"}
Chars == {"]", "=", "\n", "\r", "\\", "\"", "-", "a"}
Openings == {<<>>, <<"\"">>, <<"-", "-", "[", "[">>, <<"[", "=", "[">>}

Sequence(set, n) == UNION {[1 .. k -> set] : k \in 1 .. n}
Apart(words) ==
  FoldLeft(LAMBDA acc, x : acc \o (CASE x = "\n(" -> <<"\n", "(">> [] x = ".." -> <<" ", ".", ".">>
                                     [] OTHER -> <<" ", x>>),
           <<>>, words)

Typings ==
  {Apart(<<"return">> \o s) : s \in Sequence(Operands, Typed + 1)}
  \cup {Apart(s) : s \in Sequence(Words_, Typed)}
  \cup {o \o s : o \in Openings, s \in Sequence(Chars, Typed)}

InitTyped == \E text \in Typings : prog = [block |-> <<>>, args |-> <<>>, text |-> text]

(* What is compiled: the tree that the text of a program is read as.          *)
Outcome(r) == [err |-> r.p.err, block |-> r.v]
ReadAs(lexed) == IF lexed.err # "" THEN [err |-> lexed.err, block |-> <<>>] ELSE Outcome(P!Parse(lexed.toks))
Source(p) ==
  IF p.text = <<>> \/ p.block = <<>> THEN [err |-> "", block |-> p.block] ELSE ReadAs(L!Lex(p.text))

Begin(c, args, err) ==
  LET s == Start(c.proto, Externals, args)
  IN IF err # "" THEN Error(s, err) ELSE IF c.ok THEN s ELSE Error(s, c.err)
Load(source, args) == Begin(Compile(source.block), args, source.err)
Loaded == m = Load(Source(prog), prog.args)

Ended == m.status # "run" /\ UNCHANGED vars

Init == (InitWritten \/ InitOne \/ InitTwo \/ InitTyped) /\ Loaded
Next == (Step /\ UNCHANGED prog) \/ Ended
Spec == Init /\ [][Next]_vars

GapInit == Running(Gaps[Departure], <<Number(3), Number(4)>>) /\ Loaded
GapSpec == GapInit /\ [][Next]_vars

----------------------------------------------------------------------------
(* Properties. *)

Shown == [log |-> [i \in DOMAIN m.log |-> SeenAll(m.log[i])],
          results |-> IF m.status = "done" THEN SeenAll(Results) ELSE <<>>,
          failed |-> m.status # "done"]

(* A program that has ended told the outside, returned and failed exactly as  *)
(* the manual says it does: neither the registers that the code generator     *)
(* shares between values, nor its pending jumps, nor the machine's stack and  *)
(* frames can be seen.                                                        *)
SameShown(meant) ==
  Shown.log = meant.log /\ Shown.results = meant.results /\ Shown.failed = meant.failed
Agrees == m.status # "run" => SameShown(Meaning(prog.block, Externals, prog.args))

(* The message of an error names the value that was to blame as the program   *)
(* names it, as a local, a global, an upvalue, a field or a method, and names *)
(* no other: the registers have been used for other values before and after,  *)
(* and the search reads the instructions in a straight line.  A field whose   *)
(* key was in a register is called "?".                                       *)
SameName(said, meant) == meant[1] = "any" \/ said = meant \/ (said[1] = meant[1] /\ said[2] = "?")
BlamesRight ==
  m.status \notin {"run", "done"} /\ Len(m.frames) > 0 /\ Frame(m).pc > 0 =>
    SameName(Reported(m), Meaning(prog.block, Externals, prog.args).name)

(* What is accepted is understood as it was written: the tree, put down again *)
(* by the manual's grammar and its table of operators, gives the tokens back,  *)
(* so no operator binds otherwise and nothing is dropped or made up; no        *)
(* argument list opens on a line of its own; the counts of levels, loops and   *)
(* scopes are what they were; and every token is on the line where it is,      *)
(* whatever comments and strings stand before it.                              *)
Compared(toks) ==
  [i \in DOMAIN toks |-> <<toks[i].t, IF toks[i].t = "(" THEN "" ELSE toks[i].v>>]
SameText(toks, again, p) ==
  /\ Compared(again) = Compared(toks)
  /\ \A i \in DOMAIN again : again[i].t = "(" /\ again[i].v = "call" => ~toks[i].nl
  /\ p.depth = 0 /\ p.loop = 0 /\ Len(p.scopes) = 1
Bare(toks) == SelectSeq(toks, LAMBDA x : x.t # ";")
Understood(toks, r) == r.p.err = "" => SameText(Bare(toks), Bare(G!Block(r.v)), r.p)
InLines(toks, breaks) ==
  \A i \in DOMAIN toks : toks[i].line = 1 + Cardinality({b \in breaks : b < toks[i].at})
ReadsAll(lexed, text) ==
  /\ InLines(lexed.toks, G!Breaks(text))
  /\ lexed.err = "" => Understood(lexed.toks, P!Parse(lexed.toks))
Reads == (Len(m.frames) = 1 /\ Frame(m).pc = 0) => ReadsAll(L!Lex(prog.text), prog.text)

(* The registers an instruction uses, and its constants.                      *)
RKs(xs) == {x \in xs : x < BITRK}
Registers(i) ==
  CASE i.op \in {"MOVE", "UNM", "NOT", "LEN", "TESTSET"} -> {i.a, i.b}
    [] i.op = "LOADNIL" -> i.a..i.b
    [] i.op \in {"GETTABLE", "SELF"} -> {i.a, i.b} \cup RKs({i.c}) \cup
                                       IF i.op = "SELF" THEN {i.a + 1} ELSE {}
    [] i.op \in {"SETTABLE", "ADD", "SUB", "MUL", "MOD"} -> {i.a} \cup RKs({i.b, i.c})
    [] i.op \in {"EQ", "LT", "LE"} -> RKs({i.b, i.c})
    [] i.op = "CONCAT" -> {i.a} \cup i.b..i.c
    [] i.op \in {"CALL", "TAILCALL"} -> {i.a} \cup i.a..(i.a + i.b - 1) \cup i.a..(i.a + i.c - 2)
    [] i.op = "RETURN" -> i.a..(i.a + i.b - 2)
    [] i.op = "VARARG" -> {i.a} \cup i.a..(i.a + i.b - 2)
    [] i.op \in {"FORPREP", "FORLOOP"} -> i.a..(i.a + 3)
    [] i.op = "TFORLOOP" -> i.a..(i.a + 5) \cup i.a..(i.a + 2 + i.c)
    [] i.op = "SETLIST" -> i.a..(i.a + i.b)
    [] i.op \in {"JMP", "WORD"} -> {}
    [] OTHER -> {i.a}

ConstantsOf(i) ==
  CASE i.op \in {"LOADK", "GETGLOBAL", "SETGLOBAL"} -> {i.b}
    [] i.op \in {"GETTABLE", "SELF"} -> {x - BITRK : x \in {i.c} \ RKs({i.c})}
    [] i.op \in {"SETTABLE", "ADD", "SUB", "MUL", "MOD", "EQ", "LT", "LE"} ->
         {x - BITRK : x \in {i.b, i.c} \ RKs({i.b, i.c})}
    [] OTHER -> {}

(* The positions that hold no instruction but a word of the one before.       *)
Words(p) ==
  LET at(n) == p.code[n + 1]
      wide == {n + 1 : n \in {x \in 0..(Len(p.code) - 1) : at(x).op = "SETLIST" /\ at(x).c = 0}}
      captures == UNION {{n + i : i \in 1..Len(p.protos[at(n).b + 1].upvals)} :
                           n \in {x \in 0..(Len(p.code) - 1) : at(x).op = "CLOSURE"}}
  IN wide \cup captures

GoodCode(p) ==
  LET size == Len(p.code)
      at(n) == p.code[n + 1]
      target(n) == IF at(n).op = "LOADBOOL" THEN n + 1 + at(n).c ELSE n + 1 + at(n).b
  IN /\ at(size - 1).op = "RETURN"
     /\ \A n \in 0..(size - 1) :
          /\ \A r \in Registers(at(n)) : r \in 0..(p.maxstack - 1)
          /\ \A k \in ConstantsOf(at(n)) : k \in 0..(Len(p.k) - 1)
          /\ at(n).op \in {"JMP", "FORPREP", "FORLOOP", "LOADBOOL"} =>
               target(n) \in (0..(size - 1)) \ Words(p)
          /\ (IsTest(at(n)) \/ at(n).op = "TFORLOOP") => at(n + 1).op = "JMP"
          /\ at(n).op = "TESTSET" => at(n).a # NO_REG
     /\ p.maxstack <= MAXSTACK

RECURSIVE AllGood(_)
AllGood(p) == GoodCode(p) /\ \A i \in DOMAIN p.protos : AllGood(p.protos[i])

(* The open upvalues from the top of the stack down, one for each slot, all   *)
(* of functions that are still running.                                       *)
UpvaluesOrdered ==
  /\ \A i, j \in DOMAIN m.open : i < j => m.upvals[m.open[i]].at > m.upvals[m.open[j]].at
  /\ m.status = "run" =>
       \A i \in DOMAIN m.open :
         /\ m.upvals[m.open[i]].open
         /\ \E f \in DOMAIN m.frames : m.upvals[m.open[i]].at \in m.frames[f].base..(m.frames[f].top - 1)

(* What the machine takes for granted when it fetches instructions and        *)
(* registers unchecked and searches its upvalues.  Whatever is compiled       *)
(* without an error names only registers and constants that the function has, *)
(* jumps only to instructions of the function and never to one of the data    *)
(* words behind CLOSURE and SETLIST, follows every test by its jump, leaves no *)
(* value jump without a register, and ends in a return.  And the list of open *)
(* upvalues is in order: otherwise closing stops early or too late and a      *)
(* closure loses its variable.                                                *)
WellFormed == AllGood(m.closures[1].proto) /\ UpvaluesOrdered

OneInput == {<<Number(3), Number(1)>>}
TwoInputs == OneInput \cup {<<Nil, Number(2)>>}
=============================================================================
