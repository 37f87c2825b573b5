------------------------------- MODULE Parser -------------------------------
(***************************************************************************)
(* The parser of compiler/parser.rs: recursive descent over the tokens,    *)
(* with operator priorities.  It builds the syntax trees that CodeGen      *)
(* takes.  A token is [t |-> kind, v |-> what it says, nl |-> whether it   *)
(* starts a line]; names, numbers and strings have a kind each, and the    *)
(* other tokens are their own kinds.                                       *)
(*                                                                         *)
(* A parser state p is passed along; an error sets p.err, which stays set: *)
(* no token is seen any more.  Positions and wording are left out.         *)
(***************************************************************************)
EXTENDS Integers, FiniteSets, SequencesExt

CONSTANTS MAX_SYNTAX_LEVELS, \* nested blocks and expressions (200)
          LUAI_MAXVARS,      \* locals of a function in scope (200)
          LUAI_MAXUPVALUES   \* upvalues of a function (60)

FuncScope(names) == [names |-> names, hidden |-> 0, ups |-> {}]

From(toks) ==
  [toks |-> toks, i |-> 1, depth |-> 0, loop |-> 0, scopes |-> <<FuncScope(<<>>)>>, err |-> ""]

Eos == [t |-> "<eof>", v |-> "", nl |-> FALSE]
Current(p) == IF p.i <= Len(p.toks) THEN p.toks[p.i] ELSE Eos
Lookahead(p) == IF p.i < Len(p.toks) THEN p.toks[p.i + 1] ELSE Eos

Check(p, kinds) == p.err = "" /\ Current(p).t \in kinds
Wrong(p, why) == [p EXCEPT !.err = IF @ = "" THEN why ELSE @]
Advance(p) == IF p.err = "" THEN [p EXCEPT !.i = @ + 1] ELSE p
Expect(p, kind) == IF Check(p, {kind}) THEN Advance(p) ELSE Wrong(p, kind)
Skip(p, kind) == IF Check(p, {kind}) THEN Advance(p) ELSE p

BlockFollow == {"else", "elseif", "end", "until", "<eof>"}

-----------------------------------------------------------------------------
(* Limits: nesting, and the variables of the functions being parsed.        *)

EnterLevel(p) ==
  IF p.depth = MAX_SYNTAX_LEVELS THEN Wrong(p, "levels") ELSE [p EXCEPT !.depth = @ + 1]
LeaveLevel(p) == [p EXCEPT !.depth = @ - 1]

Top(p) == p.scopes[Len(p.scopes)]

(* Locals with names, and some that a program cannot name.                   *)
RegisterLocals(p, names, hidden) ==
  LET s == Top(p)
  IN IF Len(s.names) + s.hidden + Len(names) + hidden > LUAI_MAXVARS THEN Wrong(p, "locals")
     ELSE [p EXCEPT !.scopes[Len(p.scopes)] =
             [@ EXCEPT !.names = @ \o names, !.hidden = @ + hidden]]

(* What a block has declared goes out of scope.                              *)
Restored(p, before) ==
  [p EXCEPT !.scopes[Len(p.scopes)] =
     [@ EXCEPT !.names = Top(before).names, !.hidden = Top(before).hidden]]

(* A name of a function around becomes an upvalue of all functions between.  *)
Knows(s, name) == name \in ToSet(s.names) \/ name \in s.ups

CheckNameUpvalue(p, name) ==
  LET n == Len(p.scopes)
      known == {i \in 1 .. n : Knows(p.scopes[i], name)}
      at == CHOOSE i \in known : \A j \in known : j <= i
      new == {i \in at + 1 .. n : name \notin p.scopes[i].ups}
  IN IF p.err # "" \/ known = {} THEN p
     ELSE IF \E i \in new : Cardinality(p.scopes[i].ups) >= LUAI_MAXUPVALUES
     THEN Wrong(p, "upvalues")
     ELSE [p EXCEPT !.scopes = [i \in 1 .. n |-> IF i \in new
                                                 THEN [@[i] EXCEPT !.ups = @ \union {name}]
                                                 ELSE @[i]]]

-----------------------------------------------------------------------------
(* Results: the state with what has been read.                               *)

Result(p, v) == [p |-> p, v |-> v]

RECURSIVE Nested(_, _, _), Names(_), Stats(_, _), Stat(_), Binary(_, _), ExprList(_)
RECURSIVE SuffixedExpr(_), MoreSuffixes(_), Fields(_, _), Params(_, _), Arms(_, _, _), Targets(_, _), Path(_, _)

(* Blocks and expressions nest, and each is a level deeper than what it is in. *)
Block(p) == Nested("block", p, 0)
SubExpr(p, limit) == Nested("expr", p, limit)

ExpectName(p) ==
  IF Check(p, {"name"}) THEN Result(Advance(p), Current(p).v) ELSE Result(Wrong(p, "name"), "")

Before(v, r) == Result(r.p, <<v>> \o r.v)

MoreNames(n) ==
  IF Check(n.p, {","}) THEN Before(n.v, Names(Advance(n.p))) ELSE Result(n.p, <<n.v>>)
Names(p) == MoreNames(ExpectName(p))

ParseExpr(p) == SubExpr(p, 0)

MoreExprs(x) ==
  IF Check(x.p, {","}) THEN Before(x.v, ExprList(Advance(x.p))) ELSE Result(x.p, <<x.v>>)
ExprList(p) == MoreExprs(ParseExpr(p))

-----------------------------------------------------------------------------
(* Blocks: `return' and `break' end one.                                     *)

AfterStat(p, v, done) ==
  IF v.k \in {"Return", "Break"} THEN Result(p, Append(done, v)) ELSE Stats(p, Append(done, v))
MoreStats(s, done) == AfterStat(Skip(s.p, ";"), s.v, done)
Stats(p, done) ==
  IF p.err # "" \/ Check(p, BlockFollow) THEN Result(p, done) ELSE MoreStats(Stat(p), done)

BlockOf(p, q) ==
  LET b == Stats(q, <<>>) IN Result(Restored(b.p, p), b.v)

LoopBlock(p) ==
  LET b == Block([p EXCEPT !.loop = @ + 1]) IN Result([b.p EXCEPT !.loop = p.loop], b.v)

(* parse_func_body: a function has a scope of its own, and no loops around.  *)
ParamList(p, names, dots) == [p |-> p, v |-> names, dots |-> dots]
MoreParams(n, names) ==
  IF Check(n.p, {","}) THEN Params(Advance(n.p), Append(names, n.v))
  ELSE ParamList(n.p, Append(names, n.v), FALSE)
Params(p, names) ==
  IF Check(p, {"..."}) THEN ParamList(Advance(p), names, TRUE)
  ELSE MoreParams(ExpectName(p), names)

EnterFunction(p) == [p EXCEPT !.scopes = Append(@, FuncScope(<<>>)), !.loop = 0]
FuncEnd(ps, b, loop) ==
  Result(Expect([b.p EXCEPT !.scopes = Front(@), !.loop = loop], "end"),
         [params |-> ps.v, vararg |-> ps.dots, body |-> b.v])
FuncBlock(ps, loop) ==
  FuncEnd(ps, Block(RegisterLocals(EnterFunction(Expect(ps.p, ")")), ps.v, 0)), loop)
FuncParams(p) == IF Check(p, {")"}) THEN ParamList(p, <<>>, FALSE) ELSE Params(p, <<>>)
FuncBody(p) == FuncBlock(FuncParams(Expect(p, "(")), p.loop)

-----------------------------------------------------------------------------
(* Statements.                                                               *)

IfEnd(p, conds, bodies, else) ==
  Result(Expect(p, "end"), [k |-> "If", conds |-> conds, bodies |-> bodies, else |-> else])
ElseEnd(b, conds, bodies) == IfEnd(b.p, conds, bodies, <<b.v>>)
MoreArms(p, conds, bodies) ==
  IF Check(p, {"elseif"}) THEN Arms(p, conds, bodies)
  ELSE IF Check(p, {"else"}) THEN ElseEnd(Block(Advance(p)), conds, bodies)
  ELSE IfEnd(p, conds, bodies, <<>>)
ArmBody(c, conds, bodies) ==
  LET b == Block(Expect(c.p, "then"))
  IN MoreArms(b.p, Append(conds, c.v), Append(bodies, b.v))
Arms(p, conds, bodies) == ArmBody(ParseExpr(Advance(p)), conds, bodies)

ParseWhile(p) ==
  LET c == ParseExpr(p)
      b == LoopBlock(Expect(c.p, "do"))
  IN Result(Expect(b.p, "end"), [k |-> "While", cond |-> c.v, body |-> b.v])

ParseRepeat(p) ==
  LET b == LoopBlock(p)
      c == ParseExpr([Expect(b.p, "until") EXCEPT !.loop = p.loop + 1])
  IN Result([c.p EXCEPT !.loop = p.loop], [k |-> "Repeat", body |-> b.v, cond |-> c.v])

(* The variables of a for, with the three that are hidden, are declared in   *)
(* the block around the loop.                                                *)
ForDeclare(p, names) == RegisterLocals(p, names, 3)

NumericBody(name, bounds, b) ==
  Result(Expect(b.p, "end"),
         [k |-> "NumericFor", name |-> name, body |-> b.v, bounds |-> bounds])
NumericBounds(name, r) == NumericBody(name, r.v, LoopBlock(Expect(r.p, "do")))
NumericStep(start, stop) ==
  LET step == ParseExpr(Advance(stop.p))
  IN IF Check(stop.p, {","}) THEN Result(step.p, <<start, stop.v, step.v>>)
     ELSE Result(stop.p, <<start, stop.v>>)
NumericStop(start) == NumericStep(start.v, ParseExpr(Expect(start.p, ",")))
NumericFor(p, name) ==
  NumericBounds(name, NumericStop(ParseExpr(Expect(ForDeclare(p, <<name>>), "="))))

GenericEnd(names, iters, b) ==
  Result(Expect(b.p, "end"), [k |-> "GenericFor", names |-> names, iters |-> iters, body |-> b.v])
GenericBody(names, it) == GenericEnd(names, it.v, LoopBlock(Expect(it.p, "do")))
GenericFor(ns) == GenericBody(ns.v, ExprList(Expect(ForDeclare(ns.p, ns.v), "in")))

ForAfter(n, p) ==
  IF Check(n.p, {"="}) THEN NumericFor(n.p, n.v)
  ELSE IF Check(n.p, {",", "in"}) THEN GenericFor(Names(p))
  ELSE Result(Wrong(n.p, "= or in"), [k |-> "For"])
ParseFor(p) == ForAfter(ExpectName(p), p)

FuncName(p, parts, self) == [p |-> p, v |-> parts, self |-> self]
MethodName(m, parts) == FuncName(m.p, Append(parts, m.v), TRUE)
MorePath(p, parts) ==
  IF Check(p, {"."}) THEN Path(Advance(p), parts)
  ELSE IF Check(p, {":"}) THEN MethodName(ExpectName(Advance(p)), parts)
  ELSE FuncName(p, parts, FALSE)
Path(p, done) == LET n == ExpectName(p) IN MorePath(n.p, Append(done, n.v))

FuncDecl(n) ==
  LET f == FuncBody(n.p)
  IN Result(f.p, [k |-> "FuncDecl", path |-> n.v, needself |-> n.self, body |-> f.v])

LocalFunc(n) ==
  LET f == FuncBody(RegisterLocals(n.p, <<n.v>>, 0))
  IN Result(f.p, [k |-> "LocalFunc", name |-> n.v, body |-> f.v])

LocalValues(names, vs) ==
  Result(vs.p, [k |-> "LocalDecl", names |-> names, values |-> vs.v])
LocalNames(p, names) ==
  LocalValues(names, IF Check(p, {"="}) THEN ExprList(Advance(p)) ELSE Result(p, <<>>))
LocalDecl(ns) == LocalNames(RegisterLocals(ns.p, ns.v, 0), ns.v)

ReturnOf(vs) == Result(vs.p, [k |-> "Return", values |-> vs.v])
ParseReturn(p) ==
  ReturnOf(IF Check(p, BlockFollow \union {";"}) THEN Result(p, <<>>) ELSE ExprList(p))

(* What stands left of `=' is not looked at here but by the code generator.  *)
Assign(targets, vs) == Result(vs.p, [k |-> "Assign", targets |-> targets, values |-> vs.v])
Targets(x, done) ==
  IF Check(x.p, {","}) THEN Targets(SuffixedExpr(Advance(x.p)), Append(done, x.v))
  ELSE Assign(Append(done, x.v), ExprList(Expect(x.p, "=")))

ExprStat(x) ==
  IF Check(x.p, {"=", ","}) THEN Targets(x, <<>>)
  ELSE Result(IF x.v.k \in {"Call", "MethodCall"} THEN x.p ELSE Wrong(x.p, "="),
              [k |-> "ExprStat", expr |-> x.v])

Stat(p) ==
  LET q == Advance(p)
      t == IF p.err = "" THEN Current(p).t ELSE ""
      b == Block(q)
  IN CASE t = "if" -> Arms(p, <<>>, <<>>)
       [] t = "while" -> ParseWhile(q)
       [] t = "do" -> Result(Expect(b.p, "end"), [k |-> "Do", body |-> b.v])
       [] t = "for" -> ParseFor(q)
       [] t = "repeat" -> ParseRepeat(q)
       [] t = "function" -> FuncDecl(Path(q, <<>>))
       [] t = "local" -> IF Check(q, {"function"}) THEN LocalFunc(ExpectName(Advance(q)))
                         ELSE LocalDecl(Names(q))
       [] t = "return" -> ParseReturn(q)
       [] t = "break" -> Result(IF p.loop = 0 THEN Wrong(q, "no loop to break") ELSE q, [k |-> "Break"])
       [] OTHER -> ExprStat(SuffixedExpr(p))

-----------------------------------------------------------------------------
(* Expressions.  A binary operator goes on while it binds tighter to the     *)
(* left than the one before it binds to the right.                           *)

UnaryOps == [t \in {"not", "-", "#"} |-> CASE t = "not" -> "Not" [] t = "-" -> "Neg" [] t = "#" -> "Len"]
UNARY_PRIORITY == 8

BinaryOps ==
  [t \in {"+", "-", "*", "/", "%", "^", "..", "~=", "==", "<", "<=", ">", ">=", "and", "or"} |->
     CASE t = "+" -> "Add" [] t = "-" -> "Sub" [] t = "*" -> "Mul" [] t = "/" -> "Div"
       [] t = "%" -> "Mod" [] t = "^" -> "Pow" [] t = ".." -> "Concat" [] t = "~=" -> "Ne"
       [] t = "==" -> "Eq" [] t = "<" -> "Lt" [] t = "<=" -> "Le" [] t = ">" -> "Gt"
       [] t = ">=" -> "Ge" [] t = "and" -> "And" [] t = "or" -> "Or"]

\* Slip: concatenation associates to the left.
BinaryPriorityEven(op) ==
  LET level(n) == [left |-> n, right |-> n]
  IN CASE op = "Or" -> level(1) [] op = "And" -> level(2) [] op \in {"Lt", "Gt", "Le", "Ge", "Ne", "Eq"} -> level(3)
       [] op = "Concat" -> level(5) [] op \in {"Add", "Sub"} -> level(6) [] op = "Pow" -> level(10)
       [] OTHER -> level(7)

BinaryPriority(op) ==
  CASE op = "Or" -> [left |-> 1, right |-> 1]
    [] op = "And" -> [left |-> 2, right |-> 2]
    [] op \in {"Lt", "Gt", "Le", "Ge", "Ne", "Eq"} -> [left |-> 3, right |-> 3]
    [] op = "Concat" -> [left |-> 5, right |-> 4]
    [] op \in {"Add", "Sub"} -> [left |-> 6, right |-> 6]
    [] op \in {"Mul", "Div", "Mod"} -> [left |-> 7, right |-> 7]
    [] op = "Pow" -> [left |-> 10, right |-> 9]

Literals == [nil |-> "Nil", true |-> "True", false |-> "False"]

TableCtor(p) ==
  LET fs == Fields(Expect(p, "{"), <<>>)
  IN Result(Expect(fs.p, "}"), [k |-> "TableCtor", fields |-> fs.v])

(* A parenthesis opens arguments only on the line of what it follows.         *)
InParens(xs) == Result(Expect(xs.p, ")"), xs.v)
OneArg(x) == Result(x.p, <<x.v>>)
FuncArgs(p) ==
  LET open == Advance(p)
  IN CASE Check(p, {"("}) -> IF Current(p).nl THEN Result(Wrong(p, "ambiguous"), <<>>)
                             ELSE InParens(IF Check(open, {")"}) THEN Result(open, <<>>)
                                           ELSE ExprList(open))
       [] Check(p, {"string"}) -> OneArg(Result(open, [k |-> "Str", s |-> Current(p).v]))
       [] Check(p, {"{"}) -> OneArg(TableCtor(p))
       [] OTHER -> Result(Wrong(p, "arguments"), <<>>)

(* Separators are optional after the last field.                              *)
FieldValue(k, key, x) ==
  Result(x.p, CASE k = "Index" -> [k |-> k, key |-> key, value |-> x.v]
                [] k = "Name" -> [k |-> k, name |-> key, value |-> x.v]
                [] k = "Value" -> [k |-> k, value |-> x.v])
IndexField(key) == FieldValue("Index", key.v, ParseExpr(Expect(Expect(key.p, "]"), "=")))
ParseField(p) ==
  IF Check(p, {"["}) THEN IndexField(ParseExpr(Advance(p)))
  ELSE IF Check(p, {"name"}) /\ Lookahead(p).t = "="
  THEN FieldValue("Name", Current(p).v, ParseExpr(Advance(Advance(p))))
  ELSE FieldValue("Value", "", ParseExpr(p))
MoreFields(f, done) ==
  IF Check(f.p, {",", ";"}) THEN Fields(Advance(f.p), Append(done, f.v))
  ELSE Result(f.p, Append(done, f.v))
Fields(p, done) ==
  IF p.err # "" \/ Check(p, {"}"}) THEN Result(p, done) ELSE MoreFields(ParseField(p), done)

PrimaryExpr(p) ==
  LET x == ParseExpr(Advance(p))
  IN IF Check(p, {"name"})
     THEN Result(CheckNameUpvalue(Advance(p), Current(p).v), [k |-> "Name", name |-> Current(p).v])
     ELSE IF Check(p, {"("}) THEN Result(Expect(x.p, ")"), [k |-> "Paren", operand |-> x.v])
     ELSE Result(Wrong(p, "unexpected symbol"), [k |-> "Nil"])

FieldSuffix(t, n) == Result(n.p, [k |-> "Field", table |-> t, name |-> n.v])
IndexSuffix(t, key) == Result(Expect(key.p, "]"), [k |-> "Index", table |-> t, key |-> key.v])
MethodSuffix(t, name, args) ==
  Result(args.p, [k |-> "MethodCall", table |-> t, name |-> name, args |-> args.v])
CallSuffix(f, args) == Result(args.p, [k |-> "Call", func |-> f, args |-> args.v])
MethodArgs(t, n) == MethodSuffix(t, n.v, FuncArgs(n.p))

MoreSuffixes(r) ==
  IF ~Check(r.p, {".", "[", ":", "(", "string", "{"}) THEN r
  ELSE MoreSuffixes(CASE Check(r.p, {"."}) -> FieldSuffix(r.v, ExpectName(Advance(r.p)))
                      [] Check(r.p, {"["}) -> IndexSuffix(r.v, ParseExpr(Advance(r.p)))
                      [] Check(r.p, {":"}) -> MethodArgs(r.v, ExpectName(Advance(r.p)))
                      [] OTHER -> CallSuffix(r.v, FuncArgs(r.p)))

SuffixedExpr(p) == MoreSuffixes(PrimaryExpr(p))

FuncExpr(f) == Result(f.p, [k |-> "FuncDef", body |-> f.v])
SimpleExpr(p) ==
  LET q == Advance(p)
      t == IF p.err = "" THEN Current(p).t ELSE ""
  IN CASE t = "number" -> Result(q, [k |-> "Number", n |-> Current(p).v])
       [] t = "string" -> Result(q, [k |-> "Str", s |-> Current(p).v])
       [] t \in DOMAIN Literals -> Result(q, [k |-> Literals[t]])
       [] t = "..." -> Result(q, [k |-> "VarArg"])
       [] t = "function" -> FuncExpr(FuncBody(q))
       [] t = "{" -> TableCtor(p)
       [] OTHER -> SuffixedExpr(p)

BinExpr(op, left, r) == Result(r.p, [k |-> "BinOp", op |-> op, left |-> left, right |-> r.v])
Operate(r, op, limit) ==
  IF BinaryPriority(op).left <= limit THEN r
  ELSE Binary(BinExpr(op, r.v, SubExpr(Advance(r.p), BinaryPriority(op).right)), limit)
Binary(r, limit) ==
  IF Check(r.p, DOMAIN BinaryOps) THEN Operate(r, BinaryOps[Current(r.p).t], limit) ELSE r

UnaryExpr(q) ==
  LET operand == SubExpr(Advance(q), UNARY_PRIORITY)
  IN Result(operand.p, [k |-> "UnOp", op |-> UnaryOps[Current(q).t], operand |-> operand.v])

ExprOf(q, limit) ==
  Binary(IF Check(q, DOMAIN UnaryOps) THEN UnaryExpr(q) ELSE SimpleExpr(q), limit)

LeaveNested(r) == Result(LeaveLevel(r.p), r.v)
Nested(what, p, limit) ==
  LeaveNested(IF what = "block" THEN BlockOf(p, EnterLevel(p)) ELSE ExprOf(EnterLevel(p), limit))

-----------------------------------------------------------------------------
(* parse_chunk.                                                               *)
AtEof(b) == IF Check(b.p, {"<eof>"}) THEN b ELSE Result(Wrong(b.p, "<eof>"), b.v)
Parse(toks) == AtEof(Block(From(toks)))
=============================================================================
