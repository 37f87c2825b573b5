------------------------------ MODULE Grammar ------------------------------
(***************************************************************************)
(* How a syntax tree is written, by the grammar and the operator table of  *)
(* the reference manual (2.5.6 and 8) and not by the code: a parenthesis   *)
(* stands only where the tree has one or an operator would bind otherwise. *)
(* The parser is compared with it.                                         *)
(***************************************************************************)
EXTENDS Integers, Sequences, SequencesExt, FiniteSets, TLC

LOCAL T(kind) == <<[t |-> kind, v |-> "", nl |-> FALSE]>>
LOCAL W(kind, v) == <<[t |-> kind, v |-> v, nl |-> FALSE]>>
LOCAL N(x) == W("name", x)

(* Items, each written by one sequence, with a separator between them. *)
Listed(seqs, sep) ==
  FoldLeft(LAMBDA acc, i : acc \o (IF i = 1 THEN <<>> ELSE T(sep)) \o seqs[i],
           <<>>, [i \in DOMAIN seqs |-> i])

Operators ==
  << [Or |-> "or"], [And |-> "and"],
     [Lt |-> "<", Gt |-> ">", Le |-> "<=", Ge |-> ">=", Ne |-> "~=", Eq |-> "=="],
     [Concat |-> ".."], [Add |-> "+", Sub |-> "-"], [Mul |-> "*", Div |-> "/", Mod |-> "%"],
     [Not |-> "not", Neg |-> "-", Len |-> "#"], [Pow |-> "^"] >>

Binds(op) == CHOOSE i \in DOMAIN Operators : op \in DOMAIN Operators[i]
Sign(op) == Operators[Binds(op)][op]
RightAssociative == {"Concat", "Pow"}

Strength(x) == IF x.k \in {"BinOp", "UnOp"} THEN Binds(x.op) ELSE Len(Operators) + 1

Callable == {"Name", "Field", "Index", "Call", "MethodCall", "Paren"}

RECURSIVE Written(_), Block(_), Statement(_)

Within(yes, x) == IF yes THEN T("(") \o Written(x) \o T(")") ELSE Written(x)
Head_(x) == Within(x.k \notin Callable, x)

WrittenAll(xs) == Listed([i \in DOMAIN xs |-> Written(xs[i])], ",")
NamesOf(xs) == Listed([i \in DOMAIN xs |-> N(xs[i])], ",")

(* A string or a constructor alone needs no parenthesis. *)
Arguments(xs) ==
  IF Len(xs) = 1 /\ xs[1].k \in {"Str", "TableCtor"} THEN Written(xs[1])
  ELSE W("(", "call") \o WrittenAll(xs) \o T(")")

FunctionRest(f) ==
  T("(") \o Listed([i \in DOMAIN f.params |-> N(f.params[i])] \o (IF f.vararg THEN <<T("...")>> ELSE <<>>), ",")
  \o T(")") \o Block(f.body) \o T("end")

FieldWritten(f) ==
  (CASE f.k = "Index" -> T("[") \o Written(f.key) \o T("]") \o T("=")
     [] f.k = "Name" -> N(f.name) \o T("=")
     [] f.k = "Value" -> <<>>) \o Written(f.value)

Written(x) ==
  CASE x.k = "Nil" -> T("nil") [] x.k = "True" -> T("true") [] x.k = "False" -> T("false")
    [] x.k = "Number" -> W("number", x.n)
    [] x.k = "Str" -> W("string", x.s)
    [] x.k = "VarArg" -> T("...")
    [] x.k = "Name" -> N(x.name)
    [] x.k = "Paren" -> T("(") \o Written(x.operand) \o T(")")
    [] x.k = "Field" -> Head_(x.table) \o T(".") \o N(x.name)
    [] x.k = "Index" -> Head_(x.table) \o T("[") \o Written(x.key) \o T("]")
    [] x.k = "Call" -> Head_(x.func) \o Arguments(x.args)
    [] x.k = "MethodCall" -> Head_(x.table) \o T(":") \o N(x.name) \o Arguments(x.args)
    [] x.k = "FuncDef" -> T("function") \o FunctionRest(x.body)
    [] x.k = "TableCtor" ->
         T("{") \o Listed([i \in DOMAIN x.fields |-> FieldWritten(x.fields[i])], ",") \o T("}")
    [] x.k = "UnOp" -> T(Sign(x.op)) \o Within(Strength(x.operand) < Strength(x), x.operand)
    [] x.k = "BinOp" ->
         LET weaker(y, sameSide) == Strength(y) < Strength(x) \/ (Strength(y) = Strength(x) /\ ~sameSide)
         IN Within(weaker(x.left, x.op \notin RightAssociative), x.left) \o T(Sign(x.op))
            \o Within(x.right.k # "UnOp" /\ weaker(x.right, x.op \in RightAssociative), x.right)

Arm(word, c, b) == T(word) \o Written(c) \o T("then") \o Block(b)

Statement(x) ==
  CASE x.k = "Assign" -> WrittenAll(x.targets) \o T("=") \o WrittenAll(x.values)
    [] x.k = "LocalDecl" -> T("local") \o NamesOf(x.names)
                            \o (IF x.values = <<>> THEN <<>> ELSE T("=") \o WrittenAll(x.values))
    [] x.k = "Do" -> T("do") \o Block(x.body) \o T("end")
    [] x.k = "While" -> T("while") \o Written(x.cond) \o T("do") \o Block(x.body) \o T("end")
    [] x.k = "Repeat" -> T("repeat") \o Block(x.body) \o T("until") \o Written(x.cond)
    [] x.k = "If" ->
         FoldLeft(LAMBDA acc, i : acc \o Arm(IF i = 1 THEN "if" ELSE "elseif", x.conds[i], x.bodies[i]),
                  <<>>, [i \in DOMAIN x.conds |-> i])
         \o (IF x.else = <<>> THEN <<>> ELSE T("else") \o Block(x.else[1])) \o T("end")
    [] x.k = "NumericFor" -> T("for") \o N(x.name) \o T("=") \o WrittenAll(x.bounds)
                             \o T("do") \o Block(x.body) \o T("end")
    [] x.k = "GenericFor" -> T("for") \o NamesOf(x.names) \o T("in") \o WrittenAll(x.iters)
                             \o T("do") \o Block(x.body) \o T("end")
    [] x.k = "FuncDecl" ->
         LET n == Len(x.path)
         IN T("function")
            \o Listed([i \in 1 .. (IF x.needself THEN n - 1 ELSE n) |-> N(x.path[i])], ".")
            \o (IF x.needself THEN T(":") \o N(x.path[n]) ELSE <<>>) \o FunctionRest(x.body)
    [] x.k = "LocalFunc" -> T("local") \o T("function") \o N(x.name) \o FunctionRest(x.body)
    [] x.k = "Return" -> T("return") \o WrittenAll(x.values)
    [] x.k = "Break" -> T("break")
    [] x.k = "ExprStat" -> Written(x.expr)

Block(b) == FoldLeft(LAMBDA acc, x : acc \o Statement(x) \o T(";"), <<>>, b)

-----------------------------------------------------------------------------
(* The characters of a sequence of tokens, laid out in ever other ways; a    *)
(* word is one character.  The arguments of a call begin on its line.        *)

Long == ("==" :> <<"=", "=">>) @@ ("~=" :> <<"~", "=">>) @@ ("<=" :> <<"<", "=">>)
        @@ (">=" :> <<">", "=">>) @@ (".." :> <<".", ".">>) @@ ("..." :> <<".", ".", ".">>)

Digit(d) == ToString(d)
DigitsOf(n) == (IF n > 9 THEN <<Digit((n \div 10) % 10)>> ELSE <<>>) \o <<Digit(n % 10)>>

Quoted(v, k) ==
  LET content == IF v = "" THEN <<>> ELSE <<v>>
  IN CASE k % 3 = 0 -> <<"\"">> \o content \o <<"\"">>
       [] k % 3 = 1 -> <<"[", "=", "[", "\r", "\n">> \o content \o <<"]", "=", "]">>
       [] k % 3 = 2 -> <<"'">> \o content \o <<"'">>

Spelled(x, k) ==
  CASE x.t = "number" -> DigitsOf(x.v)
    [] x.t = "string" -> Quoted(x.v, k)
    [] x.t = "name" -> <<x.v>>
    [] OTHER -> IF x.t \in DOMAIN Long THEN Long[x.t] ELSE <<x.t>>

Layouts ==
  << <<" ">>, <<"\n">>, <<" ", "-", "-", "[", "[", "\r", "]", "]">>, <<"\t">>,
     <<" ", "-", "-", "[", "=", "c", "\n", "\r">> >>

TextOf(toks) ==
  LET before(k) == IF toks[k].t = "(" /\ toks[k].v = "call" THEN <<" ">>
                   ELSE Layouts[1 + (k % Len(Layouts))]
  IN <<"#", "c", "\n">> \o FlattenSeq([k \in DOMAIN toks |-> before(k) \o Spelled(toks[k], k)])

\* The places of the line breaks, a pair counting once.
Breaks(s) ==
  LET newline == {j \in DOMAIN s : s[j] \in {"\n", "\r"}}
      second[j \in newline] ==
        IF j - 1 \notin newline THEN FALSE ELSE s[j] # s[j - 1] /\ ~second[j - 1]
  IN {j \in newline : ~second[j]}
=============================================================================
