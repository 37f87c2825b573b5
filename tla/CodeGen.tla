------------------------------ MODULE CodeGen ------------------------------
(***************************************************************************)
(* The code generator of compiler/codegen.rs: it walks the syntax tree of  *)
(* a chunk once and emits register code, with the book-keeping of lcode.c: *)
(* one free-register counter, expressions that stay half evaluated (an     *)
(* expression context) until something needs their value, and lists of     *)
(* jumps threaded through the code that wait for their target.             *)
(*                                                                         *)
(* A function state s holds the unfinished function and, in s.parent, the  *)
(* one around it.  An operation on expressions takes and returns a pair    *)
(* r = [s |-> state, e |-> context], so that operations are chained as     *)
(* they are called; an error sets s.err, which stays set and makes the     *)
(* whole compilation fail.  Positions in the code count from 0, as in the  *)
(* source; the sBx and Bx operands are in field b.  Line                   *)
(* information and the wording of errors are left out; numbers are         *)
(* integers, so that division and power, which take the path of the other  *)
(* arithmetic, are left out with them.                                     *)
(***************************************************************************)
EXTENDS Integers, SequencesExt

CONSTANTS MAXINDEXRK,        \* the largest constant an operand can name (255)
          MAXSTACK,          \* registers of a function (250)
          LFIELDS_PER_FLUSH, \* list items of a constructor stored at once (50)
          MAXARG_C,          \* the largest C operand (511)
          MAXACTIVEVARS,     \* locals of a function that are in scope at once
          MAXUPVALUES        \* variables a function can capture (60)

NO_JUMP == -1
NO_REG == 255
BITRK == 256
MultRet == 0     \* an operand of 0 stands for "as many as there are"

Number(n) == <<"num", n>>
Str(x) == <<"str", x>>
Bool(b) == <<"bool", b>>
Nil == <<"nil", 0>>

----------------------------------------------------------------------------
(* Expression contexts (lcode's expdesc). *)

Expr(kind, info) ==
  [kind |-> kind, info |-> info, aux |-> 0, n |-> 0, t |-> NO_JUMP, f |-> NO_JUMP]
Void == Expr("Void", 0)
Numeral(n) == [Expr("KNum", 0) EXCEPT !.n = n]
HasJumps(e) == e.t # e.f
IsNumeral(e) == e.kind = "KNum" /\ e.t = NO_JUMP /\ e.f = NO_JUMP
IsMulti(e) == e.kind \in {"Call", "VarArg"}

(* A new function state, inside `parent`; depth 0 is the main chunk. *)
NewState(parent, depth) ==
  [code |-> <<>>, k |-> <<>>, protos |-> <<>>, locvars |-> <<>>, upvals |-> <<>>,
   active |-> <<>>, nact |-> 0, free |-> 0, blocks |-> <<>>, jpc |-> NO_JUMP,
   last |-> -1, maxstack |-> 2, nparams |-> 0, vararg |-> {},
   parent |-> parent, depth |-> depth, err |-> ""]

Fail(s, msg) == [s EXCEPT !.err = IF @ = "" THEN msg ELSE @]

----------------------------------------------------------------------------
(* Instructions and jump lists. *)

I(op, a, b, c) == [op |-> op, a |-> a, b |-> b, c |-> c]
Pc(s) == Len(s.code)
InstrAt(s, pc) == s.code[pc + 1]
SetInstr(s, pc, i) == [s EXCEPT !.code[pc + 1] = i]

PatchJump(s, pc, target) == [s EXCEPT !.code[pc + 1].b = target - pc - 1]

JumpTarget(s, pc) ==
  IF InstrAt(s, pc).b = NO_JUMP THEN NO_JUMP ELSE pc + 1 + InstrAt(s, pc).b

(* The jumps of a list, each of which holds the place of the next. *)
RECURSIVE JumpList(_, _)
JumpList(s, list) ==
  IF list = NO_JUMP THEN <<>> ELSE <<list>> \o JumpList(s, JumpTarget(s, list))

ConcatJumps(s, l1, l2) ==
  IF l2 = NO_JUMP THEN [s |-> s, l |-> l1]
  ELSE IF l1 = NO_JUMP THEN [s |-> s, l |-> l2]
  ELSE [s |-> PatchJump(s, Last(JumpList(s, l1)), l2), l |-> l1]

IsTest(i) == i.op \in {"EQ", "LT", "LE", "TEST", "TESTSET"}

(* The instruction that decides a jump: the test in front of it, if any. *)
JumpControl(s, pc) ==
  IF pc >= 1 /\ IsTest(InstrAt(s, pc - 1)) THEN pc - 1 ELSE pc

NeedValue(s, list) ==
  \E i \in DOMAIN JumpList(s, list) :
     InstrAt(s, JumpControl(s, JumpList(s, list)[i])).op # "TESTSET"

Tested(i, reg) ==
  IF reg # NO_REG /\ reg # i.b THEN [i EXCEPT !.a = reg] ELSE I("TEST", i.b, 0, i.c)

PatchAt(s, ctrl, reg) ==
  IF InstrAt(s, ctrl).op # "TESTSET" THEN [s |-> s, hit |-> FALSE]
  ELSE [s |-> SetInstr(s, ctrl, Tested(InstrAt(s, ctrl), reg)), hit |-> TRUE]

PatchTestReg(s, node, reg) == PatchAt(s, JumpControl(s, node), reg)

RemoveValues(s, list) ==
  FoldLeft(LAMBDA acc, pc : PatchTestReg(acc, pc, NO_REG).s, s, JumpList(s, list))

(* Jumps that carry a value go to vtarget, the others to dtarget. *)
Aimed(p, pc, vtarget, dtarget) == PatchJump(p.s, pc, IF p.hit THEN vtarget ELSE dtarget)
PatchListAux(s, list, vtarget, reg, dtarget) ==
  FoldLeft(LAMBDA acc, pc : Aimed(PatchTestReg(acc, pc, reg), pc, vtarget, dtarget),
           s, JumpList(s, list))

(* Marks the present position as the target of a jump. *)
GetLabel(s) == [s EXCEPT !.last = Pc(s)]

PatchToHere(s, list) ==
  LET m == ConcatJumps(GetLabel(s), s.jpc, list)
  IN [m.s EXCEPT !.jpc = m.l]

PatchList(s, list, target) ==
  IF target = Pc(s) THEN PatchToHere(s, list)
  ELSE PatchListAux(s, list, target, NO_REG, target)

DischargeJpc(s) ==
  [PatchListAux(s, s.jpc, Pc(s), NO_REG, Pc(s)) EXCEPT !.jpc = NO_JUMP]

Emit(s, op, a, b, c) ==
  [DischargeJpc(s) EXCEPT !.code = Append(@, I(op, a, b, c))]

(* Emits a jump; its place, with the pending jumps behind it, is in l. *)
EmitJump(s) ==
  ConcatJumps(Emit([s EXCEPT !.jpc = NO_JUMP], "JMP", 0, NO_JUMP, 0), Pc(s), s.jpc)

CodeLabel(s, reg, b, skip) == Emit(GetLabel(s), "LOADBOOL", reg, b, skip)

(* Slip: a jump to this place does not stop the merge. *)
EmitNilMergesAlways(s, from, n) ==
  LET prev == Last(s.code)
  IN IF Pc(s) = 0 THEN s
     ELSE IF prev.op = "LOADNIL" /\ prev.a <= from /\ from <= prev.b + 1
     THEN IF from + n - 1 > prev.b
          THEN [s EXCEPT !.code[Pc(s)].b = from + n - 1] ELSE s
     ELSE Emit(s, "LOADNIL", from, from + n - 1, 0)

EmitNil(s, from, n) ==
  LET prev == Last(s.code)
  IN IF Pc(s) > s.last /\ Pc(s) = 0 THEN s
     ELSE IF Pc(s) > s.last /\ prev.op = "LOADNIL"
             /\ prev.a <= from /\ from <= prev.b + 1
     THEN IF from + n - 1 > prev.b
          THEN [s EXCEPT !.code[Pc(s)].b = from + n - 1] ELSE s
     ELSE Emit(s, "LOADNIL", from, from + n - 1, 0)

----------------------------------------------------------------------------
(* Constants and registers. *)

(* The place of v in the constants, added at the end when it is not there;  *)
(* nil, numbers, booleans and strings each have an index of their own.      *)
AddConstant(s, v) ==
  IF Contains(s.k, v) THEN [s |-> s, i |-> SelectInSeq(s.k, LAMBDA x : x = v) - 1]
  ELSE [s |-> [s EXCEPT !.k = Append(@, v)], i |-> Len(s.k)]

StringConstant(s, x) == AddConstant(s, Str(x))

(* Slip: the last register is not counted. *)
CheckStackShort(s, n) ==
  IF s.free + n > MAXSTACK THEN Fail(s, "function or expression too complex")
  ELSE IF s.free + n > s.maxstack THEN [s EXCEPT !.maxstack = s.free + n - 1]
  ELSE s

CheckStack(s, n) ==
  IF s.free + n > MAXSTACK THEN Fail(s, "function or expression too complex")
  ELSE IF s.free + n > s.maxstack THEN [s EXCEPT !.maxstack = s.free + n]
  ELSE s

ReserveRegs(s, n) ==
  IF s.free + n > MAXSTACK THEN CheckStack(s, n)
  ELSE [CheckStack(s, n) EXCEPT !.free = @ + n]

(* Gives a register back if it is a temporary and the last one in use. *)
FreeReg(s, reg) ==
  IF reg >= s.nact /\ reg < BITRK /\ reg = s.free - 1 THEN [s EXCEPT !.free = @ - 1]
  ELSE s

FreeExpr(s, e) == IF e.kind = "NonReloc" THEN FreeReg(s, e.info) ELSE s

----------------------------------------------------------------------------
(* Variables: locals by register, upvalues through every function between. *)

SearchLocal(s, name) ==
  SelectLastInSubSeq(s.active, 1, s.nact, LAMBDA v : s.locvars[v].name = name) - 1

SearchUpvalue(s, name) == SelectInSeq(s.upvals, LAMBDA u : u.name = name) - 1

AddUpvalue(s, name, instack, index) ==
  LET i == SelectInSeq(s.upvals, LAMBDA u : u.instack = instack /\ u.index = index)
  IN IF i # 0 THEN [s |-> s, i |-> i - 1]
     ELSE IF Len(s.upvals) >= MAXUPVALUES
     THEN [s |-> Fail(s, "too many upvalues"), i |-> 0]
     ELSE [s |-> [s EXCEPT !.upvals =
                    Append(@, [name |-> name, instack |-> instack, index |-> index])],
           i |-> Len(s.upvals)]

(* The innermost block whose variables begin at or below the level will     *)
(* close it.                                                                *)
MarkUpval(s, level) ==
  LET b == SelectLastInSeq(s.blocks, LAMBDA x : x.nact <= level)
  IN IF b = 0 THEN s ELSE [s EXCEPT !.blocks[b].upval = TRUE]

(* Finds the name in the functions around s; -1 if it is a global. *)
RECURSIVE ResolveVarAux(_, _)
ResolveVarAux(s, name) ==
  IF s.depth = 0 THEN [s |-> s, i |-> -1]
  ELSE LET p == s.parent
           l == SearchLocal(p, name)
           u == SearchUpvalue(p, name)
       IN IF l # -1
          THEN AddUpvalue([s EXCEPT !.parent = MarkUpval(p, l)], name, TRUE, l)
          ELSE IF u # -1 THEN AddUpvalue(s, name, FALSE, u)
          ELSE LET r == ResolveVarAux(p, name)
                   s1 == [s EXCEPT !.parent = r.s]
               IN IF r.i = -1 THEN [s |-> s1, i |-> -1]
                  ELSE AddUpvalue(s1, name, FALSE, r.i)

ResolveVar(s, name) ==
  LET l == SearchLocal(s, name)
      u == SearchUpvalue(s, name)
      r == ResolveVarAux(s, name)
      g == StringConstant(r.s, name)
  IN IF l # -1 THEN [s |-> s, e |-> Expr("Local", l)]
     ELSE IF u # -1 THEN [s |-> s, e |-> Expr("Upval", u)]
     ELSE IF r.i # -1 THEN [s |-> r.s, e |-> Expr("Upval", r.i)]
     ELSE [s |-> g.s, e |-> Expr("Global", g.i)]

NewLocal(s, name) ==
  IF Len(s.active) >= MAXACTIVEVARS THEN Fail(s, "too many local variables")
  ELSE [s EXCEPT !.locvars = Append(@, [name |-> name, start |-> 0, end |-> 0]),
                 !.active = Append(@, Len(s.locvars) + 1)]

NewLocals(s, names) == FoldLeft(NewLocal, s, names)

(* Brings n declared variables into scope; the records that are dated are   *)
(* those of the newest n.                                                   *)
ActivateLocals(s, n) ==
  [s EXCEPT !.nact = @ + n,
            !.locvars = [v \in DOMAIN @ |->
               IF \E i \in DOMAIN s.active : i > Len(s.active) - n /\ s.active[i] = v
               THEN [@[v] EXCEPT !.start = Pc(s)] ELSE @[v]]]

RemoveLocals(s, level) ==
  LET gone == s.nact - level
      cut == Len(s.active) - gone
  IN [s EXCEPT !.nact = level,
               !.active = SubSeq(@, 1, cut),
               !.locvars = [v \in DOMAIN @ |->
                  IF \E i \in DOMAIN s.active : i > cut /\ s.active[i] = v
                  THEN [@[v] EXCEPT !.end = Pc(s)] ELSE @[v]]]

EnterBlock(s, breakable) ==
  [s EXCEPT !.blocks = Append(@, [nact |-> s.nact, upval |-> FALSE,
                                  breakable |-> breakable, breaks |-> NO_JUMP])]

LeaveBlock(s) ==
  LET b == Last(s.blocks)
      s1 == [RemoveLocals(s, b.nact) EXCEPT !.blocks = Front(@), !.free = b.nact]
      s2 == IF b.upval THEN Emit(s1, "CLOSE", b.nact, 0, 0) ELSE s1
  IN IF b.breakable THEN PatchList(s2, b.breaks, Pc(s2)) ELSE s2

InnerLoop(s) == SelectLastInSeq(s.blocks, LAMBDA b : b.breakable)

AddBreakJump(s, jump) ==
  LET b == InnerLoop(s)
      c == ConcatJumps(s, s.blocks[b].breaks, jump)
  IN IF b = 0 THEN Fail(s, "no loop to break")
     ELSE [c.s EXCEPT !.blocks[b].breaks = c.l]

----------------------------------------------------------------------------
(* From a context to a value. *)

On(s, e) == [s |-> s, e |-> e]

Emitted(r, op, a, b, c) ==
  On(Emit(r.s, op, a, b, c), [r.e EXCEPT !.kind = "Relocable", !.info = Pc(r.s)])

SetOneRet(r) ==
  IF r.e.kind = "Call"
  THEN On([r.s EXCEPT !.code[r.e.info + 1].c = 2],
          [r.e EXCEPT !.kind = "NonReloc", !.info = InstrAt(r.s, r.e.info).a])
  ELSE IF r.e.kind = "VarArg"
  THEN On([r.s EXCEPT !.code[r.e.info + 1].b = 2], [r.e EXCEPT !.kind = "Relocable"])
  ELSE r

ReadOp == [Upval |-> "GETUPVAL", Global |-> "GETGLOBAL", Indexed |-> "GETTABLE"]

DischargeVars(r) ==
  IF r.e.kind = "Local" THEN On(r.s, [r.e EXCEPT !.kind = "NonReloc"])
  ELSE IF r.e.kind \in DOMAIN ReadOp
  THEN Emitted(On(IF r.e.kind = "Indexed" THEN FreeReg(FreeReg(r.s, r.e.aux), r.e.info)
                  ELSE r.s, r.e),
               ReadOp[r.e.kind], 0, r.e.info, r.e.aux)
  ELSE SetOneRet(r)

(* Puts the value of e, jumps aside, into a register; a comparison that is  *)
(* still a jump has none.                                                   *)
LoadConstant(k, reg) == Emit(k.s, "LOADK", reg, k.i, 0)

LoadInto(d, reg) ==
  CASE d.e.kind = "Nil" -> EmitNil(d.s, reg, 1)
    [] d.e.kind \in {"False", "True"} ->
         Emit(d.s, "LOADBOOL", reg, IF d.e.kind = "True" THEN 1 ELSE 0, 0)
    [] d.e.kind = "K" -> LoadConstant([s |-> d.s, i |-> d.e.info], reg)
    [] d.e.kind = "KNum" -> LoadConstant(AddConstant(d.s, Number(d.e.n)), reg)
    [] d.e.kind = "Relocable" -> [d.s EXCEPT !.code[d.e.info + 1].a = reg]
    [] d.e.kind = "NonReloc" ->
         IF reg = d.e.info THEN d.s ELSE Emit(d.s, "MOVE", reg, d.e.info, 0)

LoadedInto(d, reg) ==
  IF d.e.kind \in {"Void", "Jmp"} THEN d
  ELSE On(LoadInto(d, reg), [d.e EXCEPT !.kind = "NonReloc", !.info = reg])

Discharge2Reg(r, reg) == LoadedInto(DischargeVars(r), reg)

DischargeFresh(r) == Discharge2Reg(r, r.s.free - 1)
Discharge2AnyReg(r) ==
  IF r.e.kind = "NonReloc" THEN r ELSE DischargeFresh(On(ReserveRegs(r.s, 1), r.e))

(* Puts the value of e into a register, whichever way control reaches it:   *)
(* by falling through, or by a jump, some of which bring no value.  For     *)
(* these, two loads, reached by jumps only, are at falseAt and trueAt.      *)
JoinOwnJump(d) ==
  LET c == ConcatJumps(d.s, d.e.t, d.e.info)
  IN IF d.e.kind = "Jmp" THEN On(c.s, [d.e EXCEPT !.t = c.l]) ELSE d

WithLoads(j, reg) ==
  [s |-> GetLabel(PatchToHere(CodeLabel(CodeLabel(j.s, reg, 0, 1), reg, 1, 0), j.l)),
   falseAt |-> Pc(j.s), trueAt |-> Pc(j.s) + 1]
LandingOf(d, reg) ==
  IF NeedValue(d.s, d.e.t) \/ NeedValue(d.s, d.e.f)
  THEN WithLoads(IF d.e.kind = "Jmp" THEN [s |-> d.s, l |-> NO_JUMP] ELSE EmitJump(d.s), reg)
  ELSE [s |-> GetLabel(d.s), falseAt |-> Pc(d.s), trueAt |-> Pc(d.s)]

Land(at, e, reg) ==
  PatchListAux(PatchListAux(at.s, e.f, Pc(at.s), reg, at.falseAt),
               e.t, Pc(at.s), reg, at.trueAt)
Landed(d, reg) == IF HasJumps(d.e) THEN Land(LandingOf(d, reg), d.e, reg) ELSE d.s

ValueAt(d, reg) == On(Landed(d, reg), Expr("NonReloc", reg))
Exp2Reg(r, reg) == ValueAt(JoinOwnJump(Discharge2Reg(r, reg)), reg)

Freed(r) == FreeExpr(r.s, r.e)
InReg(s, e, reg) == IF s.err # "" THEN On(s, e) ELSE Exp2Reg(On(s, e), reg)
Fresh(s) == [s |-> s, reg |-> s.free - 1]
InFresh(f, e) == InReg(f.s, e, f.reg)
NextReg(d) == Fresh(ReserveRegs(Freed(d), 1))
ToNextReg(d) == InFresh(NextReg(d), d.e)
Exp2NextReg(r) == ToNextReg(DischargeVars(r))

ToAnyReg(d) ==
  IF d.e.kind = "NonReloc" /\ ~HasJumps(d.e) THEN d
  ELSE InFresh(IF d.e.kind = "NonReloc" /\ d.e.info >= d.s.nact
               THEN [s |-> d.s, reg |-> d.e.info] ELSE NextReg(d), d.e)
Exp2AnyReg(r) == ToAnyReg(DischargeVars(r))

(* A value, perhaps a constant; the error of a full stack is not told.      *)
Exp2Val(r) ==
  IF ~HasJumps(r.e) THEN DischargeVars(r) ELSE [Exp2AnyReg(r) EXCEPT !.s.err = r.s.err]

(* An operand that is a register or a constant, in field rk. *)
RegOperand(x) == [s |-> x.s, e |-> x.e, rk |-> x.e.info]
ConstOperand(s, e, i) ==
  [s |-> s, e |-> [e EXCEPT !.kind = "K", !.info = i], rk |-> i + BITRK]

Operand(v) ==
  LET word == CASE v.e.kind = "Nil" -> Nil [] v.e.kind = "True" -> Bool(TRUE)
                [] v.e.kind = "False" -> Bool(FALSE) [] OTHER -> Number(v.e.n)
      k == AddConstant(v.s, word)
  IN IF v.e.kind = "K" /\ v.e.info <= MAXINDEXRK THEN ConstOperand(v.s, v.e, v.e.info)
     ELSE IF \/ v.e.kind \in {"True", "False", "Nil"} /\ Len(v.s.k) <= MAXINDEXRK
             \/ v.e.kind = "KNum" /\ k.i <= MAXINDEXRK
     THEN ConstOperand(k.s, v.e, k.i)
     ELSE RegOperand(Exp2AnyReg(On(IF v.e.kind = "KNum" THEN k.s ELSE v.s, v.e)))

Exp2RK(r) == Operand(Exp2Val(r))

(* Stores the value of r into the variable v. *)
StoreReg(x, op, i) == FreeExpr(Emit(x.s, op, x.e.info, i, 0), x.e)
StoreField(k, v) == FreeExpr(Emit(k.s, "SETTABLE", v.info, v.aux, k.rk), k.e)

StoreVar(r, v) ==
  CASE v.kind = "Local" -> Freed(Exp2Reg(On(Freed(r), r.e), v.info))
    [] v.kind \in {"Upval", "Global"} ->
         StoreReg(Exp2AnyReg(r), IF v.kind = "Upval" THEN "SETUPVAL" ELSE "SETGLOBAL", v.info)
    [] v.kind = "Indexed" -> StoreField(Exp2RK(r), v)
    [] OTHER -> Fail(r.s, "invalid assignment target")

----------------------------------------------------------------------------
(* Conditions: code that falls through on one outcome and jumps on the      *)
(* other.                                                                   *)

InvertJump(s, e) ==
  [s EXCEPT !.code[JumpControl(s, e.info) + 1].a = IF @ = 0 THEN 1 ELSE 0]

Flag(x) == IF x THEN 1 ELSE 0
EmitTestSet(r, cond) == Emit(Freed(r), "TESTSET", NO_REG, r.e.info, Flag(cond))

JumpOnCond(r, cond) ==
  EmitJump(IF r.e.kind = "Relocable" /\ InstrAt(r.s, r.e.info).op = "NOT"
           THEN Emit([r.s EXCEPT !.code = Front(@)], "TEST", InstrAt(r.s, r.e.info).b, 0,
                     Flag(~cond))
           ELSE EmitTestSet(Discharge2AnyReg(r), cond))

(* Falls through when e is true; the jumps taken when it is false are in f. *)
JumpIfFalse(d) ==
  CASE d.e.kind \in {"K", "KNum", "True"} -> [s |-> d.s, l |-> NO_JUMP]
    [] d.e.kind = "False" -> EmitJump(d.s)
    [] d.e.kind = "Jmp" -> [s |-> InvertJump(d.s, d.e), l |-> d.e.info]
    [] OTHER -> JumpOnCond(d, FALSE)
FallIfTrue(e, j) ==
  LET f == ConcatJumps(j.s, e.f, j.l)
  IN On(PatchToHere(f.s, e.t), [e EXCEPT !.f = f.l, !.t = NO_JUMP])
SplitTrue(d) == FallIfTrue(d.e, JumpIfFalse(d))
GoIfTrue(r) == SplitTrue(DischargeVars(r))

JumpIfTrue(d) ==
  CASE d.e.kind \in {"Nil", "False"} -> [s |-> d.s, l |-> NO_JUMP]
    [] d.e.kind = "True" -> EmitJump(d.s)
    [] d.e.kind = "Jmp" -> [s |-> d.s, l |-> d.e.info]
    [] OTHER -> JumpOnCond(d, TRUE)
FallIfFalse(e, j) ==
  LET t == ConcatJumps(j.s, e.t, j.l)
  IN On(PatchToHere(t.s, e.f), [e EXCEPT !.t = t.l, !.f = NO_JUMP])
SplitFalse(d) == FallIfFalse(d.e, JumpIfTrue(d))
GoIfFalse(r) == SplitFalse(DischargeVars(r))

(* The condition of a loop or an if: the list of the jumps out is in e.f.   *)
CompileCondition(r) ==
  GoIfTrue(IF r.e.kind = "Nil" THEN [r EXCEPT !.e.kind = "False"] ELSE r)

----------------------------------------------------------------------------
(* Operators. *)

(* The last expression of a list gives all its values. *)
SetMultRet(r) ==
  LET s == [r.s EXCEPT !.code[r.e.info + 1].b = MultRet, !.code[r.e.info + 1].a = r.s.free]
  IN IF r.e.kind = "Call" THEN On([r.s EXCEPT !.code[r.e.info + 1].c = MultRet], r.e)
     ELSE On([ReserveRegs(s, 1) EXCEPT !.err = r.s.err], [r.e EXCEPT !.kind = "Relocable"])

AtKey(t, k) == On(k.s, [t EXCEPT !.kind = "Indexed", !.aux = k.rk])
SetIndexed(t, key) == AtKey(t, Exp2RK(key))

(* The object e, a method of which is called whose name is in the pair key. *)
EmitSelf(o, at, k) ==
  On(FreeExpr(Emit(k.s, "SELF", at, o.e.info, k.rk), k.e),
     [o.e EXCEPT !.kind = "NonReloc", !.info = at])
SelfOf(o, key) ==
  EmitSelf(o, Freed(o).free, Exp2RK(On(ReserveRegs(Freed(o), 2), key)))
CodeSelf(e, key) == SelfOf(Exp2AnyReg(On(key.s, e)), key.e)

CanFold(op, e1, e2) ==
  /\ IsNumeral(e1) /\ IsNumeral(e2)
  /\ op \in {"ADD", "SUB", "MUL", "UNM"} \/ (op = "MOD" /\ e2.n # 0)

Folded(op, x, y) ==
  CASE op = "ADD" -> x + y [] op = "SUB" -> x - y [] op = "MUL" -> x * y
    [] op = "MOD" -> IF y > 0 THEN x % y ELSE -((-x) % (-y))
    [] op = "UNM" -> -x

(* The second operand goes first.  CONCAT has its operands in consecutive   *)
(* registers, UNM and LEN have one.                                         *)
SecondOperand(op, r) ==
  IF op = "CONCAT" THEN RegOperand(Exp2NextReg(r))
  ELSE IF op \in {"UNM", "LEN"} THEN [s |-> r.s, e |-> r.e, rk |-> 0]
  ELSE Exp2RK(r)
FirstOperand(op, r) ==
  IF op \in {"CONCAT", "UNM", "LEN"} THEN RegOperand(Exp2AnyReg(r)) ELSE Exp2RK(r)

EmitArith(op, o1, o2) ==
  Emitted(On(FreeExpr(FreeExpr(o1.s, o2.e), o1.e), o1.e), op, 0, o1.rk, o2.rk)
ArithWith(op, e1, o2) == EmitArith(op, FirstOperand(op, On(o2.s, e1)), o2)

CodeArith(op, e1, r) ==
  IF CanFold(op, e1, r.e) THEN On(r.s, [e1 EXCEPT !.n = Folded(op, e1.n, r.e.n)])
  ELSE ArithWith(op, e1, SecondOperand(op, r))

(* A comparison becomes a test and a jump taken when it yields cond; the    *)
(* greater-than forms are the less-than forms with swapped operands.        *)
JumpExpr(j) == On(j.s, Expr("Jmp", j.l))
EmitCompare(op, cond, k1, k2) ==
  LET s == FreeExpr(FreeExpr(k2.s, k2.e), k1.e)
  IN JumpExpr(EmitJump(IF cond = 0 /\ op # "EQ" THEN Emit(s, op, 1, k2.rk, k1.rk)
                       ELSE Emit(s, op, cond, k1.rk, k2.rk)))
CompareWith(op, cond, k1, e2) == EmitCompare(op, cond, k1, Exp2RK(On(k1.s, e2)))
CodeComp(op, cond, e1, r) == CompareWith(op, cond, Exp2RK(On(r.s, e1)), r.e)

(* What the left operand needs before the right one is compiled. *)
Unranked(k) == On(k.s, k.e)
Infix(op, r) ==
  CASE op = "And" -> GoIfTrue(r)
    [] op = "Or" -> GoIfFalse(r)
    [] op = "Concat" -> Exp2NextReg(r)
    [] OTHER -> IF IsNumeral(r.e) THEN r ELSE Unranked(Exp2RK(r))

ArithOp == [Add |-> "ADD", Sub |-> "SUB", Mul |-> "MUL", Mod |-> "MOD"]
Comparison ==
  [Eq |-> [op |-> "EQ", cond |-> 1], Ne |-> [op |-> "EQ", cond |-> 0],
   Lt |-> [op |-> "LT", cond |-> 1], Le |-> [op |-> "LE", cond |-> 1],
   Gt |-> [op |-> "LT", cond |-> 0], Ge |-> [op |-> "LE", cond |-> 0]]

JoinLists(op, e1, d) ==
  LET f == ConcatJumps(d.s, d.e.f, e1.f)
      t == ConcatJumps(d.s, d.e.t, e1.t)
  IN IF op = "And" THEN On(f.s, [d.e EXCEPT !.f = f.l]) ELSE On(t.s, [d.e EXCEPT !.t = t.l])

(* a .. (b .. c) takes one more register into the instruction of b .. c.    *)
ConcatWith(e1, v) ==
  IF v.e.kind = "Relocable" /\ InstrAt(v.s, v.e.info).op = "CONCAT"
  THEN On([FreeExpr(v.s, e1) EXCEPT !.code[v.e.info + 1].b = e1.info],
          [e1 EXCEPT !.kind = "Relocable", !.info = v.e.info])
  ELSE CodeArith("CONCAT", e1, Exp2NextReg(v))

Postfix(op, e1, r) ==
  IF op \in {"And", "Or"} THEN JoinLists(op, e1, DischargeVars(r))
  ELSE IF op = "Concat" THEN ConcatWith(e1, Exp2Val(r))
  ELSE IF op \in DOMAIN Comparison
  THEN CodeComp(Comparison[op].op, Comparison[op].cond, e1, r)
  ELSE CodeArith(ArithOp[op], e1, r)

(* not: the value is negated, the jump lists change places, and the jumps   *)
(* that would have carried a value no longer do.                            *)
EmitNot(r) == Emitted(On(Freed(r), r.e), "NOT", 0, r.e.info, 0)
Negate(d) ==
  CASE d.e.kind \in {"Nil", "False"} -> [d EXCEPT !.e.kind = "True"]
    [] d.e.kind \in {"K", "KNum", "True"} -> [d EXCEPT !.e.kind = "False"]
    [] d.e.kind = "Jmp" -> On(InvertJump(d.s, d.e), d.e)
    [] d.e.kind \in {"Relocable", "NonReloc"} -> EmitNot(Discharge2AnyReg(d))
    [] OTHER -> d
SwapLists(v) ==
  On(RemoveValues(RemoveValues(v.s, v.e.t), v.e.f), [v.e EXCEPT !.t = v.e.f, !.f = v.e.t])
CodeNot(r) == SwapLists(Negate(DischargeVars(r)))

CodeUnary(op, r) == CodeArith(op, r.e, On(r.s, Numeral(0)))
Prefix(op, r) ==
  IF op = "Not" THEN CodeNot(r)
  ELSE CodeUnary(IF op = "Neg" THEN "UNM" ELSE "LEN",
                 IF op = "Neg" /\ r.e.kind # "K" THEN r ELSE Exp2AnyReg(r))

(* Stores the last tostore items of a constructor, the last of which is the *)
(* nelems-th; the batch number that does not fit C is in a word of its own. *)
CodeSetList(s, base, nelems, tostore) ==
  LET batch == ((nelems - 1) \div LFIELDS_PER_FLUSH) + 1
      short == batch <= MAXARG_C
      stored == Emit(s, "SETLIST", base, tostore, IF short THEN batch ELSE 0)
  IN [IF short THEN stored ELSE Emit(stored, "WORD", 0, batch, 0) EXCEPT !.free = base + 1]
----------------------------------------------------------------------------
(* Expressions and statements of the syntax tree. *)

RECURSIVE Compiled(_, _, _)

CompileExpr(s, x) == Compiled("expr", s, x)
CompileBlock(s, block) == Compiled("block", s, block)

IsMultRetExpr(x) == x.k \in {"Call", "MethodCall", "VarArg"}

(* All but the last expression in registers, the last as a context. *)
CompileExprList(s, exprs) ==
  IF exprs = <<>> THEN On(s, Void)
  ELSE CompileExpr(FoldLeft(LAMBDA acc, x : IF acc.err # "" THEN acc
                                            ELSE Exp2NextReg(CompileExpr(acc, x)).s,
                            s, Front(exprs)),
                   Last(exprs))

(* Makes nvars values in registers of nexps expressions, the last being r.  *)
Reserved(s, n) == IF n > 0 THEN ReserveRegs(s, n) ELSE s
PadNil(s, n) == IF n > 0 THEN EmitNil(ReserveRegs(s, n), s.free, n) ELSE s

TakeValues(r, n) ==
  IF n < 0 THEN SetOneRet(r).s
  ELSE IF r.e.kind = "Call" THEN [r.s EXCEPT !.code[r.e.info + 1].c = n + 1]
  ELSE ReserveRegs([r.s EXCEPT !.code[r.e.info + 1].b = n + 1,
                               !.code[r.e.info + 1].a = r.s.free], 1)

AdjustAssign(r, nvars, nexps) ==
  LET missing == nvars - nexps
  IN IF IsMulti(r.e) THEN Reserved(TakeValues(r, missing + 1), missing)
     ELSE PadNil(IF r.e.kind = "Void" THEN r.s ELSE Exp2NextReg(r).s, missing)

EmitCall(f, s, n) ==
  On([Emit(s, "CALL", f.info, n, 2) EXCEPT !.free = f.info + 1],
     [f EXCEPT !.kind = "Call", !.info = Pc(s)])
CallCounted(f, s) == EmitCall(f, s, s.free - f.info)
CallWith(f, args, r) ==
  IF IsMulti(r.e) THEN EmitCall(f, SetMultRet(r).s, MultRet)
  ELSE CallCounted(f, IF args = <<>> THEN r.s ELSE Exp2NextReg(r).s)
CompileFuncArgs(f, args) == CallWith(f.e, args, CompileExprList(f.s, args))

(* A constructor: list items gather in registers and are stored in batches; *)
(* the counts are written into NEWTABLE at the end.                         *)
NameKey(s, x) == LET k == StringConstant(s, x) IN On(k.s, Expr("K", k.i))

Gathered(acc, t, s) ==
  IF acc.pending + 1 >= LFIELDS_PER_FLUSH
  THEN [acc EXCEPT !.s = CodeSetList(s, t, acc.na + 1, acc.pending + 1),
                   !.na = @ + 1, !.pending = 0]
  ELSE [acc EXCEPT !.s = s, !.na = @ + 1, !.pending = @ + 1]
ListItem(acc, t, r, open) ==
  IF open THEN [acc EXCEPT !.s = CodeSetList(SetMultRet(r).s, t, acc.na + 1, MultRet),
                           !.pending = 0]
  ELSE Gathered(acc, t, Exp2NextReg(r).s)

EmitPair(acc, t, k, v) ==
  [acc EXCEPT !.nh = @ + 1,
     !.s = FreeExpr(FreeExpr(Emit(v.s, "SETTABLE", t, k.rk, v.rk), v.e), k.e)]
PairValue(acc, t, k, x) == EmitPair(acc, t, k, Exp2RK(CompileExpr(k.s, x)))
PairItem(acc, t, f) ==
  PairValue(acc, t, Exp2RK(IF f.k = "Name" THEN NameKey(acc.s, f.name)
                           ELSE CompileExpr(acc.s, f.key)), f.value)

CloseCtor(all, pc, e) ==
  LET s == IF all.pending = 0 THEN all.s ELSE CodeSetList(all.s, e.info, all.na, all.pending)
  IN On([s EXCEPT !.code[pc + 1].b = all.na, !.code[pc + 1].c = all.nh], e)
FillCtor(new, pc, fields) ==
  LET items == {i \in DOMAIN fields : fields[i].k = "Value"}
      open(i) == i = Max(items) /\ IsMultRetExpr(fields[i].value)
  IN CloseCtor(FoldLeft(LAMBDA acc, i :
                          IF i \in items
                          THEN ListItem(acc, new.e.info, CompileExpr(acc.s, fields[i].value),
                                        open(i))
                          ELSE PairItem(acc, new.e.info, fields[i]),
                        [s |-> new.s, na |-> 0, nh |-> 0, pending |-> 0],
                        [i \in DOMAIN fields |-> i]),
               pc, new.e)
CompileTableCtor(s, fields) ==
  FillCtor(Exp2NextReg(On(Emit(s, "NEWTABLE", 0, 0, 0), Expr("Relocable", Pc(s)))),
           Pc(s), fields)

Proto(s) ==
  [code |-> s.code, k |-> s.k, protos |-> s.protos, upvals |-> s.upvals,
   locvars |-> s.locvars, nparams |-> s.nparams, vararg |-> s.vararg,
   maxstack |-> s.maxstack]

(* The final RETURN and the end of the function's variables. *)
LeaveFunction(s) == RemoveLocals(Emit(s, "RETURN", 0, 1, 0), 0)

(* A function body: a state of its own, then CLOSURE and one word for each   *)
(* captured variable in the function around it.                              *)
DeclareParams(s, params) ==
  [ActivateLocals(NewLocals(s, params), Len(params)) EXCEPT !.nparams = Len(params)]
DeclareDots(s, body) ==
  IF ~body.vararg THEN s
  ELSE IF Contains(body.params, "arg") THEN [s EXCEPT !.vararg = {"is"}]
  ELSE [ActivateLocals(NewLocal(s, "arg"), 1) EXCEPT !.vararg = {"is", "has", "needs"}]
WithRegisters(s) == ReserveRegs(s, s.nact)

EmitClosure(s, upvals) ==
  On(FoldLeft(LAMBDA acc, u : Emit(acc, IF u.instack THEN "MOVE" ELSE "GETUPVAL", 0, u.index, 0),
              Emit(s, "CLOSURE", 0, Len(s.protos) - 1, 0), upvals),
     Expr("Relocable", Pc(s)))
CloseFunction(child) ==
  EmitClosure([child.parent EXCEPT !.protos = Append(@, Proto(child)),
                                   !.err = IF @ = "" THEN child.err ELSE @], child.upvals)
CompileFuncBody(s, body, needself) ==
  LET params == (IF needself THEN <<"self">> ELSE <<>>) \o body.params
      child == DeclareDots(DeclareParams(NewState(s, s.depth + 1), params), body)
  IN CloseFunction(LeaveFunction(CompileBlock(WithRegisters(child), body.body)))

CompileRight(i, x) == Postfix(x.op, i.e, CompileExpr(i.s, x.right))
CompileKey(t, x) ==
  SetIndexed(t.e, IF x.k = "Field" THEN NameKey(t.s, x.name) ELSE CompileExpr(t.s, x.key))
CompileMethod(t, x) == CodeSelf(t.e, NameKey(t.s, x.name))
CompileVarArg(s) ==
  On(Emit([s EXCEPT !.vararg = @ \ {"needs"}], "VARARG", 0, 1, 0), Expr("VarArg", Pc(s)))

ExprOf(s, x) ==
  CASE x.k \in {"Nil", "True", "False"} -> On(s, Expr(x.k, 0))
    [] x.k = "Number" -> On(s, Numeral(x.n))
    [] x.k = "Str" -> NameKey(s, x.s)
    [] x.k = "VarArg" -> CompileVarArg(s)
    [] x.k = "Name" -> ResolveVar(s, x.name)
    [] x.k = "BinOp" -> CompileRight(Infix(x.op, CompileExpr(s, x.left)), x)
    [] x.k = "UnOp" -> Prefix(x.op, CompileExpr(s, x.operand))
    [] x.k \in {"Index", "Field"} -> CompileKey(Exp2AnyReg(CompileExpr(s, x.table)), x)
    [] x.k = "MethodCall" ->
         CompileFuncArgs(CompileMethod(Exp2AnyReg(CompileExpr(s, x.table)), x), x.args)
    [] x.k = "Call" -> CompileFuncArgs(Exp2NextReg(CompileExpr(s, x.func)), x.args)
    [] x.k = "FuncDef" -> CompileFuncBody(s, x.body, FALSE)
    [] x.k = "TableCtor" -> CompileTableCtor(s, x.fields)
    [] x.k = "Paren" -> DischargeVars(CompileExpr(s, x.operand))

(* An earlier target a[i] whose table or key is a local assigned later in    *)
(* the same statement uses a copy of it.                                     *)
ResolveConflict(acc, i) ==
  LET v == acc.vars[i]
      clash(w) == w.kind = "Indexed" /\ v.info \in {w.info, w.aux}
      subst(r) == IF r = v.info THEN acc.s.free ELSE r
  IN IF v.kind = "Local" /\ \E j \in 1..(i - 1) : clash(acc.vars[j])
     THEN [s |-> ReserveRegs(Emit(acc.s, "MOVE", acc.s.free, v.info, 0), 1),
           vars |-> [j \in DOMAIN acc.vars |->
                      IF j < i /\ clash(acc.vars[j])
                      THEN [acc.vars[j] EXCEPT !.info = subst(@), !.aux = subst(@)]
                      ELSE acc.vars[j]]]
     ELSE acc

(* The values are computed left to right and stored right to left. *)
AddTarget(acc, r) == [s |-> r.s, vars |-> Append(acc.vars, r.e)]
CompileTargets(s, targets) ==
  FoldLeft(LAMBDA acc, x : AddTarget(acc, CompileExpr(acc.s, x)),
           [s |-> s, vars |-> <<>>], targets)

StoreAll(s, vars) ==
  FoldLeft(LAMBDA acc, v : StoreVar(On(acc, Expr("NonReloc", acc.free - 1)), v),
           s, Reverse(vars))
StoreValues(vars, nexps, r) ==
  LET extra == IF nexps > Len(vars) THEN nexps - Len(vars) ELSE 0
  IN StoreAll(IF nexps = Len(vars) THEN StoreVar(SetOneRet(r), Last(vars))
              ELSE [AdjustAssign(r, Len(vars), nexps) EXCEPT !.free = @ - extra],
              IF nexps = Len(vars) THEN Front(vars) ELSE vars)
ValuesInto(safe, values) ==
  StoreValues(safe.vars, Len(values), CompileExprList(safe.s, values))
AssignTargets(vs, values) ==
  IF \E i \in DOMAIN vs.vars : vs.vars[i].kind \notin {"Local", "Upval", "Global", "Indexed"}
  THEN Fail(vs.s, "invalid assignment target")
  ELSE ValuesInto(FoldLeft(ResolveConflict, vs, [i \in DOMAIN vs.vars |-> i]), values)
CompileAssign(s, targets, values) == AssignTargets(CompileTargets(s, targets), values)

CompileLocalDecl(s, names, values) ==
  ActivateLocals(AdjustAssign(CompileExprList(NewLocals(s, names), values),
                              Len(names), Len(values)), Len(names))

CompileBlockScoped(s, block) == LeaveBlock(CompileBlock(EnterBlock(s, FALSE), block))

JumpBack(j, to) == PatchList(j.s, j.l, to)
WhileBody(exit, body, start) ==
  PatchToHere(LeaveBlock(JumpBack(EmitJump(CompileBlock(EnterBlock(exit.s, TRUE), body)), start)),
              exit.e.f)
CompileWhile(s, cond, body) ==
  WhileBody(CompileCondition(CompileExpr(GetLabel(s), cond)), body, Pc(s))

(* A break closes the variables captured inside the loop, then leaves it. *)
EmitBreak(s) == LET j == EmitJump(s) IN AddBreakJump(j.s, j.l)
CompileBreak(s) ==
  LET loop == InnerLoop(s)
      level == IF loop = 0 THEN 0 ELSE s.blocks[loop].nact
      needs == \E i \in DOMAIN s.blocks : i >= loop /\ s.blocks[i].upval
  IN EmitBreak(IF needs THEN Emit(s, "CLOSE", level, 0, 0) ELSE s)

(* The condition sees the locals of the body; when one of them is captured,  *)
(* both ways out of the body close them.                                     *)
CloseAndBreak(s) ==
  EmitBreak(Emit(s, "CLOSE", s.blocks[InnerLoop(s)].nact, 0, 0))
RepeatExit(exit, start) ==
  LeaveBlock(IF Last(exit.s.blocks).upval
             THEN JumpBack(EmitJump(LeaveBlock(PatchToHere(CloseAndBreak(exit.s), exit.e.f))),
                           start)
             ELSE PatchList(LeaveBlock(exit.s), exit.e.f, start))
CompileRepeat(s, body, cond) ==
  RepeatExit(CompileCondition(CompileExpr(
               CompileBlock(EnterBlock(EnterBlock(GetLabel(s), TRUE), FALSE), body), cond)),
             Pc(s))

(* Each body but the last is followed by a jump to the end. *)
Escape(acc, j) ==
  LET c == ConcatJumps(j.s, acc.escape, j.l)
  IN [s |-> PatchToHere(c.s, acc.flist), flist |-> NO_JUMP, escape |-> c.l]
NextArm(acc) == Escape(acc, EmitJump(acc.s))
ArmBody(acc, exit, body) ==
  [acc EXCEPT !.s = CompileBlockScoped(exit.s, body), !.flist = exit.e.f]
CompileArm(acc, cond, body) ==
  ArmBody(acc, CompileCondition(CompileExpr(acc.s, cond)), body)

JoinEscapes(all) ==
  LET c == ConcatJumps(all.s, all.escape, all.flist) IN PatchToHere(c.s, c.l)
ElseBody(acc, body) == PatchToHere(CompileBlockScoped(acc.s, body), acc.escape)
EndIf(all, else) ==
  IF else = <<>> THEN JoinEscapes(all) ELSE ElseBody(NextArm(all), else[1])
CompileIf(s, conds, bodies, else) ==
  EndIf(FoldLeft(LAMBDA acc, i : CompileArm(IF i = 1 THEN acc ELSE NextArm(acc),
                                            conds[i], bodies[i]),
                 [s |-> s, flist |-> NO_JUMP, escape |-> NO_JUMP],
                 [i \in DOMAIN conds |-> i]),
        else)

(* The three hidden variables of a for are in the outer of its two blocks.   *)
DefaultStep(s) ==
  LET one == AddConstant(s, Number(1))
  IN ReserveRegs(Emit(one.s, "LOADK", s.free, one.i, 0), 1)
Bounded(s, bounds) ==
  FoldLeft(LAMBDA acc, x : Exp2NextReg(CompileExpr(acc, x)).s, s, bounds)
NumericBody(s, base, body) ==
  LeaveBlock(CompileBlock(ReserveRegs(ActivateLocals(
    EnterBlock(Emit(s, "FORPREP", base, NO_JUMP, 0), FALSE), 1), 1), body))
NumericEnd(s, base, prep) ==
  LeaveBlock(PatchJump(Emit(PatchToHere(s, prep), "FORLOOP", base, NO_JUMP, 0),
                       Pc(s), prep + 1))
NumericLoop(s, base, body) == NumericEnd(NumericBody(s, base, body), base, Pc(s))
CompileNumericFor(s, name, bounds, body) ==
  LET hidden == <<"(for index)", "(for limit)", "(for step)">>
      s0 == NewLocals(EnterBlock(s, TRUE), Append(hidden, name))
  IN NumericLoop(ActivateLocals(IF Len(bounds) = 3 THEN Bounded(s0, bounds)
                                ELSE DefaultStep(Bounded(s0, bounds)), 3), s.free, body)

GenericBody(s, nvars, body) ==
  LeaveBlock(CompileBlock(ReserveRegs(ActivateLocals(EnterBlock(s, FALSE), nvars), nvars), body))
GenericEnd(j, start) == LeaveBlock(PatchJump(j.s, j.l, start))
GenericLoop(j, base, nvars, body) ==
  GenericEnd(EmitJump(Emit(PatchToHere(GenericBody(j.s, nvars, body), j.l),
                           "TFORLOOP", base, 0, nvars)), j.l + 1)
CompileGenericFor(s, names, iters, body) ==
  LET hidden == <<"(for generator)", "(for state)", "(for control)">>
      r == CompileExprList(NewLocals(EnterBlock(s, TRUE), hidden \o names), iters)
      ready == ActivateLocals(CheckStack(AdjustAssign(r, 3, Len(iters)), 3), 3)
  IN GenericLoop(EmitJump(ready), s.free, Len(names), body)

FieldOf(t, name) == SetIndexed(t.e, NameKey(t.s, name))
StoreFunction(v, body, needself) == StoreVar(CompileFuncBody(v.s, body, needself), v.e)
CompileFuncDecl(s, path, needself, body) ==
  StoreFunction(FoldLeft(LAMBDA acc, name : FieldOf(Exp2AnyReg(acc), name),
                         ResolveVar(s, path[1]), Tail(path)), body, needself)

InLastLocal(r) == Exp2Reg(r, r.s.nact - 1).s
CompileLocalFunc(s, name, body) ==
  InLastLocal(CompileFuncBody(ActivateLocals(NewLocal(s, name), 1), body, FALSE))

(* A single call is a tail call; a last call or vararg gives all its values. *)
TailCalled(r, single) ==
  IF single /\ r.e.kind = "Call" THEN [r EXCEPT !.s.code[r.e.info + 1].op = "TAILCALL"] ELSE r
EmitReturn1(r) == Emit(r.s, "RETURN", r.e.info, 2, 0)
ReturnValues(s, n, r) ==
  IF n = 0 THEN Emit(r.s, "RETURN", 0, 1, 0)
  ELSE IF IsMulti(r.e)
  THEN Emit(SetMultRet(TailCalled(r, n = 1)).s, "RETURN", s.nact, MultRet, 0)
  ELSE IF n = 1 THEN EmitReturn1(Exp2AnyReg(r))
  ELSE Emit(Exp2NextReg(r).s, "RETURN", s.free, n + 1, 0)
CompileReturn(s, values) == ReturnValues(s, Len(values), CompileExprList(s, values))

DropValues(r) == IF r.e.kind = "Call" THEN [r.s EXCEPT !.code[r.e.info + 1].c = 1] ELSE r.s
CompileExprStat(s, x) == DropValues(CompileExpr(s, x))

CompileStat(s, x) ==
  CASE x.k = "Assign" -> CompileAssign(s, x.targets, x.values)
    [] x.k = "LocalDecl" -> CompileLocalDecl(s, x.names, x.values)
    [] x.k = "Do" -> CompileBlockScoped(s, x.body)
    [] x.k = "While" -> CompileWhile(s, x.cond, x.body)
    [] x.k = "Repeat" -> CompileRepeat(s, x.body, x.cond)
    [] x.k = "If" -> CompileIf(s, x.conds, x.bodies, x.else)
    [] x.k = "NumericFor" -> CompileNumericFor(s, x.name, x.bounds, x.body)
    [] x.k = "GenericFor" -> CompileGenericFor(s, x.names, x.iters, x.body)
    [] x.k = "FuncDecl" -> CompileFuncDecl(s, x.path, x.needself, x.body)
    [] x.k = "LocalFunc" -> CompileLocalFunc(s, x.name, x.body)
    [] x.k = "Return" -> CompileReturn(s, x.values)
    [] x.k = "Break" -> CompileBreak(s)
    [] x.k = "ExprStat" -> CompileExprStat(s, x.expr)

(* After every statement the temporaries are free again; an error stops the  *)
(* compilation.                                                              *)
FreeTemporaries(s) == [s EXCEPT !.free = s.nact]
BlockOf(s, block) ==
  FoldLeft(LAMBDA acc, x : IF acc.err # "" THEN acc ELSE FreeTemporaries(CompileStat(acc, x)),
           s, block)

(* An expression gives a pair, a block the state behind it.                  *)
Compiled(what, s, x) == IF what = "expr" THEN ExprOf(s, x) ELSE BlockOf(s, x)

(* A chunk, as a function without parameters that takes `...'.  An error     *)
(* anywhere means that there is no function.                                 *)
Finished(s) == [ok |-> s.err = "", err |-> s.err, proto |-> Proto(s)]
Main == [NewState(<<>>, 0) EXCEPT !.vararg = {"is"}]
Compile(block) == Finished(LeaveFunction(CompileBlock(Main, block)))
=============================================================================
