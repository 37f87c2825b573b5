------------------------------- MODULE Names -------------------------------
(***************************************************************************)
(* The names in error messages (vm/debug_info.rs): when an operation meets *)
(* a value it cannot use, the message says what the program calls that     *)
(* value.  The name is worked out after the fact, from the register that   *)
(* held the value, the ranges of the local variables and the last          *)
(* instruction before the failing one that can have set the register.      *)
(***************************************************************************)
EXTENDS Machine

NoName == <<"", "">>

(* Slip: a variable counts up to and with the instruction where it ends.     *)
LocalNameAtEnd(p, n, pc) ==
  LET late == SelectInSeq(p.locvars, LAMBDA v : v.start > pc)
      seen == IF late = 0 THEN p.locvars ELSE SubSeq(p.locvars, 1, late - 1)
      here == SelectSeq(seen, LAMBDA v : pc <= v.end)
  IN IF n <= Len(here) THEN here[n].name ELSE ""

(* The n-th local variable in scope at pc; the list is read up to the first  *)
(* variable that starts later.                                               *)
LocalName(p, n, pc) ==
  LET late == SelectInSeq(p.locvars, LAMBDA v : v.start > pc)
      seen == IF late = 0 THEN p.locvars ELSE SubSeq(p.locvars, 1, late - 1)
      here == SelectSeq(seen, LAMBDA v : pc < v.end)
  IN IF n <= Len(here) THEN here[n].name ELSE ""

SetsRegisterA(op) ==
  op \notin {"SETGLOBAL", "SETUPVAL", "SETTABLE", "JMP", "EQ", "LT", "LE", "RETURN", "SETLIST",
             "CLOSE", "TFORLOOP"}

Sets(i, reg) ==
  \/ SetsRegisterA(i.op) /\ i.a = reg
  \/ i.op = "LOADNIL" /\ reg \in i.a .. i.b
  \/ i.op = "SELF" /\ reg = i.a + 1
  \/ i.op \in {"CALL", "TAILCALL"} /\ reg >= i.a
  \/ i.op = "TFORLOOP" /\ reg >= i.a + 2

(* Where the scan goes on after an instruction: jumps forward are followed   *)
(* if they stay in front of the failing instruction, data words are passed.  *)
After(p, pc, lastpc) ==
  LET i == p.code[pc + 1]
      dest == pc + 1 + i.b
  IN IF i.op \in {"JMP", "FORLOOP", "FORPREP"} /\ pc < dest /\ dest <= lastpc THEN dest
     ELSE IF i.op = "SETLIST" /\ i.c = 0 THEN pc + 2
     ELSE IF i.op = "CLOSURE" THEN pc + 1 + Len(p.protos[i.b + 1].upvals)
     ELSE pc + 1

(* The instruction in front of lastpc that set the register last; the final  *)
(* RETURN stands for none.                                                   *)
SymbExec(p, lastpc, reg) ==
  LET scan[pc \in 0 .. (lastpc + Len(p.code))] ==
        IF pc >= lastpc THEN Len(p.code) - 1
        ELSE LET later == scan[After(p, pc, lastpc)]
             IN IF later = Len(p.code) - 1 /\ Sets(p.code[pc + 1], reg) THEN pc ELSE later
  IN p.code[scan[0] + 1]

(* The text of a constant operand; "?" for a key in a register.              *)
KName(p, x) ==
  IF x >= BITRK /\ p.k[x - BITRK + 1][1] = "str" THEN p.k[x - BITRK + 1][2] ELSE "?"

RECURSIVE GetObjName(_, _, _)
GetObjName(p, pc, reg) ==
  LET own == LocalName(p, reg + 1, pc)
      i == SymbExec(p, pc, reg)
  IN CASE own # "" -> <<"local", own>>
       [] own = "" /\ i.op = "GETGLOBAL" -> <<"global", p.k[i.b + 1][2]>>
       [] own = "" /\ i.op = "MOVE" /\ i.b < i.a -> GetObjName(p, pc, i.b)
       [] own = "" /\ i.op = "GETTABLE" -> <<"field", KName(p, i.c)>>
       [] own = "" /\ i.op = "GETUPVAL" -> <<"upvalue", p.upvals[i.b + 1].name>>
       [] own = "" /\ i.op = "SELF" -> <<"method", KName(p, i.c)>>
       [] OTHER -> NoName

(* The operand that an instruction which has failed blames: the first that   *)
(* is no number, the side of a concatenation that is no string, the table,   *)
(* the function.  Comparisons and loops blame none.                          *)
Blamed(s) ==
  LET i == ProtoOf(s).code[Frame(s).pc]
      number(x) == IF x >= BITRK THEN ProtoOf(s).k[x - BITRK + 1][1] = "num"
                   ELSE StackGet(s, Frame(s).base + x)[1] = "num"
  IN CASE i.op \in {"CALL", "TAILCALL", "SETTABLE"} -> i.a
       [] i.op = "TFORLOOP" -> i.a + 3
       [] i.op \in {"GETTABLE", "SELF", "UNM", "LEN"} -> i.b
       [] i.op \in DOMAIN Event -> IF number(i.b) THEN i.c ELSE i.b
       [] i.op = "CONCAT" -> s.blamed
       [] OTHER -> NO_REG

(* The name in the message of a machine that has stopped; the call of a      *)
(* metamethod that is no function has none, nor has a global that is nil and *)
(* called.                                                                   *)
Reported(s) ==
  LET pc == Frame(s).pc - 1
      i == ProtoOf(s).code[pc + 1]
      reg == Blamed(s)
      name == GetObjName(ProtoOf(s), pc, reg)
      value == StackGet(s, Frame(s).base + reg)
      called == i.op \in {"CALL", "TAILCALL", "TFORLOOP"}
  IN IF \/ s.status \notin {"call", "index", "arith", "concatenate", "length"}
        \/ (s.status = "call") # called
        \/ reg >= BITRK \/ reg = NO_REG
        \/ called /\ name[1] = "global" /\ value = Nil
     THEN NoName ELSE name
=============================================================================
