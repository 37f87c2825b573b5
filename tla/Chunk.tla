-------------------------------- MODULE Chunk ---------------------------------
(***************************************************************************)
(* Binary chunks: a function is written by dump and read by undump, before *)
(* its string constants are interned or after, and the instructions that   *)
(* name a global are rewritten when it is loaded.                          *)
(*                                                                         *)
(* A chunk is a sequence of fields, each with its width: what is read with *)
(* another width than it was written with is garbled.                      *)
(***************************************************************************)
EXTENDS Integers, Sequences, SequencesExt

CONSTANTS Slots,   \* GlobalSlotRuntime.name_keys, the first of them _G
          Version  \* the header behind the signature

VARIABLE m   \* the function, the chunk, and where it stands

(***************************************************************************)
(* A function.  String constants wait in the pool, with nil in their place *)
(* among the constants, until they are interned.                           *)
(***************************************************************************)
None == "none"
Nil == <<"nil", None>>
Pooled(f, i) == \E e \in f.pool : e.index = i
Bytes(f, i) == (CHOOSE e \in f.pool : e.index = i).bytes

-----------------------------------------------------------------------------
(* Writing.                                                                  *)

Field(w, v) == <<[w |-> w, v |-> v]>>
DumpByte(v) == Field("byte", v)
DumpInt(v) == Field("int", v)
DumpSize(v) == Field("size", v)
DumpBlock(v) == Field("block", v)
DumpString(s) == IF s = None THEN DumpSize(0) ELSE DumpSize(1) \o DumpBlock(s) \o DumpByte("end")
All(seq, Write(_)) == DumpInt(Len(seq)) \o FlattenSeq([i \in DOMAIN seq |-> Write(seq[i])])

Header == DumpBlock("ESC Lua") \o DumpByte(Version)

DumpConstant(f, i) ==
  LET v == f.constants[i]
  IN IF v = Nil THEN IF Pooled(f, i) THEN DumpByte("string") \o DumpString(Bytes(f, i)) ELSE DumpByte("nil")
     ELSE CASE v[1] = "bool" -> DumpByte("bool") \o DumpByte(v[2])
            [] v[1] = "number" -> DumpByte("number") \o Field("number", v[2])
            [] v[1] = "string" -> DumpByte("string") \o DumpString(v[2])

Local(v) == DumpString(v.name) \o DumpInt(v.startPc) \o DumpInt(v.endPc)
DumpDebug(f, strip) ==
  IF strip THEN DumpInt(0) \o DumpInt(0) \o DumpInt(0)
  ELSE All(f.lines, DumpInt) \o All(f.locals, Local) \o All(f.names, DumpString)

RECURSIVE DumpFunction(_, _, _)
DumpFunction(f, parent, strip) ==
  LET WriteCode(x) == Field("int", x)
      WriteChild(g) == DumpFunction(g, f.source, strip)
  IN DumpString(IF f.source = parent THEN None ELSE f.source)
     \o DumpInt(f.defined[1]) \o DumpInt(f.defined[2])
     \o FlattenSeq([i \in 1 .. 4 |-> DumpByte(f.sizes[i])])
     \o All(f.code, WriteCode)
     \o DumpInt(Len(f.constants)) \o FlattenSeq([i \in DOMAIN f.constants |-> DumpConstant(f, i)])
     \o All(f.protos, WriteChild)
     \o DumpDebug(f, strip)

Dumped(f, strip) == Header \o DumpFunction(f, "", strip)

-----------------------------------------------------------------------------
(* Reading, from a place in the chunk to a value and the next place; place 0 *)
(* is behind an error.                                                       *)

Failed == <<None, 0>>
Read(c, p, w) == IF p = 0 \/ p > Len(c) THEN Failed ELSE IF c[p].w # w THEN Failed ELSE <<c[p].v, p + 1>>

LoadString(c, p) ==
  LET size == Read(c, p, "size")
  IN IF size[2] = 0 \/ size[1] = 0 THEN <<None, size[2]>>
     ELSE LET block == Read(c, size[2], "block") IN <<block[1], Read(c, block[2], "byte")[2]>>

(* So many items, one behind the other.                                      *)
ReadItems(n, p, Item(_)) ==
  LET items[i \in 0 .. n] ==
        IF i = 0 THEN <<<<>>, p>>
        ELSE LET before == items[i - 1]
                 item == Item(before[2])
             IN <<Append(before[1], item[1]), item[2]>>
  IN items[n]

ReadAll(c, p, Item(_)) ==
  LET n == Read(c, p, "int") IN IF n[2] = 0 THEN Failed ELSE ReadItems(n[1], n[2], Item)

LoadConstant(c, p) ==
  LET tag == Read(c, p, "byte")
  IN IF tag[2] = 0 THEN Failed
     ELSE CASE tag[1] = "nil" -> <<Nil, tag[2]>>
            [] tag[1] = "bool" -> LET b == Read(c, tag[2], "byte") IN <<<<"bool", b[1]>>, b[2]>>
            [] tag[1] = "number" -> LET n == Read(c, tag[2], "number") IN <<<<"number", n[1]>>, n[2]>>
            [] tag[1] = "string" -> LET s == LoadString(c, tag[2]) IN <<<<"string", s[1]>>, s[2]>>
            [] OTHER -> Failed

(* Slip: a nested function is given the source its parent was given.         *)
SourceGiven(own, parent) == parent
SourceFor(own, parent) == own

RECURSIVE LoadFunction(_, _, _)
LoadFunction(c, p, parent) ==
  LET src == LoadString(c, p)
      source == IF src[1] = None THEN parent ELSE src[1]
      ReadInt(q) == Read(c, q, "int")
      ReadByte(q) == Read(c, q, "byte")
      ReadName(q) == LoadString(c, q)
      ReadChild(q) == LoadFunction(c, q, SourceFor(source, parent))
      ReadLocal(q) == LET name == LoadString(c, q)
                          a == ReadInt(name[2])
                          b == ReadInt(a[2])
                      IN <<[name |-> name[1], startPc |-> a[1], endPc |-> b[1]], b[2]>>
      ReadValue(q) == LoadConstant(c, q)
      defined == ReadItems(2, src[2], ReadInt)
      sizes == ReadItems(4, defined[2], ReadByte)
      code == ReadAll(c, sizes[2], ReadInt)
      values == ReadAll(c, code[2], ReadValue)
      protos == ReadAll(c, values[2], ReadChild)
      lines == ReadAll(c, protos[2], ReadInt)
      locals == ReadAll(c, lines[2], ReadLocal)
      names == ReadAll(c, locals[2], ReadName)
      strings == {i \in DOMAIN values[1] : values[1][i][1] = "string"}
  IN IF p = 0 \/ names[2] = 0 THEN Failed
     ELSE <<[source |-> source, defined |-> defined[1], sizes |-> sizes[1], code |-> code[1],
             constants |-> [i \in DOMAIN values[1] |-> IF i \in strings THEN Nil ELSE values[1][i]],
             pool |-> {[index |-> i, bytes |-> values[1][i][2]] : i \in strings},
             protos |-> protos[1], lines |-> lines[1], locals |-> locals[1], names |-> names[1]], names[2]>>

Undumped(c, name) ==
  LET signature == Read(c, 1, "block")
      version == Read(c, signature[2], "byte")
  IN IF version[2] = 0 \/ signature[1] # "ESC Lua" \/ version[1] # Version THEN Failed ELSE LoadFunction(c, version[2], name)

-----------------------------------------------------------------------------
(* Loading: the strings are interned, and the instructions that get or set a *)
(* global with a slot are rewritten, but not one that sets _G.               *)

Interned(f) ==
  [f EXCEPT !.constants = [i \in DOMAIN @ |-> IF Pooled(f, i) THEN <<"string", Bytes(f, i)>> ELSE @[i]], !.pool = {}]

SlotOf(name) == CHOOSE k \in DOMAIN Slots : Slots[k] = name

Rewritten(f, i) ==
  LET x == i.op
      key == f.constants[i.arg][2]
  IN IF x \notin {"GETGLOBAL", "SETGLOBAL"} THEN i
     ELSE IF f.constants[i.arg][1] # "string" \/ key \notin Range(Slots) THEN i
     ELSE IF x = "SETGLOBAL" /\ SlotOf(key) = 1 THEN i
     ELSE [op |-> IF x = "GETGLOBAL" THEN "GETGLOBALSLOT" ELSE "SETGLOBALSLOT", arg |-> SlotOf(key)]

RECURSIVE Prepared(_, _)
Prepared(f, installed) ==
  LET g == Interned(f)
  IN [g EXCEPT !.code = IF installed THEN [i \in DOMAIN @ |-> Rewritten(g, @[i])] ELSE @,
               !.protos = [i \in DOMAIN @ |-> Prepared(@[i], installed)]]

-----------------------------------------------------------------------------
(* A function from the compiler is written by riluac, or prepared; a live    *)
(* one is written by string.dump; a chunk is read under any name.  The slots *)
(* are installed at some time.                                               *)

Begin(f) == [from |-> f, at |-> "compiled", f |-> f, chunk |-> <<>>, stripped |-> FALSE, installed |-> FALSE]

Prepare == m.at = "compiled" /\ m' = [m EXCEPT !.at = "live", !.f = Prepared(m.f, m.installed)]
Dump ==
  /\ m.at \in {"compiled", "live"}
  /\ \E strip \in IF m.at = "live" THEN {FALSE} ELSE BOOLEAN :
       m' = [m EXCEPT !.at = "chunk", !.chunk = Dumped(m.f, strip), !.stripped = @ \/ strip]
Undump ==
  /\ m.at = "chunk"
  /\ LET read == Undumped(m.chunk, "=other")
     IN m' = IF read[2] = 0 THEN [m EXCEPT !.at = "refused"]
             ELSE [m EXCEPT !.at = "compiled", !.f = read[1], !.chunk = <<>>]
InstallGlobalSlots == ~m.installed /\ m' = [m EXCEPT !.installed = TRUE]

Step == Prepare \/ Dump \/ Undump \/ InstallGlobalSlots
=============================================================================
