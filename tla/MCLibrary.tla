----------------------------- MODULE MCLibrary ------------------------------
(***************************************************************************)
(* Parts of the library and of the machine that keep a state of their own  *)
(* while the program's functions run in between, or that take many steps:  *)
(* a behaviour is about one of them.                                       *)
(***************************************************************************)
EXTENDS Integers, Guards

CONSTANTS Size, Values, MAXCCALLS, LUA_MAXCAPTURES, Version

VARIABLES part,   \* which of them
          m,      \* its state
          about   \* what it is about: the parts of the pattern

Slots == <<"_G", "print">>

T == INSTANCE Sort
P == INSTANCE Patterns
Q == INSTANCE PatternSpec
K == INSTANCE Chunk
R == INSTANCE Package WITH Names <- {<<"a">>, <<"a", "b">>}
D == INSTANCE Debugging WITH Lines <- <<1, 1, 2>>, LEVELS1 <- 2, LEVELS2 <- 2,
                             MaxFrames <- [levels |-> 6, events |-> 4, lines |-> 3],
                             MaxTails <- [levels |-> 2, events |-> 1, lines |-> 0]
F == INSTANCE Files WITH Content <- [a |-> <<"x", "newline", "x">>]

GuardFrames == [secrets |-> 4, taint |-> 5, transfer |-> 5, budget |-> 4]

vars == <<part, m, about, guardVars>>
NoGuards == topic = "none" /\ Begin

-----------------------------------------------------------------------------
(* Tables to sort: every table for an order; for answers at random one is    *)
(* enough, the answers do not depend on it.                                  *)

InitSort ==
  /\ part = "sort" /\ about = <<>> /\ NoGuards
  /\ \/ \E n \in 2 .. Size, inArray \in BOOLEAN : \E a \in [1 .. n -> Values] : m = T!Begin(a, "order", inArray)
     \/ \E n \in 2 .. Size, inArray \in BOOLEAN : m = T!Begin([i \in 1 .. n |-> i], "any", inArray)
     \/ \E inArray \in BOOLEAN, a \in [1 .. 4 -> Values] : m = T!Begin(a, "meddle", inArray)

NextSort == part = "sort" /\ T!Next /\ UNCHANGED <<part, about, guardVars>>

(* A sort loses nothing and makes nothing up, whatever the comparison says    *)
(* and whenever it fails; with an order it ends, never complains of the       *)
(* order, and leaves the table sorted.  The calls of auxsort on the native    *)
(* stack are no more than the length of the table can be halved, whatever     *)
(* the comparison answers.                                                    *)
CountIn(a, v) == Cardinality({i \in DOMAIN a : a[i] = v})
Sorted ==
  part = "sort" =>
    /\ m.comp # "meddle" => \A v \in Range(m.from) : CountIn(m.a, v) = CountIn(m.from, v)
    /\ m.comp = "order" => m.verdict \in {"run", "done"}
    /\ m.comp = "order" /\ m.verdict = "done" => \A i, j \in DOMAIN m.a : i < j => m.a[i] <= m.a[j]
    /\ 2 ^ Len(m.frames) <= Len(m.a)

-----------------------------------------------------------------------------
(* Patterns of one or two parts, and captures around and between two.        *)

PartNames == DOMAIN Q!Parts
Patterns ==
  {<<x>> : x \in PartNames} \cup
  UNION {{<<x, y>>, <<"open", x, "close", y>>, <<x, "open", y, "close">>, <<"open", x, "open", y, "close", "close">>,
          <<"open", x, "close", y, "again">>, <<"open", x, "close", "here", y>>} : x, y \in PartNames}

Sources ==
  {<<>>, <<"a">>, <<"1">>, <<"a", "b">>, <<"a", "1", "b">>, <<"a", "a", "b">>,
   <<"a", "b", "a", "b">>, <<"a", "a", "b", "b">>, <<"1", "b", "a", "a", "1">>}

InitPattern ==
  /\ part = "pattern" /\ NoGuards
  /\ about \in {names \in Patterns : Q!Readable(names)}
  /\ \E s \in Sources, op \in {"find", "gmatch", "gsub"}, anchor \in BOOLEAN :
       /\ anchor => Len(about) <= 2 /\ op # "gmatch"
       /\ \E init \in IF op = "find" THEN {1, -1, 2} ELSE {1}, max \in IF op = "gsub" THEN {1, 9} ELSE {9} :
            /\ init <= Len(s) + 1
            /\ m = P!Begin(op, s, (IF anchor THEN <<"^">> ELSE <<>>) \o Q!TextOf(about), init, max,
                           <<"<", "%", "0", "%", "1", ">">>)

NextPattern == part = "pattern" /\ P!Step /\ UNCHANGED <<part, about, guardVars>>

Anchored == P!Anchored(m.p)
MatchAt(i) == Q!At(about, m.s, i)[1]
IsMatch(i, answer) == Q!Matches(about, m.s, i) /\ answer = MatchAt(i)
Starts == IF m.init < 0 THEN Len(m.s) + 1 + m.init ELSE m.init

(* find reports the first place with a match, from where it was told to look, *)
(* and there the match that the manual prefers, with the captures of that     *)
(* match and of none that was given up; with parentheses that do not fit, or  *)
(* a capture that is not there, it never reports a match.                     *)
Finds ==
  part = "pattern" /\ m.op = "find" /\ m.status # "run" =>
    LET low == IF Starts < 1 THEN 1 ELSE Starts
        places == IF Anchored THEN {low} ELSE low .. Len(m.s) + 1
        found == m.out # <<>>
    IN IF Q!WellFormed(about)
       THEN /\ m.status = "done"
            /\ found = \E i \in places : Q!Matches(about, m.s, i)
            /\ found => /\ \A i \in places : i < m.out[1].from => ~Q!Matches(about, m.s, i)
                        /\ IsMatch(m.out[1].from, [end |-> m.out[1].end, caps |-> m.out[1].caps])
       ELSE ~found

(* gmatch and gsub take matches from the left to the right, each the one that *)
(* the manual prefers at its place, none inside another, and none is missed:  *)
(* a place is passed over only in a match, behind an empty one, or when no    *)
(* match begins there.  What gsub returns is the string, piece by piece, with *)
(* the matches replaced, as many as were asked for.                           *)
Taken ==
  IF m.op = "gmatch" THEN [i \in DOMAIN m.out |-> <<m.out[i].from, m.out[i].end>>]
  ELSE LET replaced == SelectSeq(m.out, LAMBDA x : x.replaced)
       IN [i \in DOMAIN replaced |-> <<replaced[i].from, replaced[i].end>>]
Behind(span) == IF span[1] = span[2] THEN span[2] + 1 ELSE span[2]

Replaces ==
  part = "pattern" /\ m.op # "find" /\ m.status # "error" /\ Q!WellFormed(about) =>
    LET spans == Taken
        size == Len(m.s) + 1
        whole(i) == SubSeq(m.s, m.out[i].from, m.out[i].end - 1)
    IN /\ \A i \in DOMAIN spans : /\ spans[i][1] \in 1 .. size
                                  /\ Q!Matches(about, m.s, spans[i][1])
                                  /\ MatchAt(spans[i][1]).end = spans[i][2]
       /\ \A i \in 2 .. Len(spans) : spans[i][1] >= Behind(spans[i - 1])
       /\ ~Anchored /\ Len(spans) < m.max =>
            \A k \in 1 .. (IF m.status = "done" THEN size ELSE m.pos - 1) :
              Q!Matches(about, m.s, k) => \E i \in DOMAIN spans : k \in spans[i][1] .. (Behind(spans[i]) - 1)
       /\ Anchored => Len(spans) <= 1 /\ \A i \in DOMAIN spans : spans[i][1] = 1
       /\ m.op = "gsub" =>
            /\ Len(spans) <= m.max
            /\ \A i \in DOMAIN m.out :
                 /\ m.out[i].from = IF i = 1 THEN 1 ELSE m.out[i - 1].end
                 /\ m.out[i].replaced =>
                      LET caps == MatchAt(m.out[i].from).caps
                          first == IF caps = <<>> THEN whole(i)
                                   ELSE IF caps[1].len < 0 THEN <<caps[1].start>>
                                   ELSE SubSeq(m.s, caps[1].start, caps[1].start + caps[1].len - 1)
                      IN m.out[i].text = <<"<">> \o whole(i) \o first \o <<">">>
                 /\ ~m.out[i].replaced => m.out[i].text = whole(i)
            /\ m.status = "done" => size = IF m.out = <<>> THEN 1 ELSE Last(m.out).end

-----------------------------------------------------------------------------
(* What guards the call stacks: four topics, each with its own behaviours.   *)
(* The properties are those of Guards.                                       *)

InitGuards == part = "guards" /\ about = <<>> /\ m = <<>> /\ Init
NextGuards == part = "guards" /\ Next /\ UNCHANGED <<part, m, about>>

-----------------------------------------------------------------------------
(* Functions to dump: one in another in another, from one source or several,  *)
(* with a nil among the constants and without, stripped already or not.       *)

Function(source, values, protos) ==
  [source |-> source, defined |-> <<0, 9>>, sizes |-> <<0, 1, 2, 3>>,
   code |-> <<[op |-> "GETGLOBAL", arg |-> 1], [op |-> "SETGLOBAL", arg |-> 1], [op |-> "GETGLOBAL", arg |-> 2],
              [op |-> "SETGLOBAL", arg |-> 2], [op |-> "GETGLOBAL", arg |-> 3], [op |-> "LOADK", arg |-> Len(values) + 3]>>,
   constants |-> <<K!Nil, K!Nil, K!Nil>> \o values,
   pool |-> {[index |-> 1, bytes |-> "print"], [index |-> 2, bytes |-> "_G"], [index |-> 3, bytes |-> "x"]},
   protos |-> protos, lines |-> <<1, 1, 2, 2, 3, 3>>, locals |-> <<[name |-> "n", startPc |-> 1, endPc |-> 5]>>, names |-> <<"u", "">>]

InitChunk ==
  /\ part = "chunk" /\ about = <<>> /\ NoGuards
  /\ \E s1, s2, s3 \in {"@a", "=b"}, v1, v2 \in {<<>>, <<K!Nil, <<"bool", 0>>>>, <<<<"number", 1>>>>} :
       \E inner \in {<<>>, <<Function(s3, v2, <<>>)>>} :
         m = K!Begin(Function(s1, v1, <<Function(s2, v2, inner), Function(s3, v1, <<>>)>>))

NextChunk == part = "chunk" /\ K!Step /\ UNCHANGED <<part, about, guardVars>>

(* What a function is to those who run it: constants are values, globals have *)
(* names.                                                                     *)
Named(f, i) ==
  CASE i.op \in {"GETGLOBALSLOT", "SETGLOBALSLOT"} ->
         <<IF i.op = "GETGLOBALSLOT" THEN "GETGLOBAL" ELSE "SETGLOBAL", Slots[i.arg]>>
    [] i.op \in {"GETGLOBAL", "SETGLOBAL"} -> <<i.op, K!Interned(f).constants[i.arg][2]>>
    [] OTHER -> <<i.op, K!Interned(f).constants[i.arg]>>

RECURSIVE Meaning(_, _)
Meaning(f, stripped) ==
  <<f.source, f.defined, f.sizes, [i \in DOMAIN f.code |-> Named(f, f.code[i])], K!Interned(f).constants,
    [i \in DOMAIN f.protos |-> Meaning(f.protos[i], stripped)],
    IF stripped THEN <<>> ELSE <<f.lines, f.locals, f.names>>>>

(* A function means the same however often it was dumped and loaded, with its *)
(* string constants interned or not, its globals in slots or not, the debug   *)
(* information there unless it was stripped; and a chunk that is cut short is *)
(* refused.                                                                   *)
RoundTrip ==
  part = "chunk" =>
    /\ m.at # "refused"
    /\ Meaning(m.f, m.stripped) = Meaning(m.from, m.stripped)
    /\ \A n \in DOMAIN m.chunk : (K!Undumped(SubSeq(m.chunk, 1, n), "=other")[2] # 0) = (n = Len(m.chunk))

-----------------------------------------------------------------------------
(* Modules to require: one whose name is inside the other's, each at home in  *)
(* one of the places where loaders look, or nowhere.                          *)

A == <<"a">>
B == <<"a", "b">>
Homes == {"nowhere", "preloaded", "message", "file", "broken", "library", "invalid", "root"}

InitRequire ==
  /\ part = "require" /\ about = <<>> /\ NoGuards
  /\ \E home \in [{A, B} -> Homes], own, dynmod \in BOOLEAN, global \in {"nil", "other"} :
       /\ home[A] # "root"
       /\ own => \A n \in {A, B} : home[n] \in {"nowhere", "file"}
       /\ ~dynmod => \E n \in {A, B} : home[n] = "library"
       /\ global = "other" => home[A] = "file"
       /\ LET Where(as) == [n \in {A, B} |-> as[home[n]]]
              Only(homes, there, otherwise) == [h \in Homes |-> IF h \in homes THEN there ELSE otherwise]
          IN m = R!Begin(Where([Only({"preloaded"}, "function", "nil") EXCEPT !["message"] = "message"]),
                         Where([Only({"file"}, "good", "none") EXCEPT !["broken"] = "broken"]),
                         [n \in {A, B} |->
                            IF n = A /\ home[B] = "root" THEN <<"open", {B} \cup {p \in {A} : home[p] = "library"}>>
                            ELSE IF home[n] = "library" THEN <<"open", {n}>>
                            ELSE IF home[n] = "invalid" THEN <<"invalid">> ELSE <<"none">>],
                         [n \in {A, B} |-> IF n = A THEN global ELSE "nil"], own, dynmod, 3)

NextRequire == part = "require" /\ R!Step /\ UNCHANGED <<part, about, guardVars>>

(* A module is never started again while it is being loaded, however its      *)
(* loaders and functions require each other and declare modules; it is run to *)
(* its end once, and from then on it is there; a name is left marked only by  *)
(* a load that failed; require never answers with nothing or with the mark;   *)
(* a table in package.loaded is a declared module's; and the library of an    *)
(* entry point is kept open.  All this unless the program has written         *)
(* package.loaded itself, or declared a module over one that was loaded, or   *)
(* the module's own answer was false.                                         *)
Loaded ==
  part = "require" =>
    /\ \A n \in {A, B} :
         LET under == {i \in DOMAIN m.calls : m.calls[i].name = n}
         IN /\ m.loaded[n] = R!Sentinel => under # {} \/ n \in m.raised
            /\ m.loaded[n][1] = "table" => m.fields[m.loaded[n][2]] # <<>>
            /\ n \notin m.loose =>
                 /\ Cardinality(under) + m.runs[n] <= 1
                 /\ under # {} => R!Truthy(m.loaded[n])
                 /\ m.runs[n] > 0 => R!Truthy(m.loaded[n]) /\ m.loaded[n] # R!Sentinel
                 /\ m.last.name = n => m.last.value \notin {R!NilVal, R!Sentinel}
    /\ \A i \in DOMAIN m.calls :
         LET call == m.calls[i]
         IN /\ call.declared /\ call.name \notin m.loose => m.loaded[call.name][1] = "table"
            /\ call.found = "native" => {call.name, R!Root(call.name)} \cap m.handles # {}

-----------------------------------------------------------------------------
(* Hooks, and levels: frames with tail calls on the main thread or another.  *)

InitDebugging ==
  /\ part = "debugging" /\ about = <<>> /\ NoGuards
  /\ \/ \E main \in BOOLEAN : m = D!Begin("levels", main)
     \/ \E what \in {"events", "lines"} : m = D!Begin(what, TRUE)

NextDebugging == part = "debugging" /\ D!Step /\ UNCHANGED <<part, about, guardVars>>

(* Hooks are off exactly while one runs, however it is left; who hears of     *)
(* calls and returns, and of those of elided functions, can keep count of the *)
(* levels on the stack; a line is announced when it is entered or entered     *)
(* again, and no other time; and a count hook never misses its turn.          *)
Hooked ==
  part = "debugging" =>
    /\ m.allow = ~\E i \in DOMAIN m.frames : m.frames[i].hook
    /\ D!Watched(m) => D!Levels(m) - m.from = m.balance
    /\ ~m.wrong
    /\ "count" \in m.hook.mask => m.hook.count \in 1 .. m.hook.base

(* Levels count the functions that were called and have not returned, those  *)
(* that gave way to a tail call included, and a traceback names each of them *)
(* once and in order, or the first and the last ones when they are many,      *)
(* whether it takes the way without tail calls or the other one.              *)
Chain ==
  FlattenSeq([i \in DOMAIN m.frames |->
    LET at == Len(m.frames) + 1 - i
    IN <<ToString(at)>> \o [t \in 1 .. m.frames[at].tails |-> "tail call"]]) \o (IF m.main THEN <<"0">> ELSE <<>>)

Traced ==
  part = "debugging" =>
    LET shown == Tail(Chain)
        n == Len(shown)
    IN /\ \A level \in 0 .. n + 3 :
            D!ResolveStackLevel(level) = IF level <= n THEN Chain[level + 1] ELSE "none"
       /\ D!Traceback(1) = IF n <= 4 THEN shown ELSE SubSeq(shown, 1, 2) \o <<"...">> \o SubSeq(shown, n - 1, n)

-----------------------------------------------------------------------------
(* Files: handles coming and going, and reads of a few short texts.          *)

Texts == {<<>>, <<"newline">>, <<"x", "newline", "1", "2">>, <<"1", "newline", "newline", "x">>, <<"x", "x", "x">>}

InitFiles ==
  /\ part = "files" /\ about = <<>> /\ NoGuards
  /\ \/ m = F!Begin("handles", 5, 6, <<"x">>)
     \/ \E text \in Texts : m = F!Begin("reads", 3, 4, text)

NextFiles == part = "files" /\ F!Step /\ UNCHANGED <<part, about, guardVars>>

(* A stream is closed once, in the way it was opened, and not used after: by  *)
(* the program, by the collector, or by the iterator that opened it, when it  *)
(* has come to the end.  An open stream has one handle, which says so, and a  *)
(* handle that is gone has left none open.                                    *)
OwnedOnce ==
  LET open == {s \in DOMAIN m.streams : m.streams[s].open}
      owners(s) == {h \in DOMAIN m.files : m.files[h].file = s}
  IN /\ ~m.wrong
     /\ \A s \in open : \E h \in DOMAIN m.files : owners(s) = {h} /\ F!IoType(h) = "file" /\ ~m.files[h].freed
     /\ \A h \in DOMAIN m.files : F!IoType(h) = "file" => m.files[h].file \in open
     /\ \A i \in DOMAIN m.iters : m.iters[i].ended /\ m.iters[i].toclose => m.iters[i].stream \notin open

(* Iterators give the lines of their file in order, those that opened it all  *)
(* of them.                                                                   *)
Joined(lines) == FlattenSeq([i \in DOMAIN lines |-> Append(lines[i], "newline")])
LinesInOrder ==
  \A i \in DOMAIN m.iters :
    LET iter == m.iters[i]
        text == m.streams[iter.stream].text
        ended == IF text = <<>> \/ Last(text) = "newline" THEN text ELSE Append(text, "newline")
    IN iter.toclose => /\ IsPrefix(Joined(iter.lines), ended)
                       /\ iter.ended => Joined(iter.lines) = ended

(* What a read returns is, laid side by side, what the file holds between the *)
(* place before it and the place after, each value what its format asks for;  *)
(* nil comes last, and for want of anything left.  A line or a number that is *)
(* not there leaves nothing to be replaced by nil: behind other values it     *)
(* takes the one before it.                                                   *)
ReadsTile ==
  LET formats == IF m.last.formats = <<>> THEN <<<<"*l">>>> ELSE m.last.formats
      values == m.last.values
      text == m.streams[m.last.stream].text
      n == Len(values)
      missing == values[n] = F!Nil
      atEnd == m.last.to >= Len(text)
      piece(i) == IF values[i] = F!Nil THEN <<>> ELSE IF formats[i] = <<"*l">> THEN Append(values[i], "newline") ELSE values[i]
      laid == FlattenSeq([i \in 1 .. n |-> piece(i)])
      read == SubSeq(text, m.last.from + 1, m.last.to)
      solid(s) == SelectSeq(s, LAMBDA c : c # "newline")
      numbers == <<"*n">> \in {formats[i] : i \in 1 .. n}
  IN m.last.stream # F!None /\ ~(n > 1 /\ missing /\ formats[n] \in {<<"*l">>, <<"*n">>}) =>
       /\ n \in DOMAIN formats
       /\ n < Len(formats) => missing
       /\ \A i \in 1 .. n - 1 : values[i] # F!Nil
       /\ missing => formats[n] # <<"*a">> /\ (atEnd \/ formats[n] = <<"*n">>)
       /\ IF numbers THEN solid(laid) = solid(read)
          ELSE laid = read \/ (atEnd /\ laid = Append(read, "newline"))
       /\ \A i \in 1 .. n :
            values[i] # F!Nil =>
              CASE formats[i] = <<"*l">> -> "newline" \notin Range(values[i])
                [] formats[i] = <<"*n">> -> values[i] # <<>> /\ Range(values[i]) \subseteq F!Digits
                [] formats[i] = <<"0">>  -> values[i] = <<>>
                [] formats[i] = <<"*a">> -> atEnd
                [] OTHER -> Len(values[i]) = (IF formats[i] = <<"1">> THEN 1 ELSE 2) \/ atEnd

(* The three of them.                                                         *)
Filed == part = "files" => OwnedOnce /\ LinesInOrder /\ ReadsTile

-----------------------------------------------------------------------------
Over ==
  /\ (part = "sort" /\ m.verdict # "run") \/ (part = "pattern" /\ m.status # "run")
     \/ (part = "require" /\ m.calls = <<>>) \/ part = "files"
     \/ (part = "debugging" /\ Len(m.frames) = 1)
  /\ UNCHANGED vars

InitLibrary == InitSort \/ InitPattern \/ InitGuards \/ InitChunk \/ InitRequire \/ InitDebugging \/ InitFiles
NextLibrary == NextSort \/ NextPattern \/ NextGuards \/ NextChunk \/ NextRequire \/ NextDebugging \/ NextFiles \/ Over
LibrarySpec == InitLibrary /\ [][NextLibrary]_vars
=============================================================================
