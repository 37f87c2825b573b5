------------------------------- MODULE Package -------------------------------
(***************************************************************************)
(* require and module: what package.loaded holds for a name while loaders   *)
(* search for it and while its function runs, in which the program may      *)
(* require again, declare modules, write package.loaded and package.preload,*)
(* and fail.  An error is caught by any of the functions on the stack, or   *)
(* by the program below them.                                               *)
(***************************************************************************)
EXTENDS Integers, Sequences, SequencesExt

CONSTANT Names   \* of modules: the parts between the dots

VARIABLE m   \* the package table, the globals, the calls under way

NilVal == <<"nil">>
Sentinel == <<"sentinel">>
Truthy(v) == v \notin {NilVal, <<"false">>}

(***************************************************************************)
(* A require under way: it searches with its i-th loader, then runs what    *)
(* the loader found.  A loader of the program's own runs too.               *)
(***************************************************************************)
Frame(name) == [name |-> name, at |-> "search", i |-> 1, found |-> "none", env |-> <<"global">>, declared |-> FALSE]
Top == Last(m.calls)
InLua == m.calls # <<>> => Top.at = "loader" \/ (Top.at = "body" /\ Top.found # "native")
WithTop(frame) == [m.calls EXCEPT ![Len(m.calls)] = frame]

\* Frames above the one that catches are gone, and with them their requires.
Catchers == {0} \cup {k \in DOMAIN m.calls : m.calls[k].at # "search"}
Thrown(after, what) ==
  \E k \in Catchers :
    m' = [after EXCEPT !.calls = SubSeq(m.calls, 1, k), !.last = what,
                       !.raised = @ \cup {m.calls[i].name : i \in (k + 1) .. Len(m.calls)}]

\* call_function returns to the Lua function below, which has the value.
Answered(after, name, value) ==
  m' = [after EXCEPT !.calls = Front(m.calls), !.last = [name |-> name, value |-> value]]

-----------------------------------------------------------------------------
(* The four loaders of the package library.                                  *)

Root(name) == SubSeq(name, 1, 1)
Message == "message"
Other == "other"

LoaderPreload(name) == IF m.preload[name] = "nil" THEN Message ELSE m.preload[name]

LoaderLua(name) ==
  CASE m.files[name] = "none" -> Message [] m.files[name] = "broken" -> "error" [] OTHER -> "lua"

\* ll_loadfunc of a library: what it finds, and whether the library stays open.
LoadFunc(lib, entry) ==
  CASE lib[1] = "invalid" -> <<Other, FALSE>>
    [] entry \notin lib[2] -> <<Other, TRUE>>
    [] OTHER -> <<"native", TRUE>>

SearchLibrary(path, entry) ==
  IF m.libs[path] = <<"none">> THEN <<Message, FALSE>>
  ELSE IF ~m.dynmod THEN <<Message, FALSE>>
  ELSE LoadFunc(m.libs[path], entry)
LoaderC(name) == SearchLibrary(name, name)
LoaderCroot(name) == IF Len(name) = 1 THEN <<Other, FALSE>> ELSE SearchLibrary(Root(name), name)

Loaders == (IF m.own THEN <<"own">> ELSE <<>>) \o <<"preload", "lua", "c", "croot">>

Result(loader, name) ==
  CASE loader = "preload" -> <<LoaderPreload(name), FALSE>> [] loader = "lua" -> <<LoaderLua(name), FALSE>>
    [] loader = "c" -> LoaderC(name)                        [] loader = "croot" -> LoaderCroot(name)
Library(loader, name) == IF loader = "croot" THEN Root(name) ELSE name

-----------------------------------------------------------------------------
(* require.                                                                  *)

\* Slip: the name is marked only when a loader was found.
LoadingUnmarked(name) == m

\* The mark goes in before the loaders are asked.
Loading(name) == [m EXCEPT !.loaded[name] = Sentinel]

Asked == [m EXCEPT !.asked = @ + 1]
MayAct == InLua /\ m.asked < m.limit

Require(name) ==
  /\ MayAct
  /\ LET v == m.loaded[name] IN
     IF v = Sentinel THEN Thrown(Asked, [name |-> name, value |-> <<"loop">>])
     ELSE IF Truthy(v) THEN m' = [Asked EXCEPT !.last = [name |-> name, value |-> v]]
     ELSE m' = [Loading(name) EXCEPT !.asked = @ + 1, !.calls = Append(m.calls, Frame(name))]

\* The loaders are through: the name may be tried again.
NotFound ==
  /\ m.calls # <<>> /\ Top.at = "search" /\ Top.i > Len(Loaders)
  /\ Thrown([m EXCEPT !.loaded[Top.name] = NilVal], [name |-> Top.name, value |-> <<"not found">>])

\* One loader, and the start of the function it found.
Entered(after, found) ==
  m' = [after EXCEPT !.calls = WithTop([Top EXCEPT !.at = "body", !.found = found,
                                                   !.env = IF found = "function" THEN m.envs[Top.name] ELSE <<"global">>])]
Passed(after) == m' = [after EXCEPT !.calls = WithTop([Top EXCEPT !.at = "search", !.i = @ + 1])]

Search ==
  /\ m.calls # <<>> /\ Top.at = "search" /\ Top.i <= Len(Loaders)
  /\ LET loader == Loaders[Top.i] IN
     IF loader = "own" THEN m' = [m EXCEPT !.calls = WithTop([Top EXCEPT !.at = "loader"])]
     ELSE LET result == Result(loader, Top.name)
              open == IF result[2] THEN [m EXCEPT !.handles = @ \cup {Library(loader, Top.name)}] ELSE m
          IN CASE result[1] = "error" -> Thrown(open, [name |-> Top.name, value |-> <<"error">>])
               [] result[1] \in {Message, Other} -> Passed(open)
               [] OTHER -> Entered(open, result[1])

\* What the program's own loader answers.
LoaderReturns ==
  /\ m.calls # <<>> /\ Top.at = "loader"
  /\ Passed(m) \/ Entered(m, "lua")

\* The function returned: its value, or what package.loaded has by then.
BodyReturns(value) ==
  /\ m.calls # <<>> /\ Top.at = "body"
  /\ LET name == Top.name
         stored == IF value = NilVal THEN m.loaded[name] ELSE value
         final == IF stored = Sentinel THEN <<"true">> ELSE stored
     IN Answered([m EXCEPT !.loaded[name] = final, !.runs[name] = @ + 1,
                           !.loose = IF value = <<"false">> THEN @ \cup {name} ELSE @], name, final)

Raise ==
  /\ m.calls # <<>> /\ Top.at # "search"
  /\ Thrown([m EXCEPT !.raised = @ \cup {Top.name}], [name |-> Top.name, value |-> <<"error">>])

-----------------------------------------------------------------------------
(* module: the table of the name, found in package.loaded or along the name  *)
(* in the globals, where tables that are not there are made.                 *)


Parents(name) == {SubSeq(name, 1, n) : n \in DOMAIN name}
Conflict(name) == \E p \in Parents(name) : m.globals[p] = "other"
FindOrCreateTable(name) ==
  [p \in DOMAIN m.globals |->
     IF p \in Parents(name) /\ \A q \in Parents(p) : m.globals[q] # "other" THEN "table" ELSE m.globals[p]]

\* Its options: package.seeall, and a function that fails.
Declared(after, name, table, options) ==
  LET initialised == IF after.fields[table] = <<>> THEN [after EXCEPT !.fields[table] = name] ELSE after
      placed == IF m.calls = <<>> THEN initialised
                ELSE [initialised EXCEPT
                        !.calls = WithTop([Top EXCEPT !.env = <<"table", table>>,
                                                      !.declared = @ \/ (Top.at = "body" /\ Top.name = name)]),
                        !.envs = IF Top.found = "function" THEN [@ EXCEPT ![Top.name] = <<"table", table>>] ELSE @]
  IN IF "seeall" \in options THEN [placed EXCEPT !.seeall = @ \cup {table}] ELSE placed

ThrownFrom(after) ==
  \E k \in Catchers :
    m' = [after EXCEPT !.calls = SubSeq(after.calls, 1, k),
                       !.raised = @ \cup {m.calls[i].name : i \in (k + 1) .. Len(m.calls)}]

Module(name, options) ==
  /\ MayAct
  /\ IF m.loaded[name][1] = "table"
     THEN LET after == Declared(Asked, name, m.loaded[name][2], options)
          IN IF "fails" \in options THEN ThrownFrom(after) ELSE m' = after
     ELSE LET made == [Asked EXCEPT !.globals = FindOrCreateTable(name)]
              after == Declared([made EXCEPT !.loaded[name] = <<"table", name>>,
                                             !.loose = IF m.runs[name] > 0 THEN @ \cup {name} ELSE @],
                                name, name, options)
          IN IF Conflict(name) THEN ThrownFrom(made)
             ELSE IF "fails" \in options THEN ThrownFrom(after) ELSE m' = after

-----------------------------------------------------------------------------
(* What the program does to the tables.                                      *)

Assign(name, value) ==
  /\ MayAct
  /\ m' = [Asked EXCEPT !.loaded[name] = value, !.loose = @ \cup {name}]

Preload(name) ==
  /\ MayAct /\ m.preload[name] = "nil"
  /\ m' = [Asked EXCEPT !.preload[name] = "function"]

\* open_package_lib, and where the modules are.
Begin(preload, files, libs, globals, own, dynmod, limit) ==
  [loaded |-> [n \in Names |-> NilVal], preload |-> preload, files |-> files, libs |-> libs, own |-> own,
   dynmod |-> dynmod, handles |-> {}, globals |-> globals, fields |-> [n \in Names |-> <<>>], seeall |-> {},
   envs |-> [n \in Names |-> <<"global">>], calls |-> <<>>, last |-> [name |-> <<>>, value |-> NilVal],
   asked |-> 0, limit |-> limit, runs |-> [n \in Names |-> 0], raised |-> {}, loose |-> {}]

Step ==
  \/ \E name \in Names :
       \/ Require(name) \/ Preload(name)
       \/ \E options \in {{}, {"seeall"}, {"fails"}} : Module(name, options)
       \/ \E value \in {NilVal, <<"value">>} : Assign(name, value)
  \/ NotFound \/ Search \/ LoaderReturns \/ Raise
  \/ \E value \in {NilVal, <<"false">>, <<"value">>} : BodyReturns(value)
=============================================================================
