------------------------------ MODULE Collector ------------------------------
(***************************************************************************)
(* The incremental mark-and-sweep collector of vm/gc/collector.rs, run     *)
(* interleaved with the operations of a Lua program on the heap.           *)
(*                                                                         *)
(* An element of Obj is a GcRef: an arena slot together with its           *)
(* generation.  A freed reference never denotes a new object (module       *)
(* Arena), so an identity is allocated again only when nothing in the      *)
(* heap or on a stack still mentions it.                                   *)
(*                                                                         *)
(* One SingleStep action is one call of LuaState::gc_singlestep; program   *)
(* actions run between two of them, because the interpreter calls the      *)
(* collector at its allocation opcodes only (execute.rs, gc_check).        *)
(***************************************************************************)
EXTENDS Naturals, FiniteSets

CONSTANTS
  Strings, Tables, Closures, Upvalues, Userdata, Threads, \* the six arenas
  Global,        \* the global table; the registry is treated alike
  Finalizable,   \* userdata whose metatable has a __gc field
  SweepMax,      \* GCSWEEPMAX: occupied slots swept by one step
  MaxRefs,       \* bound: strong references held by one object
  MaxStack,      \* bound: objects on the running stack
  Unbarriered,   \* the operations without a write barrier the program uses
  Quiet,         \* those it uses only between two cycles
  StopTheWorld   \* TRUE: cycles are only run whole, by collectgarbage()

Obj == Strings \union Tables \union Closures \union Upvalues
         \union Userdata \union Threads

(***************************************************************************)
(* The writes that reach the heap without calling a barrier.               *)
(***************************************************************************)
UnbarrieredOps == {"setfenv", "debug.setmetatable", "debug.setupvalue",
                   "settypemetatable", "overlimit", "suspend"}

ASSUME KindsAssumption ==
  /\ Tables \intersect (Strings \union Closures \union Upvalues
                         \union Userdata \union Threads) = {}
  /\ Strings \intersect (Closures \union Upvalues \union Userdata
                          \union Threads) = {}
  /\ Closures \intersect (Upvalues \union Userdata \union Threads) = {}
  /\ Upvalues \intersect (Userdata \union Threads) = {}
  /\ Userdata \intersect Threads = {}

ASSUME ConstAssumption ==
  /\ Global \in Tables
  /\ "main" \notin Threads
  /\ Finalizable \subseteq Userdata
  /\ SweepMax \in Nat \ {0}
  /\ MaxRefs \in Nat
  /\ MaxStack \in Nat
  /\ Unbarriered \subseteq UnbarrieredOps
  /\ Quiet \subseteq UnbarrieredOps
  /\ StopTheWorld \in BOOLEAN

VARIABLES
  color,          \* colour byte of each slot, "free" when unoccupied
  refs,           \* the objects an object refers to strongly
  stack,          \* objects on the running thread's stack, below top
  open,           \* the running thread's open_upvalues
  saved,          \* objects on the resumer's stack (saved_threads)
  parked,         \* the resumer's suspended_upvals, closed while it waits
  current,        \* current_thread: a coroutine, or "main"
  typeMetatables, \* type_metatables of the non-table, non-userdata types
  phase,          \* GcPhase
  currentWhite,   \* current_white
  gray,           \* the gray list without MainThread
  grayagain,      \* the grayagain list without MainThread
  mainGray,       \* GrayItem::MainThread is on the gray list
  arena,          \* arena being swept, an index of Arenas
  unswept,        \* occupied slots the sweep cursor has not reached
  tmudata,        \* userdata waiting for their __gc call
  finalized,      \* userdata with the finalized flag
  doomed          \* history: what was garbage when the cycle marked its roots

heapVars == <<color, refs, finalized>>
rootVars == <<stack, open, saved, parked, current, typeMetatables>>
gcVars   == <<phase, currentWhite, gray, grayagain, mainGray, arena, unswept,
              tmudata>>
vars     == <<heapVars, rootVars, gcVars, doomed>>

Phases == {"Pause", "Propagate", "SweepString", "Sweep", "Finalize"}
Whites == {"white0", "white1"}
Colors == Whites \union {"free", "gray", "black"}

(***************************************************************************)
(* Arenas are swept in this order; SweepString is the sweep of the first.  *)
(***************************************************************************)
Arenas == <<Strings, Tables, Closures, Upvalues, Userdata, Threads>>

OtherWhite == IF currentWhite = "white0" THEN "white1" ELSE "white0"
White     == {o \in Obj : color[o] \in Whites}
Allocated == {o \in Obj : color[o] # "free"}

-----------------------------------------------------------------------------
(***************************************************************************)
(* Reach(S, E): what is reached from S by following the references of the  *)
(* objects of E, the least superset of S closed under them.                *)
(***************************************************************************)
ClosedUnder(R, E) == \A p \in R \intersect E : refs[p] \subseteq R

Reach(S, E) ==
  LET closed == {R \in SUBSET Obj : S \subseteq R /\ ClosedUnder(R, E)}
  IN  {o \in Obj : \A R \in closed : o \in R}

(***************************************************************************)
(* Everything the program can still name.                                  *)
(***************************************************************************)
Roots == {Global} \union typeMetatables \union stack \union open
           \union saved \union parked \union tmudata

Reachable == Reach(Roots, Obj)

(***************************************************************************)
(* What neither the program nor a finalizer still to be called can reach.  *)
(***************************************************************************)
Awaiting == (Finalizable \ finalized) \intersect Allocated

Garbage == Allocated \ Reach(Roots \union Awaiting, Obj)

(***************************************************************************)
(* mark_value: tables, closures and threads turn gray and are listed;      *)
(* strings, upvalues and userdata turn black at once and their fields are  *)
(* marked on the spot.  Marked(S) is what marking S colours.               *)
(***************************************************************************)
Instant == Strings \union Upvalues \union Userdata

Marked(S) == Reach(S, White \intersect Instant) \intersect White

Shade(M) == [o \in Obj |-> IF o \notin M THEN color[o]
                           ELSE IF o \in Instant THEN "black" ELSE "gray"]

-----------------------------------------------------------------------------
(***************************************************************************)
(* The parts of a cycle that the properties hinge on, each preceded by the *)
(* slip in it that the checks must notice.                                 *)
(***************************************************************************)

(***************************************************************************)
(* What mark_roots marks before the main thread.                           *)
(***************************************************************************)
FirstRoots == {Global} \union typeMetatables

(***************************************************************************)
(* What traverse_main_thread marks: the running stack, its open upvalues,  *)
(* and the same of the saved resumer.  Slip: the resumer is forgotten.     *)
(***************************************************************************)
MainRootsRunningOnly == stack \union open
MainRoots == stack \union open \union saved \union parked

(***************************************************************************)
(* The threads to traverse again in the atomic step, their stacks being    *)
(* written without barriers.  Slip: a thread is traversed once.            *)
(***************************************************************************)
RelistNothing(o) == grayagain
Relist(o) == IF o \in Threads THEN grayagain \union {o} ELSE grayagain

(***************************************************************************)
(* separate_userdata: the white userdata whose __gc has not run.  Slips:   *)
(* the finalized flag is not looked at; no userdata is separated.          *)
(***************************************************************************)
DeadUserdataAgain(live) == (Finalizable \intersect White) \ live
DeadUserdataNone(live) == {}
DeadUserdata(live) == ((Finalizable \ finalized) \intersect White) \ live

(***************************************************************************)
(* mark_tmudata and the propagation after it: what the finalizers to be    *)
(* called lead to through the objects of E.  Slip: it is not marked.       *)
(***************************************************************************)
KeptForgotten(dead, E) == {}
Kept(dead, E) == Reach(tmudata \union dead, E \union tmudata)

(***************************************************************************)
(* The whites flip at the end of the atomic step, and a new object has the *)
(* current one.  Slips: no flip; the other white.                          *)
(***************************************************************************)
SameWhite == currentWhite
NextWhite == OtherWhite
NewWhite  == currentWhite

-----------------------------------------------------------------------------
(***************************************************************************)
(* gc_singlestep, one action per phase.                                    *)
(***************************************************************************)

(***************************************************************************)
(* Pause: empty the lists and mark_roots.  MainThread is pushed first, so  *)
(* the LIFO gray list yields it only when everything else is traversed.    *)
(* doomed records what no chain of references from a root or from a        *)
(* finalizer still to be called leads to.                                  *)
(***************************************************************************)
MarkRoots ==
  LET M == Marked(FirstRoots)
  IN  /\ color' = Shade(M)
      /\ gray' = M \ Instant
      /\ grayagain' = {}
      /\ mainGray' = TRUE
      /\ phase' = "Propagate"
      /\ doomed' = Garbage
      /\ UNCHANGED <<refs, finalized, rootVars, currentWhite, arena, unswept,
                     tmudata>>

StartCycle == phase = "Pause" /\ MarkRoots

(***************************************************************************)
(* propagate_one: traverse a gray object.                                  *)
(***************************************************************************)
PropagateOne(o) ==
  LET M == Marked(refs[o])
  IN  /\ phase = "Propagate"
      /\ o \in gray
      /\ color' = [Shade(M) EXCEPT ![o] = "black"]
      /\ gray' = (gray \ {o}) \union (M \ Instant)
      /\ grayagain' = Relist(o)
      /\ UNCHANGED <<refs, finalized, rootVars, phase, currentWhite, mainGray,
                     arena, unswept, tmudata, doomed>>

PropagateMain ==
  LET M == Marked(MainRoots)
  IN  /\ phase = "Propagate"
      /\ gray = {} /\ mainGray
      /\ color' = Shade(M)
      /\ gray' = M \ Instant
      /\ mainGray' = FALSE
      /\ UNCHANGED <<refs, finalized, rootVars, phase, currentWhite, grayagain,
                     arena, unswept, tmudata, doomed>>

(***************************************************************************)
(* atomic, with the traverse_main_thread_for_atomic that precedes it.      *)
(*   live: what the gray lists, the white objects reached and the main     *)
(*         thread lead to; a black object off grayagain is not followed.   *)
(*   dead: the userdata left white that have a finalizer to call.          *)
(*   kept: what their finalizers need.                                     *)
(* Then the whites flip, so that what is still white is condemned, and the *)
(* sweep cursor is reset.                                                  *)
(***************************************************************************)
Atomic ==
  LET again   == grayagain \union White
      live    == Reach(MainRoots \union grayagain, again)
      dead    == DeadUserdata(live)
      kept    == Kept(dead, again)
      marked  == Allocated \intersect ((Obj \ White) \union live \union kept)
  IN  /\ phase = "Propagate"
      /\ gray = {} /\ ~mainGray
      /\ color' = [o \in Obj |-> IF o \in marked THEN "black" ELSE color[o]]
      /\ finalized' = finalized \union dead
      /\ tmudata' = tmudata \union dead
      /\ grayagain' = {}
      /\ currentWhite' = NextWhite
      /\ phase' = "SweepString"
      /\ arena' = 1
      /\ unswept' = Allocated
      /\ UNCHANGED <<refs, rootVars, gray, mainGray, doomed>>

(***************************************************************************)
(* sweep_strings_step and sweep_other_step: the next SweepMax occupied     *)
(* slots of the arena under the cursor.  The order of the slots is left    *)
(* open; slots occupied after the atomic step have the current white and   *)
(* are left as they are, so the cursor may skip them.                      *)
(***************************************************************************)
Batches(A) ==
  LET left == unswept \intersect A
      n    == IF Cardinality(left) < SweepMax THEN Cardinality(left) ELSE SweepMax
  IN  {B \in SUBSET left : Cardinality(B) = n}

SweepBatch(B) ==
  LET freed == {o \in B : color[o] = OtherWhite}
  IN  /\ color' = [o \in Obj |-> IF o \in freed THEN "free"
                                 ELSE IF o \in B THEN currentWhite ELSE color[o]]
      /\ refs' = [o \in Obj |-> IF o \in freed THEN {} ELSE refs[o]]
      /\ finalized' = finalized \ freed
      /\ unswept' = unswept \ B

SweepStrings ==
  /\ phase = "SweepString"
  /\ \E B \in Batches(Strings) : SweepBatch(B)
  /\ IF unswept' \intersect Strings = {}
       THEN phase' = "Sweep" /\ arena' = 2
       ELSE UNCHANGED <<phase, arena>>
  /\ UNCHANGED <<rootVars, currentWhite, gray, grayagain, mainGray, tmudata, doomed>>

SweepOther ==
  /\ phase = "Sweep"
  /\ \E B \in Batches(Arenas[arena]) : SweepBatch(B)
  /\ IF unswept' \intersect Arenas[arena] # {}
       THEN UNCHANGED <<phase, arena>>
       ELSE IF arena = 6 THEN phase' = "Finalize" /\ arena' = arena
                         ELSE phase' = phase /\ arena' = arena + 1
  /\ UNCHANGED <<rootVars, currentWhite, gray, grayagain, mainGray, tmudata, doomed>>

(***************************************************************************)
(* Finalize: call_gc_finalizer pops one userdata and calls its __gc with   *)
(* it, which puts it within the program's reach again; the order is that   *)
(* of module Finalizers.  With none left the cycle is complete.            *)
(***************************************************************************)
CallFinalizer(d) ==
  /\ phase = "Finalize"
  /\ d \in tmudata
  /\ tmudata' = tmudata \ {d}
  /\ stack' = stack \union {d}
  /\ UNCHANGED <<heapVars, open, saved, parked, current, typeMetatables, phase,
                 currentWhite, gray, grayagain, mainGray, arena, unswept, doomed>>

EndCycle ==
  /\ phase = "Finalize"
  /\ tmudata = {}
  /\ phase' = "Pause"
  /\ UNCHANGED <<heapVars, rootVars, currentWhite, gray, grayagain, mainGray,
                 arena, unswept, tmudata, doomed>>

SingleStep ==
  \/ StartCycle
  \/ \E o \in Obj : PropagateOne(o)
  \/ PropagateMain
  \/ Atomic
  \/ SweepStrings
  \/ SweepOther
  \/ \E d \in Userdata : CallFinalizer(d)
  \/ EndCycle

-----------------------------------------------------------------------------
(***************************************************************************)
(* Write barriers.  Both act in the Propagate phase only.  Slips: neither  *)
(* does anything.                                                          *)
(***************************************************************************)
BarrierBackNone(t) == UNCHANGED <<color, grayagain>>
BarrierBack(t) ==
  IF phase = "Propagate" /\ color[t] = "black"
    THEN /\ color' = [color EXCEPT ![t] = "gray"]
         /\ grayagain' = grayagain \union {t}
    ELSE UNCHANGED <<color, grayagain>>

BarrierForwardNone(u, V) == UNCHANGED <<color, gray>>
BarrierForward(u, V) ==
  LET M == Marked(V)
  IN  IF phase = "Propagate" /\ color[u] = "black"
        THEN color' = Shade(M) /\ gray' = gray \union (M \ Instant)
        ELSE UNCHANGED <<color, gray>>

-----------------------------------------------------------------------------
(***************************************************************************)
(* The program.  Held is what its instructions can name; a value that is   *)
(* not collectable is written {} and an object v is written {v}.           *)
(***************************************************************************)
Held == stack \union {Global}

ValuesOf(S) == {{}} \union {{v} : v \in S \ Upvalues}

(***************************************************************************)
(* What the objects of S refer to between them.                            *)
(***************************************************************************)
Content(S) == UNION {refs[o] : o \in S}

ProgramRuns == StopTheWorld => phase \in {"Pause", "Finalize"}

Push(S) == stack' = stack \union S /\ Cardinality(stack') <= MaxStack

gcRest == <<phase, currentWhite, mainGray, arena, unswept, tmudata>>

(***************************************************************************)
(* alloc_*: a free slot takes the current white.  Tables, strings and      *)
(* userdata start empty, a thread holds its function, a Rust closure the   *)
(* values captured from the stack.                                         *)
(***************************************************************************)
Fresh(o) == /\ color[o] = "free"
            /\ o \notin Roots
            /\ \A p \in Allocated : o \notin refs[p]

Occupy(S, r) ==
  /\ color' = [o \in Obj |-> IF o \in S THEN NewWhite ELSE color[o]]
  /\ refs' = [o \in Obj |-> IF o \in S THEN r[o] ELSE refs[o]]
  /\ doomed' = doomed \ S

Alloc(o, R) ==
  /\ ProgramRuns
  /\ Fresh(o)
  /\ R \subseteq stack
  /\ Cardinality(R) <= MaxRefs
  /\ \/ o \in Strings \union Tables \union Userdata /\ R = {}
     \/ o \in Threads /\ \E f \in Closures : R = {f}
     \/ o \in Closures
  /\ Occupy({o}, [x \in {o} |-> R])
  /\ Push({o})
  /\ UNCHANGED <<finalized, open, saved, parked, current, typeMetatables, gray,
                 grayagain, gcRest>>

(***************************************************************************)
(* OpCode::Closure: each captured variable is an open upvalue of the       *)
(* running stack, made by find_upvalue if it has none yet, or an upvalue   *)
(* of the closure being executed.                                          *)
(***************************************************************************)
MakeClosure(c, U) ==
  LET new    == {u \in U : Fresh(u)}
      parent == Content(stack \intersect Closures)
  IN  /\ ProgramRuns
      /\ Fresh(c)
      /\ U # {} /\ Cardinality(U) <= MaxRefs
      /\ U \ new \subseteq open \union parent
      /\ Occupy(new \union {c}, [x \in new \union {c} |-> IF x = c THEN U ELSE {}])
      /\ open' = open \union new
      /\ Push({c})
      /\ UNCHANGED <<finalized, saved, parked, current, typeMetatables, gray,
                     grayagain, gcRest>>

(***************************************************************************)
(* Reading: an entry of a table, the metatable or environment of an        *)
(* object, a variable captured by a closure, a type metatable.             *)
(***************************************************************************)
Readable(o) == (refs[o] \ Upvalues) \union Content(refs[o] \intersect Upvalues)

Load(v) ==
  /\ ProgramRuns
  /\ v \in typeMetatables \union UNION {Readable(o) : o \in Held \ Threads}
  /\ Push({v})
  /\ UNCHANGED <<heapVars, open, saved, parked, current, typeMetatables, gray,
                 grayagain, doomed, gcRest>>

Drop(v) ==
  /\ ProgramRuns
  /\ v \in stack
  /\ stack' = stack \ {v}
  /\ UNCHANGED <<heapVars, open, saved, parked, current, typeMetatables, gray,
                 grayagain, doomed, gcRest>>

Write(o, R) == /\ Cardinality(R) <= MaxRefs
               /\ refs' = [refs EXCEPT ![o] = R]

(***************************************************************************)
(* Writing a table (table_set, rawset, setmetatable): an entry or the      *)
(* metatable changes from old to new, then the backward barrier.           *)
(***************************************************************************)
TableSet(t, old, new) ==
  /\ ProgramRuns
  /\ t \in Held \intersect Tables
  /\ old \subseteq refs[t]
  /\ Write(t, (refs[t] \ old) \union new)
  /\ BarrierBack(t)
  /\ UNCHANGED <<finalized, rootVars, gray, doomed, gcRest>>

(***************************************************************************)
(* OpCode::SetUpval: an open upvalue stands for a stack slot, a closed one *)
(* holds the value; the forward barrier is called in both cases.           *)
(***************************************************************************)
SetUpvalue(u, V) ==
  /\ ProgramRuns
  /\ \E c \in stack \intersect Closures : u \in refs[c]
  /\ IF u \in open THEN UNCHANGED refs ELSE Write(u, V)
  /\ BarrierForward(u, V)
  /\ UNCHANGED <<finalized, rootVars, grayagain, doomed, gcRest>>

(***************************************************************************)
(* One round of the loop of close_upvalues: the upvalue takes the value V  *)
(* of its stack slot, with the forward barrier.                            *)
(***************************************************************************)
CloseUpvalue(u, V) ==
  /\ ProgramRuns
  /\ u \in open
  /\ Write(u, V)
  /\ open' = open \ {u}
  /\ BarrierForward(u, V)
  /\ UNCHANGED <<finalized, stack, saved, parked, current, typeMetatables,
                 grayagain, doomed, gcRest>>

-----------------------------------------------------------------------------
(***************************************************************************)
(* The operations that write the heap and call no barrier: setfenv and     *)
(* debug.setfenv; debug.setmetatable and the set_metatable of the typed    *)
(* handles; debug.setupvalue; debug.setmetatable on a value of a type      *)
(* whose metatable is shared (one such type is modelled); a table_set that *)
(* has written its entry and then fails on the allocation limit.           *)
(***************************************************************************)
Unguarded(op) == op \in Unbarriered \/ (op \in Quiet /\ phase = "Pause")

Unbarred(op, o, old, new) ==
  /\ ProgramRuns
  /\ Unguarded(op)
  /\ old \subseteq refs[o] \ Upvalues
  /\ Write(o, (refs[o] \ old) \union new)
  /\ UNCHANGED <<color, finalized, rootVars, gray, grayagain, doomed, gcRest>>

SetFenv(o, old, env) ==
  /\ o \in stack \intersect (Closures \union Userdata \union Threads)
  /\ env \in {{t} : t \in Held \intersect Tables}
  /\ Unbarred("setfenv", o, old, env)

DebugSetMetatable(o, old, mt) ==
  /\ o \in stack \intersect (Tables \union Userdata)
  /\ mt \in {{}} \union {{t} : t \in Held \intersect Tables}
  /\ Unbarred("debug.setmetatable", o, old, mt)

TableSetOverLimit(t, old, new) ==
  /\ t \in Held \intersect Tables
  /\ Unbarred("overlimit", t, old, new)

DebugSetUpvalue(u, V) ==
  /\ \E c \in stack \intersect Closures : u \in refs[c]
  /\ u \notin open
  /\ Unbarred("debug.setupvalue", u, refs[u], V)

SetTypeMetatable(mt) ==
  /\ ProgramRuns
  /\ Unguarded("settypemetatable")
  /\ mt \in {{}} \union {{t} : t \in Held \intersect Tables}
  /\ typeMetatables' = mt
  /\ UNCHANGED <<heapVars, stack, open, saved, parked, current, gray, grayagain,
                 doomed, gcRest>>

-----------------------------------------------------------------------------
(***************************************************************************)
(* The coroutine swap.  The running thread's stack is not in the arena:    *)
(* auxresume moves the resumer's stack to saved_threads and the            *)
(* coroutine's out of its arena entry, save_and_restore_by_ref moves both  *)
(* back.  Open upvalues of the thread that is put away are closed, without *)
(* a barrier, and reopened when it runs again.  One level of resume is     *)
(* modelled; module Coroutine has the nesting.                             *)
(***************************************************************************)
Captures(U, S) == [U -> ValuesOf(S)]

Resume(co, args, captured) ==
  LET suspended == refs[co] \intersect Upvalues
  IN  /\ ProgramRuns
      /\ current = "main"
      /\ co \in stack \intersect Threads
      /\ args \subseteq stack
      /\ refs' = [o \in Obj |-> IF o \in open THEN captured[o]
                                ELSE IF o \in suspended \union {co} THEN {}
                                ELSE refs[o]]
      /\ current' = co
      /\ saved' = stack
      /\ parked' = open
      /\ stack' = (refs[co] \ Upvalues) \union Content(suspended) \union args
      /\ open' = suspended
      /\ UNCHANGED <<color, finalized, typeMetatables, gray, grayagain, doomed,
                     gcRest>>

(***************************************************************************)
(* A yield, a return or an error: the coroutine keeps kept, what its stack *)
(* holds below top, and passes the values passed to its resumer.           *)
(***************************************************************************)
Suspend(kept, passed, captured) ==
  LET co == current
  IN  /\ ProgramRuns
      /\ current # "main"
      /\ open # {} => "suspend" \in Unbarriered
      /\ kept \subseteq stack /\ passed \subseteq stack
      /\ UNION {captured[u] : u \in open} \subseteq kept
      /\ Cardinality(kept \union open) <= MaxRefs
      /\ refs' = [o \in Obj |-> IF o = co THEN kept \union open
                                ELSE IF o \in open THEN captured[o]
                                ELSE IF o \in parked THEN {} ELSE refs[o]]
      /\ current' = "main"
      /\ stack' = saved \union passed \union Content(parked)
      /\ Cardinality(stack') <= MaxStack
      /\ open' = parked
      /\ saved' = {}
      /\ parked' = {}
      /\ UNCHANGED <<color, finalized, typeMetatables, gray, grayagain, doomed,
                     gcRest>>

-----------------------------------------------------------------------------
Init ==
  /\ color = [o \in Obj |-> IF o = Global THEN "white0" ELSE "free"]
  /\ refs = [o \in Obj |-> {}]
  /\ stack = {} /\ open = {} /\ saved = {} /\ parked = {}
  /\ current = "main"
  /\ typeMetatables = {}
  /\ phase = "Pause"
  /\ currentWhite = "white0"
  /\ gray = {} /\ grayagain = {} /\ mainGray = FALSE
  /\ arena = 1 /\ unswept = {}
  /\ tmudata = {} /\ finalized = {}
  /\ doomed = {}

HeapOps ==
  \/ \E o \in Obj : \E R \in SUBSET stack : Alloc(o, R)
  \/ \E c \in Closures, U \in SUBSET Upvalues : MakeClosure(c, U)
  \/ \E v \in Obj : Load(v)
  \/ \E v \in stack : Drop(v)
  \/ \E t \in Held \intersect Tables :
       \E old \in ValuesOf(refs[t]), new \in ValuesOf(Held) : TableSet(t, old, new)
  \/ \E u \in Upvalues : \E V \in ValuesOf(Held) : SetUpvalue(u, V)
  \/ \E u \in open : \E V \in ValuesOf(stack) : CloseUpvalue(u, V)

UnbarrieredWrites ==
  /\ \E op \in UnbarrieredOps : Unguarded(op)
  /\ \/ \E o \in Held : \E old, new \in ValuesOf(refs[o] \union Held) :
          \/ SetFenv(o, old, new)
          \/ DebugSetMetatable(o, old, new)
          \/ new \subseteq Held /\ TableSetOverLimit(o, old, new)
     \/ \E u \in Upvalues : \E V \in ValuesOf(Held) : DebugSetUpvalue(u, V)
     \/ \E mt \in ValuesOf(Held) : SetTypeMetatable(mt)

CoroutineOps ==
  \/ \E co \in stack \intersect Threads, args \in SUBSET stack :
       \E captured \in Captures(open, stack) : Resume(co, args, captured)
  \/ \E kept, passed \in SUBSET stack :
       \E captured \in Captures(open, kept) : Suspend(kept, passed, captured)

Program == HeapOps \/ UnbarrieredWrites \/ CoroutineOps

Next == SingleStep \/ Program

Spec == Init /\ [][Next]_vars

(***************************************************************************)
(* A program that keeps reaching the allocation opcodes keeps the          *)
(* collector going; nothing else is assumed of it.                         *)
(***************************************************************************)
FairSpec == Spec /\ WF_vars(SingleStep)

-----------------------------------------------------------------------------
(***************************************************************************)
(* The shape of the state.                                                 *)
(***************************************************************************)
TypeOK ==
  /\ color \in [Obj -> Colors]
  /\ refs \in [Obj -> SUBSET Obj]
  /\ stack \subseteq Obj /\ open \subseteq Upvalues
  /\ saved \subseteq Obj /\ parked \subseteq Upvalues
  /\ current \in Threads \union {"main"}
  /\ typeMetatables \subseteq Tables
  /\ phase \in Phases
  /\ currentWhite \in Whites
  /\ gray \subseteq Obj /\ grayagain \subseteq Obj
  /\ mainGray \in BOOLEAN
  /\ arena \in 1..6
  /\ unswept \subseteq Obj
  /\ tmudata \subseteq Userdata /\ finalized \subseteq Userdata
  /\ doomed \subseteq Obj

(***************************************************************************)
(* No reference the program can follow leads to a freed slot: the purpose  *)
(* of the barriers, the second traversal of the threads in the atomic step *)
(* and the white of new objects taken together.                            *)
(***************************************************************************)
NoDangling == Reachable \subseteq Allocated

(***************************************************************************)
(* While a sweep is under way nothing reachable is condemned, whichever of *)
(* the arenas the cursor has passed and whatever the program has stored    *)
(* since the whites flipped.                                               *)
(***************************************************************************)
NoCondemned ==
  phase \in {"SweepString", "Sweep"} =>
    \A o \in Reachable : color[o] # OtherWhite

(***************************************************************************)
(* Garbage does not survive a whole cycle: what nothing referred to when   *)
(* mark_roots ran is freed by the sweep of the same cycle, although the    *)
(* program allocates and writes meanwhile.                                 *)
(***************************************************************************)
Reclaimed == phase \in {"Finalize", "Pause"} => doomed \intersect Allocated = {}

(***************************************************************************)
(* separate_userdata queues a userdata for its __gc only when the program  *)
(* can no longer reach it, and never twice.                                *)
(***************************************************************************)
OnlyGarbageFinalized ==
  [][\A d \in tmudata' \ tmudata :
        d \notin Reach(Roots, Obj) /\ d \notin finalized]_vars

(***************************************************************************)
(* What neither the program nor a finalizer still to be called can reach   *)
(* is freed in the end, whatever the phase in which it was dropped.        *)
(***************************************************************************)
Collected ==
  \A o \in Obj :
    (o \in Garbage) ~> (color[o] = "free")

(***************************************************************************)
(* A userdata with a __gc field that the program loses is handed to that   *)
(* finalizer, unless another finalizer gives it back to the program first. *)
(***************************************************************************)
FinalizerRuns ==
  \A d \in Finalizable :
    (d \in Allocated \ (Reachable \union finalized))
      ~> (d \in Reach(Roots \ tmudata, Obj))
=============================================================================
