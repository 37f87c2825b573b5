------------------------------ MODULE KeepAlive ------------------------------
(***************************************************************************)
(* What keeps an object, or lets it go, beside plain marking: weak tables  *)
(* (collector.rs 439-516 and 957-1080), userdata with finalizers           *)
(* (854-943, 1461-1519), frozen graphs (gc/freeze.rs) and pinned objects   *)
(* (gc/pin.rs).  A cycle of the collector, one singlestep at a time, runs  *)
(* between the operations of a program and of the host that embeds it.     *)
(*                                                                         *)
(* Objects are those of module Collector, with the fields of tables told   *)
(* apart into keys and values; a function stands for a closure with one    *)
(* closed upvalue.                                                         *)
(***************************************************************************)
EXTENDS Integers, Sequences, FiniteSets, SequencesExt

CONSTANTS Tables, Functions_, Userdata, Strings,
          Age,       \* the order in which userdata were created
          Plain,     \* a key or value that is no object
          Nil,
          MaxFields, \* bound: fields of one table
          MaxHeld,   \* bound: objects on the program's stack
          MaxWrites, \* bound: writes of the program and the host
          Starts,    \* heaps to start from
          Careless   \* whether the host and the program do what loses objects

Obj == Tables \union Functions_ \union Userdata \union Strings

ASSUME KeepAliveAssumption ==
  /\ Tables \intersect (Functions_ \union Userdata \union Strings) = {}
  /\ Functions_ \intersect (Userdata \union Strings) = {}
  /\ Userdata \intersect Strings = {}
  /\ IsFiniteSet(Userdata)
  /\ Age \in [Userdata -> Nat]
  /\ \A u, x \in Userdata : Age[u] = Age[x] => u = x
  /\ Plain \notin Obj /\ Nil \notin Obj \union {Plain}
  /\ Careless \in BOOLEAN
  /\ \A start \in Starts :
       /\ start.fields \in [Tables -> SUBSET ((Obj \union {Plain}) \X (Obj \union {Plain}))]
       /\ start.mode \in [Tables -> SUBSET {"key", "value"}]
       /\ start.holds \in [Functions_ -> Obj \union {Plain, Nil}]
       /\ start.held \subseteq Obj

VARIABLES
  color,     \* "free", a white, "gray" or "black"
  white,     \* current_white
  fields,    \* the fields of each table, pairs of a key and a value
  mode,      \* what the __mode of a table's metatable says is weak
  holds,     \* what the upvalue of a function holds
  held,      \* objects on the stack
  frozen,    \* objects with the flag Frozen
  pinned,    \* objects with the flag Pinned
  phase, gray, again,
  weak,      \* weak_tables: the weak tables traversed in this cycle
  unswept,   \* what the sweep has yet to reach
  tmudata,   \* userdata waiting for their finalizers
  finalized, \* userdata that have been separated
  batch,     \* history: those of tmudata that were separated together last
  writes     \* how many writes the bound still allows

heapVars == <<fields, mode, holds, held>>
flagVars == <<frozen, pinned>>
gcVars   == <<color, white, phase, gray, again, weak, unswept>>
udVars   == <<tmudata, finalized, batch>>
vars     == <<heapVars, flagVars, gcVars, udVars, writes>>

Whites == {"white0", "white1"}
Other == IF white = "white0" THEN "white1" ELSE "white0"

Modes == SUBSET {"key", "value"}

-----------------------------------------------------------------------------
(***************************************************************************)
(* Keys and values of a table that its mode does not make weak, and all of *)
(* them.                                                                   *)
(***************************************************************************)
Strong(t) ==
  ({f[1] : f \in IF "key" \in mode[t] THEN {} ELSE fields[t]}
     \union {f[2] : f \in IF "value" \in mode[t] THEN {} ELSE fields[t]}) \intersect Obj

Mentioned(t) == (UNION {{f[1], f[2]} : f \in fields[t]}) \intersect Obj

\* What a program can get at from an object.
Within(o) == IF o \in Tables THEN Mentioned(o)
             ELSE IF o \in Functions_ THEN {holds[o]} \intersect Obj ELSE {}

\* What marking an object goes on to.
Children(o) == IF o \in Tables THEN Strong(o) ELSE Within(o)

(***************************************************************************)
(* The objects of S and those that its links lead to: the least set that   *)
(* has both.                                                               *)
(***************************************************************************)
ClosedSets(S, links) ==
  {R \in SUBSET Obj : S \subseteq R /\ \A l \in links : l[1] \in R => l[2] \in R}

Closure(S, links) ==
  LET closed == ClosedSets(S, links) IN {o \in Obj : \A R \in closed : o \in R}

(***************************************************************************)
(* What the program and the host can reach, weak fields included; and what *)
(* counts as reachable when weak fields do not.                            *)
(***************************************************************************)
Contents == UNION {{o} \X Within(o) : o \in Obj}

Accessible == Closure(held \union ToSet(tmudata) \union pinned \union frozen, Contents)

Reachable ==
  Closure(held \union pinned \union frozen, UNION {{o} \X Children(o) : o \in Obj})

-----------------------------------------------------------------------------
(***************************************************************************)
(* mark_white_unfrozen: strings and userdata turn black at once, tables    *)
(* and functions gray; a frozen object is left as it is.                   *)
(***************************************************************************)
Markable(c, o) == c[o] \in Whites /\ o \notin frozen

Tint(c, M) ==
  [o \in Obj |-> IF o \notin M \/ ~Markable(c, o) THEN c[o]
                 ELSE IF o \in Strings \union Userdata THEN "black" ELSE "gray"]

Greyed(c, M) == {o \in M \ (Strings \union Userdata) : Markable(c, o)}

(***************************************************************************)
(* Traversing a gray object: a frozen table is not walked.                 *)
(***************************************************************************)
Walked(o) == IF o \in Tables /\ o \in frozen THEN {} ELSE Children(o)

IsWeak(o) == o \in Tables /\ o \notin frozen /\ mode[o] # {}

PropagateOne ==
  /\ phase = "Propagate"
  /\ \E o \in gray :
       LET c == [color EXCEPT ![o] = "black"]
       IN /\ color' = Tint(c, Walked(o))
          /\ gray' = (gray \ {o}) \union Greyed(c, Walked(o))
          /\ weak' = IF IsWeak(o) THEN weak \union {o} ELSE weak
  /\ UNCHANGED <<heapVars, flagVars, udVars, white, phase, again, unswept>>

StartCycle ==
  /\ phase \in {"Pause", "Finalize"}
  /\ color' = Tint(color, held)
  /\ gray' = Greyed(color, held)
  /\ again' = {} /\ weak' = {}
  /\ phase' = "Propagate"
  /\ UNCHANGED <<heapVars, flagVars, udVars, white, unswept>>

-----------------------------------------------------------------------------
(***************************************************************************)
(* The atomic phase.  Everything still to be marked is: the stack again,   *)
(* the tables a barrier has put back, and what follows.                    *)
(***************************************************************************)
PropagateAll(c, S) ==
  \* S: gray objects to traverse, on top of those that marking finds
  LET goes(o) == o \in S \/ (Markable(c, o) /\ o \notin Strings \union Userdata)
      all == Closure(S, UNION {{o} \X Walked(o) : o \in {o \in Obj : goes(o)}})
  IN [o \in Obj |-> IF o \in all /\ (goes(o) \/ Markable(c, o)) THEN "black" ELSE c[o]]

\* Slip: the stack is not marked again.
ThroughMarksOnce(c) ==
  [color |-> PropagateAll(c, gray \union again), weak |-> weak]

ThroughMarks(c) ==
  \* weak tables that were traversed since: they are black now
  LET d == PropagateAll(Tint(c, held), gray \union again \union Greyed(c, held))
  IN [color |-> d,
      weak |-> weak \union {t \in Tables : IsWeak(t) /\ d[t] = "black"
                                             /\ (c[t] # "black" \/ t \in again)}]

(***************************************************************************)
(* separate_userdata: userdata that are white and have not been finalized  *)
(* go to tmudata, the oldest first; the last one is called first.          *)
(***************************************************************************)
\* Slip: they are separated in the order of the arena.
ByAgeAscending(S) ==
  CHOOSE s \in [1 .. Cardinality(S) -> S] :
    \A i, j \in DOMAIN s : i < j => Age[s[j]] < Age[s[i]]

ByAge(S) ==
  CHOOSE s \in [1 .. Cardinality(S) -> S] :
    \A i, j \in DOMAIN s : i < j => Age[s[i]] < Age[s[j]]

Lost(c) == {u \in Userdata \ finalized : c[u] = white}

(***************************************************************************)
(* clear_weak_tables, after the whites have flipped: strings of weak       *)
(* tables live on; a field goes if a weak part of it is dead.  A userdata  *)
(* waiting for its finalizer is dead as a value, not as a key.             *)
(***************************************************************************)
DeadKey(c, o, dead) == o \in Obj \ Strings /\ c[o] = dead

DeadValue(c, done, o, dead) == DeadKey(c, o, dead) \/ o \in done

Cleared(c, done, t, dead) ==
  {f \in fields[t] : \/ "key" \in mode[t] /\ DeadKey(c, f[1], dead)
                     \/ "value" \in mode[t] /\ DeadValue(c, done, f[2], dead)}

\* Slip: strings of weak tables are not kept.
KeptStringsNone(W) == {}

KeptStrings(W) == (UNION {Mentioned(t) : t \in W}) \intersect Strings

Atomic ==
  /\ phase = "Propagate" /\ gray = {}
  /\ LET marked == ThroughMarks(color)
         lost == Lost(marked.color)
         c == [o \in Obj |-> IF o \in lost \union ToSet(tmudata) THEN "black"
                             ELSE marked.color[o]]
         done == finalized \union lost
     IN /\ finalized' = done
        /\ tmudata' = tmudata \o ByAge(lost)
        /\ batch' = lost
        /\ white' = Other
        /\ fields' = [t \in Tables |->
                        IF t \in marked.weak THEN fields[t] \ Cleared(c, done, t, white)
                        ELSE fields[t]]
        /\ color' = [o \in Obj |-> IF o \in KeptStrings(marked.weak) /\ c[o] # "free"
                                   THEN Other ELSE c[o]]
  /\ weak' = {} /\ again' = {}
  /\ unswept' = {o \in Obj : color[o] # "free"}
  /\ phase' = "Sweep"
  /\ UNCHANGED <<mode, holds, held, flagVars, gray>>

-----------------------------------------------------------------------------
(***************************************************************************)
(* The sweep, strings first; a heap this small takes one step for each.    *)
(* Flags keep what is dead.                                                *)
(***************************************************************************)
KeptAlive(o) == o \in frozen \union pinned

Sweep(S) ==
  /\ phase = "Sweep"
  /\ S # {} /\ S \subseteq unswept
  /\ LET gone == {o \in S : color[o] = Other /\ ~KeptAlive(o)}
     IN /\ color' = [o \in Obj |-> IF o \in gone THEN "free"
                                   ELSE IF o \in S THEN white ELSE color[o]]
        /\ fields' = [t \in Tables |-> IF t \in gone THEN {} ELSE fields[t]]
        /\ holds' = [f \in Functions_ |-> IF f \in gone THEN Nil ELSE holds[f]]
  /\ unswept' = unswept \ S
  /\ phase' = IF unswept' = {} THEN "Finalize" ELSE phase
  /\ UNCHANGED <<mode, held, flagVars, white, gray, again, weak, udVars>>

SweepStrings == Sweep(unswept \intersect Strings)

SweepOther == unswept \intersect Strings = {} /\ Sweep(unswept)

(***************************************************************************)
(* call_gc_finalizer; the finalizer may store its userdata.                *)
(***************************************************************************)
CallFinalizer ==
  /\ phase = "Finalize"
  /\ tmudata # <<>>
  /\ tmudata' = Front(tmudata)
  /\ batch' = batch \ {Last(tmudata)}
  /\ held' \in {held, held \union {Last(tmudata)}}
  /\ Cardinality(held') <= MaxHeld
  /\ UNCHANGED <<fields, mode, holds, flagVars, gcVars, finalized>>

EndCycle ==
  /\ phase = "Finalize" /\ tmudata = <<>>
  /\ phase' = "Pause"
  /\ UNCHANGED <<heapVars, flagVars, udVars, color, white, gray, again, weak, unswept>>

-----------------------------------------------------------------------------
(***************************************************************************)
(* The program.                                                            *)
(***************************************************************************)
BarrierBack(t) ==
  IF phase = "Propagate" /\ color[t] = "black"
  THEN color' = [color EXCEPT ![t] = "gray"] /\ again' = again \union {t}
  ELSE UNCHANGED <<color, again>>

(***************************************************************************)
(* A field of a table that is not frozen.                                  *)
(***************************************************************************)
Store(t, k, v) ==
  /\ t \in held /\ t \notin frozen
  /\ {k, v} \subseteq held \union {Plain}
  /\ fields' = [fields EXCEPT ![t] = {f \in @ : f[1] # k} \union {<<k, v>>}]
  /\ Cardinality(fields'[t]) <= MaxFields
  /\ BarrierBack(t)
  /\ UNCHANGED <<mode, holds, held, flagVars, udVars, white, phase, gray, weak, unswept>>

Load(t, o) ==
  /\ t \in held /\ o \in Within(t)
  /\ held' = held \union {o} /\ Cardinality(held') <= MaxHeld
  /\ UNCHANGED <<fields, mode, holds, flagVars, udVars, gcVars>>

Drop(o) ==
  /\ o \in held
  /\ held' = held \ {o}
  /\ UNCHANGED <<fields, mode, holds, flagVars, udVars, gcVars>>

(***************************************************************************)
(* setmetatable gives a table another mode, with a barrier on it.  Writing *)
(* __mode into a metatable that it has puts a barrier on the metatable     *)
(* only, and a table that was traversed as weak stays as it is.            *)
(***************************************************************************)
SetMetatable(t, m) ==
  /\ t \in held /\ t \notin frozen
  /\ mode' = [mode EXCEPT ![t] = m]
  /\ BarrierBack(t)
  /\ UNCHANGED <<fields, holds, held, flagVars, udVars, white, phase, gray, weak, unswept>>

WriteMode(t, m) ==
  /\ t \in held
  /\ Careless \/ phase # "Propagate" \/ mode[t] \subseteq m
  /\ mode' = [mode EXCEPT ![t] = m]
  /\ UNCHANGED <<fields, holds, held, flagVars, udVars, gcVars>>

(***************************************************************************)
(* SETUPVAL, with its forward barrier; frozen functions do not refuse it.  *)
(***************************************************************************)
SetUpvalue(f, v) ==
  /\ f \in held /\ v \in held
  /\ Careless \/ f \notin frozen
  /\ holds' = [holds EXCEPT ![f] = v]
  /\ IF phase = "Propagate" /\ color[f] = "black" /\ color[v] = white
     THEN color' = Tint(color, {v}) /\ gray' = gray \union Greyed(color, {v})
     ELSE UNCHANGED <<color, gray>>
  /\ UNCHANGED <<fields, mode, held, flagVars, udVars, white, phase, again, weak, unswept>>

-----------------------------------------------------------------------------
(***************************************************************************)
(* The host.  freeze_table flags every table, function and userdata of a   *)
(* graph, weak fields or not, and no string.                               *)
(***************************************************************************)
Graph(t) == Closure({t}, Contents)

Freeze(t) ==
  /\ t \in held
  /\ Careless \/ Graph(t) \intersect (Strings \union Userdata) = {}
  /\ frozen' = frozen \union (Graph(t) \ Strings)
  /\ UNCHANGED <<heapVars, pinned, udVars, gcVars>>

Pin(o) ==
  /\ o \in held
  /\ Careless \/ o \in Strings
  /\ pinned' = pinned \union {o}
  /\ UNCHANGED <<heapVars, frozen, udVars, gcVars>>

-----------------------------------------------------------------------------
Init ==
  /\ \E start \in Starts :
       /\ fields = start.fields /\ mode = start.mode /\ holds = start.holds
       /\ held = start.held
  /\ color = [o \in Obj |-> "white0"] /\ white = "white0"
  /\ frozen = {} /\ pinned = {}
  /\ phase = "Pause" /\ gray = {} /\ again = {} /\ weak = {} /\ unswept = {}
  /\ tmudata = <<>> /\ finalized = {} /\ batch = {}
  /\ writes = MaxWrites

Moves == \E o \in Obj : Drop(o) \/ \E t \in Tables \union Functions_ : Load(t, o)

Writes ==
  \/ \E t \in Tables : \/ \E k, v \in Obj \union {Plain} : Store(t, k, v)
                       \/ \E m \in Modes : SetMetatable(t, m) \/ WriteMode(t, m)
                       \/ Freeze(t)
  \/ \E o \in Obj : Pin(o)
  \/ \E f \in Functions_, v \in Obj : SetUpvalue(f, v)

Collect ==
  \/ StartCycle \/ PropagateOne \/ Atomic \/ CallFinalizer \/ EndCycle
  \/ SweepStrings \/ SweepOther

Next ==
  \/ (Moves \/ Collect) /\ UNCHANGED writes
  \/ Writes /\ <<heapVars, flagVars, color>>' # <<heapVars, flagVars, color>>
     /\ writes > 0 /\ writes' = writes - 1

Spec == Init /\ [][Next]_vars

-----------------------------------------------------------------------------
(***************************************************************************)
(* Properties.                                                             *)
(***************************************************************************)

(***************************************************************************)
(* Whatever the program or the host can get at, through weak fields too,   *)
(* is allocated: no table shows a freed object, frozen or pinned ones      *)
(* included (clear_weak_tables, sweep_partial, freeze_table, pin_object).  *)
(***************************************************************************)
NoneFreed == \A o \in Accessible : color[o] # "free"

(***************************************************************************)
(* A cycle takes a field from a weak table only if a weak part of it is    *)
(* not reachable, or is kept by a flag alone, which the marker does not    *)
(* honour; and it hands a userdata to its finalizer once, and only if it   *)
(* is not reachable (clear_weak_tables, separate_userdata).                *)
(***************************************************************************)
Takable(o) == o \notin Reachable \/ o \in frozen \union pinned

OnlyLostTaken ==
  [][/\ phase = "Propagate" /\ phase' = "Sweep" =>
          \A t \in Tables : \A f \in fields[t] \ fields'[t] :
            \/ "key" \in mode[t] /\ Takable(f[1])
            \/ "value" \in mode[t] /\ (Takable(f[2]) \/ f[2] \in finalized')
     /\ \A u \in finalized' \ finalized : u \notin Reachable
     /\ finalized \subseteq finalized']_vars

(***************************************************************************)
(* Of the userdata found lost in one cycle, the newest is finalized first, *)
(* whatever else is waiting (separate_userdata, call_gc_finalizer).        *)
(***************************************************************************)
NewestFirst ==
  [][batch' # batch /\ Len(tmudata') < Len(tmudata)
       => LET u == Last(tmudata)
          IN u \in batch /\ \A x \in batch \intersect ToSet(tmudata') : Age[x] < Age[u]]_vars
=============================================================================
