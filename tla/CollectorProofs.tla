--------------------------- MODULE CollectorProofs ---------------------------
(***************************************************************************)
(* Proofs about Collector.  The safety theorems are about programs whose   *)
(* writes all call their barrier, or whose cycles run whole.               *)
(***************************************************************************)
EXTENDS CollectorInv, TLAPS

Barriered == StopTheWorld \/ Unbarriered = {}

(***************************************************************************)
(* Reach(S, E) is the least superset of S closed under the references of   *)
(* the objects of E.                                                       *)
(***************************************************************************)
LEMMA ReachLeast ==
  ASSUME NEW S \in SUBSET Obj, NEW E \in SUBSET Obj,
         refs \in [Obj -> SUBSET Obj]
  PROVE  /\ S \subseteq Reach(S, E)
         /\ Reach(S, E) \subseteq Obj
         /\ \A p \in Reach(S, E) \intersect E : refs[p] \subseteq Reach(S, E)
         /\ \A R \in SUBSET Obj :
              S \subseteq R /\ (\A p \in R \intersect E : refs[p] \subseteq R)
                => Reach(S, E) \subseteq R
  BY DEF Reach, ClosedUnder

(***************************************************************************)
(* What mark_value colours: white objects, among them the white ones it is *)
(* given, and with a string, upvalue or userdata its white children.       *)
(***************************************************************************)
LEMMA MarkedClosed ==
  ASSUME NEW S \in SUBSET Obj, TypeOK
  PROVE  /\ Marked(S) \subseteq White
         /\ S \intersect White \subseteq Marked(S)
         /\ \A p \in Marked(S) \intersect Instant :
              refs[p] \intersect White \subseteq Marked(S)
         /\ \A R \in SUBSET Obj :
              S \subseteq R /\ (\A p \in R \intersect White : refs[p] \subseteq R)
                => Marked(S) \subseteq R
<1> DEFINE E == White \intersect Instant
<1>1. E \in SUBSET Obj /\ refs \in [Obj -> SUBSET Obj]
  BY DEF TypeOK, White
<1> QED
  BY <1>1, ReachLeast DEF Marked

\* A value is no object or one.
LEMMA ValuesType ==
  ASSUME NEW S \in SUBSET Obj
  PROVE  ValuesOf(S) \subseteq SUBSET S /\ ValuesOf(S) \subseteq SUBSET Obj
  BY DEF ValuesOf

\* What a set of objects refers to.
LEMMA ContentHas ==
  ASSUME NEW S
  PROVE  \A x : x \in Content(S) <=> \E o \in S : x \in refs[o]
  BY DEF Content

-----------------------------------------------------------------------------
(***************************************************************************)
(* Type correctness.                                                       *)
(***************************************************************************)
LEMMA ShadeType ==
  ASSUME TypeOK, NEW M
  PROVE  Shade(M) \in [Obj -> Colors]
  BY DEF Shade, TypeOK, Colors

\* The table of globals is an object.
LEMMA GlobalType == Global \in Obj /\ Global \in Tables
  BY ConstAssumption DEF Obj

\* The shape of an empty heap.
LEMMA TypeInit == Init => TypeOK
<1> SUFFICES ASSUME Init PROVE TypeOK
  OBVIOUS
<1>1. color \in [Obj -> Colors]
  <2>1. \A o \in Obj : (IF o = Global THEN "white0" ELSE "free") \in Colors
    BY DEF Colors, Whites
  <2> QED
    BY <2>1 DEF Init
<1>2. refs \in [Obj -> SUBSET Obj]
  BY DEF Init
<1>3. phase \in Phases /\ currentWhite \in Whites /\ arena \in 1..6
  BY DEF Init, Phases, Whites
<1> QED
  BY <1>1, <1>2, <1>3 DEF Init, TypeOK

\* The collector keeps the shape.
LEMMA TypeSingleStep == TypeOK /\ SingleStep => TypeOK'
<1> SUFFICES ASSUME TypeOK, SingleStep PROVE TypeOK'
  OBVIOUS
<1> USE GlobalType
<1>m. \A S \in SUBSET Obj : Marked(S) \subseteq Obj
  BY MarkedClosed DEF White
<1>s. \A M : Shade(M) \in [Obj -> Colors]
  BY ShadeType
<1>1. CASE StartCycle
  <2>1. Marked({Global} \union typeMetatables) \subseteq Obj
    BY <1>m DEF TypeOK, Obj
  <2> QED
    BY <1>1, <1>s, <2>1
    DEF StartCycle, MarkRoots, FirstRoots, TypeOK, rootVars, Phases, Allocated, Garbage
<1>2. ASSUME NEW o \in Obj, PropagateOne(o) PROVE TypeOK'
  <2>1. Marked(refs[o]) \subseteq Obj
    BY <1>m DEF TypeOK
  <2>2. [Shade(Marked(refs[o])) EXCEPT ![o] = "black"] \in [Obj -> Colors]
    BY <1>s DEF Colors
  <2>3. color' \in [Obj -> Colors] /\ gray' \subseteq Obj /\ grayagain' \subseteq Obj
    BY <1>2, <2>1, <2>2 DEF PropagateOne, Relist, TypeOK
  <2> QED
    BY <1>2, <2>3 DEF PropagateOne, TypeOK, rootVars
<1>3. CASE PropagateMain
  <2>1. Marked(MainRoots) \subseteq Obj
    BY <1>m DEF TypeOK, Obj, MainRoots
  <2> QED
    BY <1>3, <1>s, <2>1 DEF PropagateMain, TypeOK, rootVars
<1>4. CASE Atomic
  <2>1. color' \in [Obj -> Colors]
    BY <1>4 DEF Atomic, TypeOK, Colors
  <2>2. finalized' \subseteq Userdata /\ tmudata' \subseteq Userdata
    BY <1>4, ConstAssumption DEF Atomic, DeadUserdata, TypeOK
  <2>3. currentWhite' \in Whites /\ phase' \in Phases /\ arena' \in 1..6
        /\ unswept' \subseteq Obj /\ grayagain' = {}
    BY <1>4 DEF Atomic, Whites, NextWhite, OtherWhite, Phases, Allocated
  <2>4. UNCHANGED <<refs, rootVars, gray, mainGray, doomed>>
    BY <1>4 DEF Atomic
  <2> QED
    BY <2>1, <2>2, <2>3, <2>4 DEF TypeOK, rootVars
<1>5. CASE SweepStrings
  <2>1. color' \in [Obj -> Colors] /\ refs' \in [Obj -> SUBSET Obj]
        /\ finalized' \subseteq Userdata /\ unswept' \subseteq Obj
    BY <1>5 DEF SweepStrings, SweepBatch, TypeOK, Colors, Whites
  <2> QED
    BY <1>5, <2>1 DEF SweepStrings, TypeOK, rootVars, Phases
<1>6. CASE SweepOther
  <2>1. color' \in [Obj -> Colors] /\ refs' \in [Obj -> SUBSET Obj]
        /\ finalized' \subseteq Userdata /\ unswept' \subseteq Obj
    BY <1>6 DEF SweepOther, SweepBatch, TypeOK, Colors, Whites
  <2>2. phase' \in Phases /\ arena' \in 1..6
    BY <1>6 DEF SweepOther, TypeOK, Phases
  <2> QED
    BY <1>6, <2>1, <2>2 DEF SweepOther, TypeOK, rootVars
<1>7. ASSUME NEW d \in Userdata, CallFinalizer(d) PROVE TypeOK'
  BY <1>7 DEF CallFinalizer, TypeOK, heapVars, Obj
<1>8. CASE EndCycle
  BY <1>8 DEF EndCycle, TypeOK, heapVars, rootVars, Phases
<1> QED
  BY <1>1, <1>2, <1>3, <1>4, <1>5, <1>6, <1>7, <1>8 DEF SingleStep

\* The program keeps it.
LEMMA TypeHeapOps == TypeOK /\ HeapOps => TypeOK'
<1> SUFFICES ASSUME TypeOK, HeapOps PROVE TypeOK'
  OBVIOUS
<1> USE GlobalType
<1>h. Held \subseteq Obj
  BY DEF Held, TypeOK
<1>m. \A S \in SUBSET Obj : Marked(S) \subseteq Obj
  BY MarkedClosed DEF White
<1>s. \A M : Shade(M) \in [Obj -> Colors]
  BY ShadeType
<1>c. currentWhite \in Colors
  BY DEF TypeOK, Colors
<1>1. ASSUME NEW o \in Obj, NEW R \in SUBSET stack, Alloc(o, R) PROVE TypeOK'
  <2>1. color' \in [Obj -> Colors] /\ refs' \in [Obj -> SUBSET Obj]
        /\ doomed' \subseteq Obj /\ stack' \subseteq Obj
    BY <1>1, <1>c DEF Alloc, Occupy, NewWhite, Push, TypeOK
  <2> QED
    BY <1>1, <2>1 DEF Alloc, TypeOK, gcRest
<1>2. ASSUME NEW c \in Closures, NEW U \in SUBSET Upvalues, MakeClosure(c, U)
      PROVE  TypeOK'
  <2>1. U \subseteq Obj /\ c \in Obj
    BY DEF Obj
  <2>2. color' \in [Obj -> Colors] /\ refs' \in [Obj -> SUBSET Obj]
        /\ doomed' \subseteq Obj /\ stack' \subseteq Obj
    BY <1>2, <1>c, <2>1 DEF MakeClosure, Occupy, NewWhite, Push, TypeOK
  <2>3. open' \subseteq Upvalues
    BY <1>2 DEF MakeClosure, TypeOK
  <2> QED
    BY <1>2, <2>2, <2>3 DEF MakeClosure, TypeOK, gcRest
<1>3. ASSUME NEW v \in Obj, Load(v) PROVE TypeOK'
  BY <1>3 DEF Load, Push, TypeOK, heapVars, gcRest
<1>4. ASSUME NEW v \in stack, Drop(v) PROVE TypeOK'
  BY <1>4 DEF Drop, TypeOK, heapVars, gcRest
<1>5. ASSUME NEW t \in Held \intersect Tables, NEW old \in ValuesOf(refs[t]),
             NEW new \in ValuesOf(Held), TableSet(t, old, new)
      PROVE  TypeOK'
  <2>1. t \in Obj /\ new \subseteq Obj
    BY <1>h, ValuesType
  <2>2. refs' \in [Obj -> SUBSET Obj]
    BY <1>5, <2>1 DEF TableSet, Write, TypeOK
  <2>3. color' \in [Obj -> Colors] /\ grayagain' \subseteq Obj
    BY <1>5, <2>1 DEF TableSet, BarrierBack, TypeOK, Colors
  <2> QED
    BY <1>5, <2>2, <2>3 DEF TableSet, TypeOK, rootVars, gcRest
<1>6. \A u, V : BarrierForward(u, V) /\ V \subseteq Obj =>
        color' \in [Obj -> Colors] /\ gray' \subseteq Obj
  BY <1>m, <1>s DEF BarrierForward, TypeOK
<1>7. ASSUME NEW u \in Upvalues, NEW V \in ValuesOf(Held), SetUpvalue(u, V)
      PROVE  TypeOK'
  <2>1. u \in Obj /\ V \subseteq Obj
    BY <1>h, ValuesType DEF Obj
  <2>2. refs' \in [Obj -> SUBSET Obj]
    BY <1>7, <2>1 DEF SetUpvalue, Write, TypeOK
  <2>3. color' \in [Obj -> Colors] /\ gray' \subseteq Obj
    BY <1>7, <1>6, <2>1 DEF SetUpvalue
  <2> QED
    BY <1>7, <2>2, <2>3 DEF SetUpvalue, TypeOK, rootVars, gcRest
<1>8. ASSUME NEW u \in open, NEW V \in ValuesOf(stack), CloseUpvalue(u, V)
      PROVE  TypeOK'
  <2>1. u \in Obj /\ V \subseteq Obj
    BY ValuesType DEF TypeOK, Obj
  <2>2. refs' \in [Obj -> SUBSET Obj] /\ open' \subseteq Upvalues
    BY <1>8, <2>1 DEF CloseUpvalue, Write, TypeOK
  <2>3. color' \in [Obj -> Colors] /\ gray' \subseteq Obj
    BY <1>8, <1>6, <2>1 DEF CloseUpvalue
  <2> QED
    BY <1>8, <2>2, <2>3 DEF CloseUpvalue, TypeOK, gcRest
<1> QED
  BY <1>1, <1>2, <1>3, <1>4, <1>5, <1>7, <1>8 DEF HeapOps

\* So do the writes without a barrier.
LEMMA TypeUnbarriered == TypeOK /\ UnbarrieredWrites => TypeOK'
<1> SUFFICES ASSUME TypeOK, UnbarrieredWrites PROVE TypeOK'
  OBVIOUS
<1>h. Held \subseteq Obj
  BY GlobalType DEF Held, TypeOK
<1>1. \A op, o, old, new :
        o \in Obj /\ new \subseteq Obj /\ Unbarred(op, o, old, new) => TypeOK'
  <2> SUFFICES ASSUME NEW op, NEW o \in Obj, NEW old, NEW new \in SUBSET Obj,
                      Unbarred(op, o, old, new)
               PROVE  TypeOK'
    OBVIOUS
  <2>1. refs' \in [Obj -> SUBSET Obj]
    BY DEF Unbarred, Write, TypeOK
  <2> QED
    BY <2>1 DEF Unbarred, TypeOK, rootVars, gcRest
<1>2. ASSUME NEW o \in Held, NEW old \in ValuesOf(refs[o] \union Held),
             NEW new \in ValuesOf(refs[o] \union Held),
             SetFenv(o, old, new) \/ DebugSetMetatable(o, old, new)
               \/ TableSetOverLimit(o, old, new)
      PROVE  TypeOK'
  <2>1. o \in Obj /\ new \subseteq Obj
    BY <1>h, ValuesType DEF TypeOK
  <2> QED
    BY <1>1, <1>2, <2>1 DEF SetFenv, DebugSetMetatable, TableSetOverLimit
<1>3. ASSUME NEW u \in Upvalues, NEW V \in ValuesOf(Held), DebugSetUpvalue(u, V)
      PROVE  TypeOK'
  <2>1. u \in Obj /\ V \subseteq Obj
    BY <1>h, ValuesType DEF Obj
  <2> QED
    BY <1>1, <1>3, <2>1 DEF DebugSetUpvalue
<1>4. ASSUME NEW mt \in ValuesOf(Held), SetTypeMetatable(mt) PROVE TypeOK'
  <2>1. mt \subseteq Tables
    BY <1>4 DEF SetTypeMetatable
  <2> QED
    BY <1>4, <2>1 DEF SetTypeMetatable, TypeOK, heapVars, gcRest
<1> QED
  BY <1>2, <1>3, <1>4 DEF UnbarrieredWrites

\* So does the swap of threads.
LEMMA TypeCoroutineOps == TypeOK /\ CoroutineOps => TypeOK'
<1> SUFFICES ASSUME TypeOK, CoroutineOps PROVE TypeOK'
  OBVIOUS
<1>1. ASSUME NEW co \in stack \intersect Threads, NEW args \in SUBSET stack,
             NEW captured \in Captures(open, stack), Resume(co, args, captured)
      PROVE  TypeOK'
  <2>1. \A u \in open : captured[u] \subseteq Obj
    BY ValuesType DEF Captures, TypeOK
  <2>2. refs[co] \subseteq Obj /\ \A o \in Obj : refs[o] \subseteq Obj
    BY DEF TypeOK
  <2>3. refs' \in [Obj -> SUBSET Obj]
    BY <1>1, <2>1, <2>2 DEF Resume
  <2>4. Content(refs[co] \intersect Upvalues) \subseteq Obj
    BY <2>2, ContentHas
  <2>5. stack' \subseteq Obj
    BY <1>1, <2>2, <2>4 DEF Resume, TypeOK
  <2> QED
    BY <1>1, <2>3, <2>5 DEF Resume, TypeOK, gcRest
<1>2. ASSUME NEW kept \in SUBSET stack, NEW passed \in SUBSET stack,
             NEW captured \in Captures(open, kept), Suspend(kept, passed, captured)
      PROVE  TypeOK'
  <2>1. kept \subseteq Obj /\ open \subseteq Obj /\ parked \subseteq Obj
    BY DEF TypeOK, Obj
  <2>2. \A u \in open : captured[u] \subseteq Obj
    BY <2>1, ValuesType DEF Captures
  <2>3. \A o \in Obj : refs[o] \subseteq Obj
    BY DEF TypeOK
  <2>4. refs' \in [Obj -> SUBSET Obj]
    BY <1>2, <2>1, <2>2, <2>3 DEF Suspend
  <2>5. Content(parked) \subseteq Obj
    BY <2>1, <2>3, ContentHas
  <2>6. stack' \subseteq Obj
    BY <1>2, <2>1, <2>5 DEF Suspend, TypeOK
  <2> QED
    BY <1>2, <2>4, <2>6 DEF Suspend, TypeOK, gcRest
<1> QED
  BY <1>1, <1>2 DEF CoroutineOps

(***************************************************************************)
(* Every reachable state has the declared shape, for any objects, bounds   *)
(* and set of unbarriered operations.                                      *)
(***************************************************************************)
THEOREM TypeCorrect == Spec => []TypeOK
<1>1. TypeOK /\ [Next]_vars => TypeOK'
  <2>1. ASSUME TypeOK, UNCHANGED vars PROVE TypeOK'
    BY <2>1 DEF TypeOK, vars, heapVars, rootVars, gcVars
  <2> QED
    BY <2>1, TypeSingleStep, TypeHeapOps, TypeUnbarriered, TypeCoroutineOps
    DEF Next, Program
<1> QED
  BY <1>1, TypeInit, PTL DEF Spec

-----------------------------------------------------------------------------
(***************************************************************************)
(* The inductive invariant of CollectorInv is preserved by every step of a *)
(* program whose writes call their barriers, and with it no reference a    *)
(* program can follow dangles.                                             *)
(***************************************************************************)
\* An object is of one kind.
LEMMA KindsApart ==
  /\ Instant \subseteq Obj
  /\ Instant \intersect Threads = {}
  /\ Tables \intersect (Upvalues \union Threads) = {}
  /\ Threads \subseteq Obj /\ Upvalues \subseteq Obj /\ Tables \subseteq Obj
  /\ Closures \subseteq Obj /\ Userdata \subseteq Obj
  BY KindsAssumption DEF Instant, Obj

\* There are two whites, the current and the other.
LEMMA WhiteFacts ==
  ASSUME TypeOK
  PROVE  /\ currentWhite \in Whites /\ OtherWhite \in Whites
         /\ currentWhite # OtherWhite
         /\ \A w \in Whites : w = currentWhite \/ w = OtherWhite
         /\ "free" \notin Whites /\ "gray" \notin Whites /\ "black" \notin Whites
  BY DEF TypeOK, Whites, OtherWhite

(***************************************************************************)
(* Marking colours the objects of M and no other.                          *)
(***************************************************************************)
LEMMA ShadeFacts ==
  ASSUME NEW M, NEW o \in Obj
  PROVE  /\ o \notin M => Shade(M)[o] = color[o]
         /\ o \in M /\ o \in Instant => Shade(M)[o] = "black"
         /\ o \in M /\ o \notin Instant => Shade(M)[o] = "gray"
  BY DEF Shade

-----------------------------------------------------------------------------
(***************************************************************************)
(* The sweep cursor and the finalizer queue, whatever the program writes.  *)
(***************************************************************************)
LEMMA CursorInit == Init => Settled /\ Pending
<1> SUFFICES ASSUME Init PROVE Settled /\ Pending
  OBVIOUS
<1>1. \A o \in Obj : color[o] \in {"free", currentWhite}
  BY DEF Init
<1> QED
  BY <1>1 DEF Init, Settled, Pending, Sweeping

\* Sweeping a batch leaves the cursor where it says.
LEMMA SweepBatchSettles ==
  ASSUME TypeOK, NEW B, B \subseteq unswept, Settled, Sweeping, SweepBatch(B),
         UNCHANGED currentWhite
  PROVE  /\ unswept' = unswept \ B
         /\ unswept' \subseteq Allocated'
         /\ \A o \in Obj : o \notin B => color'[o] = color[o]
         /\ \A o \in Obj \ unswept' : color'[o] \in {"free", currentWhite}
  BY WhiteFacts DEF SweepBatch, Settled, Allocated, TypeOK

\* The collector keeps the cursor in its place.
LEMMA CursorSingleStep ==
  TypeOK /\ Settled /\ Pending /\ SingleStep => Settled' /\ Pending'
<1> SUFFICES ASSUME TypeOK, Settled, Pending, SingleStep PROVE Settled' /\ Pending'
  OBVIOUS
<1>1. CASE StartCycle
  BY <1>1 DEF StartCycle, MarkRoots, Settled, Pending, Sweeping, rootVars
<1>2. ASSUME NEW o \in Obj, PropagateOne(o) PROVE Settled' /\ Pending'
  BY <1>2 DEF PropagateOne, Settled, Pending, Sweeping, rootVars
<1>3. CASE PropagateMain
  BY <1>3 DEF PropagateMain, Settled, Pending, Sweeping, rootVars
<1>4. CASE Atomic
  <2>1. phase = "Propagate" /\ phase' = "SweepString" /\ arena' = 1
        /\ unswept' = Allocated /\ UNCHANGED rootVars
    BY <1>4 DEF Atomic
  <2>2. \A o \in Obj : color[o] # "free" <=> color'[o] # "free"
    BY <1>4 DEF Atomic, Allocated
  <2> QED
    BY <2>1, <2>2 DEF Settled, Pending, Sweeping, Allocated, rootVars
<1>5. CASE SweepStrings
  <2>1. PICK B \in Batches(Strings) : SweepBatch(B)
    BY <1>5 DEF SweepStrings
  <2>2. B \subseteq unswept /\ Sweeping /\ UNCHANGED currentWhite
    BY <1>5 DEF Batches, SweepStrings, Sweeping
  <2>3. /\ unswept' = unswept \ B
        /\ unswept' \subseteq Allocated'
        /\ \A o \in Obj \ unswept' : color'[o] \in {"free", currentWhite}
    BY <2>1, <2>2, SweepBatchSettles
  <2>4. \/ phase' = "SweepString" /\ arena' = 1
        \/ phase' = "Sweep" /\ arena' = 2 /\ unswept' \intersect Strings = {}
    BY <1>5 DEF SweepStrings, Settled
  <2>5. \A i \in 1..6 : i < arena' => unswept' \intersect Arenas[i] = {}
    BY <2>4, <2>3 DEF Arenas
  <2>6. Pending'
    BY <1>5, <2>4 DEF SweepStrings, Pending, rootVars
  <2> QED
    BY <2>2, <2>3, <2>4, <2>5, <2>6 DEF Settled, Sweeping
<1>6. CASE SweepOther
  <2>1. PICK B \in Batches(Arenas[arena]) : SweepBatch(B)
    BY <1>6 DEF SweepOther
  <2>2. B \subseteq unswept /\ Sweeping /\ UNCHANGED currentWhite
    BY <1>6 DEF Batches, SweepOther, Sweeping
  <2>3. /\ unswept' = unswept \ B
        /\ unswept' \subseteq Allocated'
        /\ \A o \in Obj \ unswept' : color'[o] \in {"free", currentWhite}
    BY <2>1, <2>2, SweepBatchSettles
  <2>4. \A i \in 1..6 : i < arena => unswept' \intersect Arenas[i] = {}
    BY <2>2, <2>3 DEF Settled
  <2>5. \/ phase' = "Sweep" /\ arena' = arena
        \/ phase' = "Sweep" /\ arena' = arena + 1
           /\ unswept' \intersect Arenas[arena] = {}
        \/ phase' = "Finalize" /\ arena = 6
           /\ unswept' \intersect Arenas[arena] = {}
    BY <1>6 DEF SweepOther
  <2>6. Pending'
    BY <1>6, <2>5 DEF SweepOther, Pending, rootVars
  <2>7. CASE phase' = "Finalize"
    <3>1. \A i \in 1..6 : unswept' \intersect Arenas[i] = {}
      BY <2>4, <2>5, <2>7
    <3>2. unswept' = {}
      BY <3>1, <2>2, <2>3 DEF Arenas, Settled, Allocated, Obj
    <3> QED
      BY <2>2, <2>3, <2>6, <2>7, <3>2 DEF Settled, Sweeping
  <2>8. CASE phase' = "Sweep"
    <3>1. \A i \in 1..6 : i < arena' => unswept' \intersect Arenas[i] = {}
      BY <2>4, <2>5, <2>8 DEF TypeOK
    <3> QED
      BY <2>2, <2>3, <2>6, <2>8, <3>1 DEF Settled, Sweeping
  <2> QED
    BY <2>5, <2>7, <2>8
<1>7. ASSUME NEW d \in Userdata, CallFinalizer(d) PROVE Settled' /\ Pending'
  BY <1>7 DEF CallFinalizer, Settled, Pending, Sweeping, heapVars
<1>8. CASE EndCycle
  BY <1>8 DEF EndCycle, Settled, Pending, Sweeping, heapVars, rootVars
<1> QED
  BY <1>1, <1>2, <1>3, <1>4, <1>5, <1>6, <1>7, <1>8 DEF SingleStep

\* So does the program.
LEMMA CursorProgram ==
  TypeOK /\ Settled /\ Pending /\ Program => Settled' /\ Pending'
<1> SUFFICES ASSUME TypeOK, Settled, Pending, Program PROVE Settled' /\ Pending'
  OBVIOUS
<1>1. ASSUME UNCHANGED gcRest, UNCHANGED <<current, saved, parked>>,
             NEW S \in SUBSET Obj, \A o \in S : color[o] = "free",
             color' = [o \in Obj |-> IF o \in S THEN currentWhite ELSE color[o]]
      PROVE  Settled' /\ Pending'
  <2>1. \A o \in Obj : color'[o] = IF o \in S THEN currentWhite ELSE color[o]
    BY <1>1
  <2>2. currentWhite # "free"
    BY WhiteFacts
  <2> QED
    BY <1>1, <2>1, <2>2 DEF Settled, Pending, Sweeping, Allocated, gcRest
<1>2. ASSUME UNCHANGED gcRest, UNCHANGED color, current' = "main" => saved' = {} /\ parked' = {}
      PROVE  Settled' /\ Pending'
  BY <1>2 DEF Settled, Pending, Sweeping, Allocated, gcRest
<1>3. ASSUME UNCHANGED gcRest, UNCHANGED <<current, saved, parked>>,
             phase = "Propagate"
      PROVE  Settled' /\ Pending'
  BY <1>3 DEF Settled, Pending, Sweeping, gcRest
<1>4. ASSUME NEW o \in Obj, NEW R \in SUBSET stack, Alloc(o, R)
      PROVE  Settled' /\ Pending'
  BY <1>1, <1>4 DEF Alloc, Fresh, Occupy, NewWhite
<1>5. ASSUME NEW c \in Closures, NEW U \in SUBSET Upvalues, MakeClosure(c, U)
      PROVE  Settled' /\ Pending'
  <2> DEFINE S == {u \in U : Fresh(u)} \union {c}
  <2>1. S \in SUBSET Obj /\ \A o \in S : color[o] = "free"
    BY <1>5, KindsApart DEF MakeClosure, Fresh
  <2>2. color' = [o \in Obj |-> IF o \in S THEN currentWhite ELSE color[o]]
    BY <1>5 DEF MakeClosure, Occupy, NewWhite
  <2>3. UNCHANGED gcRest /\ UNCHANGED <<current, saved, parked>>
    BY <1>5 DEF MakeClosure
  <2> HIDE DEF S
  <2> QED
    BY <1>1, <2>1, <2>2, <2>3
<1>6. ASSUME NEW v \in Obj, Load(v) \/ Drop(v)
      PROVE  Settled' /\ Pending'
  BY <1>2, <1>6 DEF Load, Drop, heapVars, Pending
<1>7. ASSUME NEW t, NEW old, NEW new, TableSet(t, old, new)
      PROVE  Settled' /\ Pending'
  BY <1>2, <1>3, <1>7 DEF TableSet, BarrierBack, rootVars, Pending
<1>8. ASSUME NEW u, NEW V, SetUpvalue(u, V) \/ CloseUpvalue(u, V)
      PROVE  Settled' /\ Pending'
  BY <1>2, <1>3, <1>8 DEF SetUpvalue, CloseUpvalue, BarrierForward, rootVars, Pending
<1>9. ASSUME UnbarrieredWrites PROVE Settled' /\ Pending'
  <2>1. \A op, o, old, new : Unbarred(op, o, old, new) =>
          UNCHANGED gcRest /\ UNCHANGED color /\ UNCHANGED <<current, saved, parked>>
    BY DEF Unbarred, rootVars
  <2>2. \A mt : SetTypeMetatable(mt) =>
          UNCHANGED gcRest /\ UNCHANGED color /\ UNCHANGED <<current, saved, parked>>
    BY DEF SetTypeMetatable, heapVars
  <2>3. UNCHANGED gcRest /\ UNCHANGED color /\ UNCHANGED <<current, saved, parked>>
    BY <1>9, <2>1, <2>2
    DEF UnbarrieredWrites, SetFenv, DebugSetMetatable, TableSetOverLimit,
        DebugSetUpvalue
  <2> QED
    BY <1>2, <2>3 DEF Pending
<1>10. ASSUME NEW co \in Threads, NEW args, NEW captured, Resume(co, args, captured)
       PROVE  Settled' /\ Pending'
  BY <1>2, <1>10, ConstAssumption DEF Resume
<1>11. ASSUME NEW kept, NEW passed, NEW captured, Suspend(kept, passed, captured)
       PROVE  Settled' /\ Pending'
  BY <1>2, <1>11 DEF Suspend
<1>12. stack \subseteq Obj /\ open \subseteq Obj
  BY KindsApart DEF TypeOK
<1>13. HeapOps => Settled' /\ Pending'
  BY <1>4, <1>5, <1>6, <1>7, <1>8, <1>12 DEF HeapOps
<1>14. CoroutineOps => Settled' /\ Pending'
  BY <1>10, <1>11 DEF CoroutineOps
<1> QED
  BY <1>9, <1>13, <1>14 DEF Program

\* Where the cursor stands needs no barrier.
LEMMA CursorInvariant == Spec => []Cursor
<1>1. Init => Cursor
  BY TypeInit, CursorInit DEF Cursor
<1>2. Cursor /\ [Next]_vars => (Settled /\ Pending)'
  <2>1. ASSUME Cursor, UNCHANGED vars PROVE (Settled /\ Pending)'
    BY <2>1
    DEF Cursor, Settled, Pending, Sweeping, Allocated, vars, heapVars, rootVars, gcVars
  <2> QED
    BY <2>1, CursorSingleStep, CursorProgram DEF Next, Cursor
<1> QED
  BY <1>1, <1>2, TypeCorrect, PTL DEF Spec, Cursor

-----------------------------------------------------------------------------
(***************************************************************************)
(* The tri-colour invariant.                                               *)
(***************************************************************************)
LEMMA MarkingFacts ==
  ASSUME NEW M, M \subseteq White, NEW o \in Obj
  PROVE  /\ Shade(M)[o] = "free" <=> color[o] = "free"
         /\ Shade(M)[o] \in Whites <=> (o \in White /\ o \notin M)
         /\ Shade(M)[o] \in Whites => Shade(M)[o] = color[o]
         /\ Shade(M)[o] = "black" <=> (color[o] = "black" \/ o \in M \intersect Instant)
         /\ Shade(M)[o] = "gray" <=> (color[o] = "gray" \/ o \in M \ Instant)
  BY DEF Shade, White, Whites

\* An empty heap is in order.
LEMMA TricolorInit == Init => Tricolor
<1> SUFFICES ASSUME Init PROVE Tricolor
  OBVIOUS
<1>1. Roots = {Global}
  BY DEF Init, Roots
<1>2. RootsLive /\ HeapLive
  BY <1>1, GlobalType DEF Init, RootsLive, HeapLive, Live, Sweeping
<1> QED
  BY <1>2 DEF Init, Tricolor, BlackClosed, GrayListed, RootsMarked

\* Marking starts with the roots on the lists.
LEMMA StartCycleSafe == Cursor /\ Tricolor /\ StartCycle => Tricolor'
<1> SUFFICES ASSUME Cursor, Tricolor, StartCycle PROVE Tricolor'
  OBVIOUS
<1> DEFINE S == {Global} \union typeMetatables
           M == Marked(S)
<1>1. S \in SUBSET Obj
  BY GlobalType, KindsApart DEF Cursor, TypeOK
<1>2. /\ M \subseteq White
      /\ S \intersect White \subseteq M
      /\ \A p \in M \intersect Instant : refs[p] \intersect White \subseteq M
  BY <1>1, MarkedClosed DEF Cursor
<1>3. /\ color' = Shade(M) /\ gray' = M \ Instant /\ grayagain' = {}
      /\ phase = "Pause" /\ phase' = "Propagate"
      /\ UNCHANGED <<refs, rootVars, tmudata, currentWhite>>
  BY DEF StartCycle, MarkRoots, FirstRoots
<1> HIDE DEF M, S
<1>4. \A o \in Obj :
        /\ color'[o] = "free" <=> color[o] = "free"
        /\ color'[o] \in Whites <=> (o \in White /\ o \notin M)
        /\ color'[o] \in Whites => color'[o] = color[o]
        /\ color'[o] = "black" <=> (color[o] = "black" \/ o \in M \intersect Instant)
        /\ color'[o] = "gray" <=> (color[o] = "gray" \/ o \in M \ Instant)
  BY <1>2, <1>3, MarkingFacts
<1>5. \A o \in Obj : color[o] \in {"free", currentWhite}
  BY <1>3 DEF Cursor, Settled
<1>6. \A o \in Obj : color[o] # "black" /\ color[o] # "gray"
  BY <1>5, WhiteFacts DEF Cursor
<1>7. RootsLive' /\ HeapLive'
  BY <1>3, <1>4, GlobalType
  DEF Tricolor, RootsLive, HeapLive, Live, Sweeping, Roots, rootVars, Cursor, TypeOK, Obj
<1>8. BlackClosed'
  BY <1>2, <1>3, <1>4, <1>6 DEF BlackClosed, White, Cursor, TypeOK
<1>9. GrayListed'
  BY <1>2, <1>3, <1>4, <1>6, KindsApart DEF GrayListed, White
<1>10. RootsMarked'
  <2>1. \A o \in S : color[o] # "free"
    BY <1>3 DEF S, Tricolor, RootsLive, Live, Roots
  <2>2. S \intersect White' = {}
    BY <1>2, <1>4, <2>1 DEF White
  <2>3. \A o \in Obj : color'[o] # OtherWhite
    BY <1>4, <1>5, WhiteFacts DEF Cursor
  <2> QED
    BY <1>3, <2>2, <2>3 DEF RootsMarked, S, OtherWhite, rootVars
<1> QED
  BY <1>7, <1>8, <1>9, <1>10 DEF Tricolor

\* A gray object is blackened when its children are not white.
LEMMA PropagateOneSafe ==
  ASSUME NEW o \in Obj, Cursor, Tricolor, PropagateOne(o)
  PROVE  Tricolor'
<1> DEFINE M == Marked(refs[o])
<1>1. refs[o] \in SUBSET Obj
  BY DEF Cursor, TypeOK
<1>2. /\ M \subseteq White
      /\ refs[o] \intersect White \subseteq M
      /\ \A p \in M \intersect Instant : refs[p] \intersect White \subseteq M
  BY <1>1, MarkedClosed DEF Cursor
<1>3. /\ color' = [Shade(M) EXCEPT ![o] = "black"]
      /\ gray' = (gray \ {o}) \union (M \ Instant)
      /\ grayagain' = IF o \in Threads THEN grayagain \union {o} ELSE grayagain
      /\ phase = "Propagate" /\ phase' = "Propagate" /\ o \in gray
      /\ UNCHANGED <<refs, rootVars, tmudata, currentWhite>>
  BY DEF PropagateOne, Relist
<1> HIDE DEF M
<1>4. color[o] \in {"gray", "black"} /\ o \notin M
  BY <1>2, <1>3 DEF Tricolor, GrayListed, White, Whites
<1>5. \A p \in Obj : p # o => color'[p] = Shade(M)[p]
  BY <1>3, ShadeType DEF Cursor
<1>6. color'[o] = "black"
  BY <1>3, ShadeType DEF Cursor
<1>7. \A p \in Obj :
        /\ color'[p] = "free" <=> color[p] = "free"
        /\ color'[p] \in Whites <=> (p \in White /\ p \notin M)
        /\ color'[p] \in Whites => color'[p] = color[p]
        /\ color'[p] = "black" <=>
             (color[p] = "black" \/ p \in M \intersect Instant \/ p = o)
        /\ color'[p] = "gray" <=> (p # o /\ (color[p] = "gray" \/ p \in M \ Instant))
  BY <1>2, <1>4, <1>5, <1>6, MarkingFacts DEF White, Whites
<1>8. RootsLive' /\ HeapLive'
  BY <1>3, <1>7, GlobalType, KindsApart
  DEF Tricolor, RootsLive, HeapLive, Live, Sweeping, Roots, rootVars, Cursor, TypeOK
<1>9. White' = White \ M
  BY <1>7 DEF White
<1>10. BlackClosed'
  BY <1>2, <1>3, <1>7, <1>9
  DEF BlackClosed, Tricolor, Cursor, TypeOK, rootVars
<1>11. GrayListed'
  <2>1. M \subseteq Obj /\ gray \subseteq Obj /\ grayagain \subseteq Obj
    BY <1>2 DEF White, Cursor, TypeOK
  <2>2. \A p \in Obj : color'[p] = "gray" => p \in gray' \union grayagain'
    BY <1>3, <1>7 DEF Tricolor, GrayListed
  <2>3. \A p \in Threads : color'[p] = "black" => p \in grayagain'
    BY <1>3, <1>7, KindsApart DEF Tricolor, GrayListed
  <2>4. \A p \in gray' \union grayagain' : color'[p] \in {"gray", "black"}
    BY <1>3, <1>7, <2>1 DEF Tricolor, GrayListed
  <2> QED
    BY <2>2, <2>3, <2>4 DEF GrayListed
<1>12. RootsMarked'
  BY <1>3, <1>7, <1>9 DEF RootsMarked, Tricolor, OtherWhite, rootVars, Whites
<1> QED
  BY <1>8, <1>10, <1>11, <1>12 DEF Tricolor

(***************************************************************************)
(* Marking a set S of live values during the Propagate phase, with what is *)
(* marked going to the gray list.  An object may be made to refer to       *)
(* values of S in the same step.                                           *)
(***************************************************************************)
LEMMA MarkingSafe ==
  ASSUME NEW S \in SUBSET Obj, Cursor, Tricolor,
         phase = "Propagate", phase' = "Propagate",
         color' = Shade(Marked(S)), gray' = gray \union (Marked(S) \ Instant),
         \A c \in S : Live(c),
         \A o \in Obj : refs'[o] = refs[o] \/ refs'[o] \subseteq S,
         Roots' \subseteq Roots,
         UNCHANGED <<saved, parked, typeMetatables, grayagain, currentWhite>>
  PROVE  Tricolor'
<1> DEFINE M == Marked(S)
<1>2. /\ M \subseteq White
      /\ S \intersect White \subseteq M
      /\ \A p \in M \intersect Instant : refs[p] \intersect White \subseteq M
  BY MarkedClosed DEF Cursor
<1>3. color' = Shade(M) /\ gray' = gray \union (M \ Instant)
  OBVIOUS
<1> HIDE DEF M
<1>7. \A p \in Obj :
        /\ color'[p] = "free" <=> color[p] = "free"
        /\ color'[p] \in Whites <=> (p \in White /\ p \notin M)
        /\ color'[p] \in Whites => color'[p] = color[p]
        /\ color'[p] = "black" <=> (color[p] = "black" \/ p \in M \intersect Instant)
        /\ color'[p] = "gray" <=> (color[p] = "gray" \/ p \in M \ Instant)
  BY <1>2, <1>3, MarkingFacts
<1>8. RootsLive' /\ HeapLive'
  <2>1. \A p \in Obj : Live(p)' <=> Live(p)
    BY <1>7 DEF Live, Sweeping
  <2>2. Roots \subseteq Obj
    BY GlobalType, KindsApart DEF Roots, Cursor, TypeOK
  <2> QED
    BY <2>1, <2>2 DEF Tricolor, RootsLive, HeapLive, Cursor, TypeOK
<1>9. White' = White \ M /\ S \intersect White' = {}
  BY <1>2, <1>7 DEF White
<1>10. BlackClosed'
  BY <1>2, <1>7, <1>9 DEF BlackClosed, Tricolor, Cursor, TypeOK
<1>11. GrayListed'
  <2>1. M \subseteq Obj /\ gray \subseteq Obj /\ grayagain \subseteq Obj
    BY <1>2 DEF White, Cursor, TypeOK
  <2>2. \A p \in Obj : color'[p] = "gray" => p \in gray' \union grayagain'
    BY <1>3, <1>7 DEF Tricolor, GrayListed
  <2>3. \A p \in Threads : color'[p] = "black" => p \in grayagain'
    BY <1>3, <1>7, KindsApart DEF Tricolor, GrayListed
  <2>4. \A p \in gray' \union grayagain' : color'[p] \in {"gray", "black"}
    BY <1>3, <1>7, <2>1 DEF Tricolor, GrayListed
  <2> QED
    BY <2>2, <2>3, <2>4 DEF GrayListed
<1>12. RootsMarked'
  BY <1>7, <1>9 DEF RootsMarked, Tricolor, OtherWhite, Whites
<1> QED
  BY <1>2, <1>8, <1>9, <1>10, <1>11, <1>12 DEF Tricolor

\* So is the running thread.
LEMMA PropagateMainSafe == Cursor /\ Tricolor /\ PropagateMain => Tricolor'
<1> SUFFICES ASSUME Cursor, Tricolor, PropagateMain PROVE Tricolor'
  OBVIOUS
<1>1. MainRoots \in SUBSET Obj
  BY KindsApart DEF MainRoots, Cursor, TypeOK
<1>2. gray' = gray \union (Marked(MainRoots) \ Instant)
  BY DEF PropagateMain
<1>3. \A c \in MainRoots : Live(c)
  BY DEF MainRoots, Roots, Tricolor, RootsLive
<1>4. Roots' \subseteq Roots
  BY DEF PropagateMain, rootVars, Roots
<1> QED
  BY <1>1, <1>2, <1>3, <1>4, MarkingSafe DEF PropagateMain, rootVars

(***************************************************************************)
(* With the gray list empty, a marked object off grayagain leads to white  *)
(* objects only through a parked upvalue, and those are on the saved stack.*)
(***************************************************************************)
LEMMA UnlistedClosed ==
  ASSUME Cursor, Tricolor, phase = "Propagate", gray = {}, NEW o \in Obj,
         color[o] # "free", o \notin grayagain \union White
  PROVE  refs[o] \intersect White \subseteq saved
<1>1. color[o] \in {"gray", "black"}
  BY DEF White, Cursor, TypeOK, Colors
<1>2. o \notin Threads /\ color[o] = "black"
  BY <1>1 DEF Tricolor, GrayListed
<1> QED
  BY <1>2 DEF Tricolor, BlackClosed

(***************************************************************************)
(* What the atomic step leaves unmarked is unreachable: the marked objects *)
(* are closed under references and contain the roots.                      *)
(***************************************************************************)
LEMMA AtomicSafe == Cursor /\ Tricolor /\ Atomic => Tricolor'
<1> SUFFICES ASSUME Cursor, Tricolor, Atomic PROVE Tricolor'
  OBVIOUS
<1> DEFINE again  == grayagain \union White
           live   == Reach(MainRoots \union grayagain, again)
           dead   == ((Finalizable \ finalized) \intersect White) \ live
           kept   == Reach(tmudata \union dead, again \union tmudata)
           marked == Allocated \intersect ((Obj \ White) \union live \union kept)
<1>1. /\ phase = "Propagate" /\ gray = {} /\ phase' = "SweepString"
      /\ color' = [o \in Obj |-> IF o \in marked THEN "black" ELSE color[o]]
      /\ tmudata' = tmudata \union dead
      /\ currentWhite' = OtherWhite
      /\ UNCHANGED <<refs, rootVars>>
  BY DEF Atomic, DeadUserdata, Kept, NextWhite
<1>2. /\ MainRoots \union grayagain \in SUBSET Obj
      /\ tmudata \union dead \in SUBSET Obj
      /\ again \in SUBSET Obj /\ again \union tmudata \in SUBSET Obj
      /\ refs \in [Obj -> SUBSET Obj]
  BY KindsApart, ConstAssumption DEF MainRoots, Cursor, TypeOK, White
<1>3. /\ MainRoots \union grayagain \subseteq live
      /\ \A p \in live \intersect again : refs[p] \subseteq live
  BY <1>2, ReachLeast
<1> HIDE DEF live, dead
<1>4. /\ tmudata \union dead \subseteq kept
      /\ \A p \in kept \intersect (again \union tmudata) : refs[p] \subseteq kept
  BY <1>2, ReachLeast
<1>5. tmudata = {} /\ dead \subseteq White
  BY <1>1 DEF Cursor, Pending, dead
<1> HIDE DEF kept
<1>6. \A o \in Obj : color[o] # "free" => refs[o] \subseteq Allocated
  BY <1>1 DEF Tricolor, HeapLive, Live, Sweeping, Allocated, Cursor, TypeOK
<1>7. ASSUME NEW o \in marked PROVE refs[o] \subseteq marked
  <2>1. o \in Obj /\ color[o] # "free" /\ refs[o] \subseteq Allocated
    BY <1>6 DEF Allocated
  <2>2. CASE o \in again /\ o \in live
    BY <1>3, <2>1, <2>2
  <2>3. CASE o \in again /\ o \in kept
    BY <1>4, <2>1, <2>3
  <2>4. CASE o \notin again
    <3>1. refs[o] \intersect White \subseteq saved
      BY <1>1, <2>1, <2>4, UnlistedClosed
    <3>2. refs[o] \intersect White \subseteq live
      BY <1>3, <3>1 DEF MainRoots
    <3> QED
      BY <2>1, <3>2 DEF Allocated
  <2> QED
    BY <1>3, <2>2, <2>3, <2>4
<1>8. \A o \in Obj : Live(o)' <=> o \in marked
  <2> SUFFICES ASSUME NEW o \in Obj PROVE Live(o)' <=> o \in marked
    OBVIOUS
  <2>1. Live(o)' <=> color'[o] # "free" /\ color'[o] # currentWhite
    <3>1. OtherWhite' = currentWhite
      BY <1>1, WhiteFacts DEF OtherWhite, Whites, Cursor
    <3> QED
      BY <1>1, <3>1 DEF Live, Sweeping
  <2>2. CASE o \in marked
    BY <1>1, <2>1, <2>2, WhiteFacts DEF Cursor
  <2>3. CASE o \notin marked /\ color[o] # "free"
    <3>1. color[o] \in Whites /\ color[o] # OtherWhite
      BY <1>1, <2>3 DEF Allocated, White, Tricolor, RootsMarked
    <3> QED
      BY <1>1, <2>1, <2>3, <3>1, WhiteFacts DEF Cursor
  <2>4. CASE o \notin marked /\ color[o] = "free"
    BY <1>1, <2>1, <2>4
  <2> QED
    BY <2>2, <2>3, <2>4
<1>9. Roots' \subseteq marked
  <2>1. Roots \subseteq Obj /\ \A o \in Roots : o \in Allocated
    BY GlobalType, KindsApart
    DEF Roots, Cursor, TypeOK, Tricolor, RootsLive, Live, Allocated
  <2>2. {Global} \union typeMetatables \subseteq Obj \ White
    BY <1>1, <2>1 DEF Tricolor, RootsMarked, Roots
  <2>3. dead \subseteq Allocated
    BY <1>5, WhiteFacts DEF White, Allocated, Cursor
  <2>4. Roots' = {Global} \union typeMetatables \union MainRoots \union dead
    BY <1>1, <1>5 DEF Roots, MainRoots, rootVars
  <2>5. MainRoots \subseteq Allocated
    BY <2>1 DEF Roots, MainRoots
  <2> QED
    BY <1>3, <1>4, <2>1, <2>2, <2>3, <2>4, <2>5 DEF Roots
<1>10. marked \subseteq Obj
  BY DEF Allocated
<1> HIDE DEF marked
<1>11. RootsLive' /\ HeapLive'
  BY <1>1, <1>7, <1>8, <1>9, <1>10 DEF RootsLive, HeapLive
<1> QED
  BY <1>1, <1>11 DEF Tricolor, BlackClosed, GrayListed, RootsMarked

(***************************************************************************)
(* A batch frees no live object and leaves every other object as live as   *)
(* it was; with the last batch everything left has the current white.      *)
(***************************************************************************)
LEMMA SweepSafe ==
  ASSUME Cursor, Tricolor, NEW B, B \subseteq unswept, SweepBatch(B), Sweeping,
         Sweeping' \/ (phase' = "Finalize" /\ Settled'),
         UNCHANGED <<currentWhite, tmudata>>, UNCHANGED rootVars
  PROVE  Tricolor'
<1>1. \A o \in Obj : color'[o] = IF o \in B
                                 THEN IF color[o] = OtherWhite THEN "free"
                                      ELSE currentWhite
                                 ELSE color[o]
  BY DEF SweepBatch
<1>2. \A o \in Obj : refs'[o] = IF o \in B /\ color[o] = OtherWhite THEN {}
                                ELSE refs[o]
  BY DEF SweepBatch
<1>3. OtherWhite' = OtherWhite /\ Roots' = Roots
  BY DEF OtherWhite, Roots, rootVars
<1>4. \A o \in B : color[o] # "free"
  BY DEF Cursor, Settled, Allocated
<1>5. \A o \in Obj : Live(o)' <=> Live(o)
  <2>1. CASE Sweeping'
    BY <1>1, <1>3, <1>4, <2>1, WhiteFacts DEF Live, Cursor
  <2>2. CASE phase' = "Finalize" /\ Settled'
    <3>1. \A o \in Obj : color'[o] \in {"free", currentWhite}
      BY <2>2 DEF Settled
    <3> QED
      BY <1>1, <1>4, <2>2, <3>1, WhiteFacts DEF Live, Sweeping, Cursor
  <2> QED
    BY <2>1, <2>2
<1>6. Roots \subseteq Obj
  BY GlobalType, KindsApart DEF Roots, Cursor, TypeOK
<1>7. RootsLive' /\ HeapLive'
  <2>1. RootsLive'
    BY <1>3, <1>5, <1>6 DEF Tricolor, RootsLive
  <2>2. HeapLive'
    BY <1>2, <1>5 DEF Tricolor, HeapLive, Cursor, TypeOK
  <2> QED
    BY <2>1, <2>2
<1> QED
  BY <1>7 DEF Tricolor, BlackClosed, GrayListed, RootsMarked, Sweeping

\* Every step of the collector keeps the tri-colour invariant.
LEMMA SingleStepSafe == Cursor /\ Tricolor /\ SingleStep => Tricolor'
<1> SUFFICES ASSUME Cursor, Tricolor, SingleStep PROVE Tricolor'
  OBVIOUS
<1>1. CASE SweepStrings
  <2>1. PICK B \in Batches(Strings) : SweepBatch(B)
    BY <1>1 DEF SweepStrings
  <2>2. B \subseteq unswept
    BY DEF Batches
  <2>3. /\ UNCHANGED <<currentWhite, tmudata>> /\ UNCHANGED rootVars
        /\ Sweeping /\ Sweeping'
    BY <1>1 DEF SweepStrings, Sweeping
  <2> QED
    BY <2>1, <2>2, <2>3, SweepSafe
<1>2. CASE SweepOther
  <2>1. PICK B \in Batches(Arenas[arena]) : SweepBatch(B)
    BY <1>2 DEF SweepOther
  <2>2. B \subseteq unswept
    BY DEF Batches
  <2>3. /\ UNCHANGED <<currentWhite, tmudata>> /\ UNCHANGED rootVars
        /\ Sweeping /\ (Sweeping' \/ phase' = "Finalize")
    BY <1>2 DEF SweepOther, Sweeping
  <2>4. Settled'
    BY CursorSingleStep DEF Cursor
  <2> QED
    BY <2>1, <2>2, <2>3, <2>4, SweepSafe
<1>3. ASSUME NEW d \in Userdata, CallFinalizer(d) PROVE Tricolor'
  <2>1. /\ UNCHANGED <<color, refs, phase, currentWhite>> /\ phase = "Finalize"
        /\ Roots' \subseteq Roots
    BY <1>3 DEF CallFinalizer, Roots, heapVars
  <2> QED
    BY <2>1
    DEF Tricolor, RootsLive, HeapLive, BlackClosed, GrayListed, RootsMarked,
        Live, Sweeping, OtherWhite
<1>4. CASE EndCycle
  <2>1. /\ UNCHANGED <<color, refs, currentWhite>> /\ phase = "Finalize"
        /\ Roots' = Roots /\ phase' = "Pause"
    BY <1>4 DEF EndCycle, Roots, heapVars, rootVars
  <2> QED
    BY <2>1
    DEF Tricolor, RootsLive, HeapLive, BlackClosed, GrayListed, RootsMarked,
        Live, Sweeping, OtherWhite
<1> QED
  BY <1>1, <1>2, <1>3, <1>4, StartCycleSafe, PropagateOneSafe, PropagateMainSafe,
     AtomicSafe DEF SingleStep

-----------------------------------------------------------------------------
(***************************************************************************)
(* The program's operations.                                               *)
(***************************************************************************)

(***************************************************************************)
(* New objects S, unknown to everyone, that refer to live objects or to    *)
(* each other.                                                             *)
(***************************************************************************)
LEMMA OccupySafe ==
  ASSUME Cursor, Tricolor, NEW S \in SUBSET Obj, NEW r \in [S -> SUBSET Obj],
         Occupy(S, r), \A o \in S : Fresh(o),
         \A o \in S : \A c \in r[o] : c \in S \/ Live(c),
         \A o \in Roots' : o \in S \/ o \in Roots,
         UNCHANGED <<phase, currentWhite, gray, grayagain, saved, parked,
                     typeMetatables>>
  PROVE  Tricolor'
<1>1. /\ \A o \in Obj : color'[o] = IF o \in S THEN currentWhite ELSE color[o]
      /\ \A o \in Obj : refs'[o] = IF o \in S THEN r[o] ELSE refs[o]
  BY DEF Occupy, NewWhite
<1>2. currentWhite \in Whites /\ currentWhite # OtherWhite /\ OtherWhite' = OtherWhite
  BY WhiteFacts DEF OtherWhite, Cursor
<1>3. \A o \in S : color[o] = "free" /\ o \notin Roots
  BY DEF Fresh
<1>4. \A o \in Obj : color[o] # "free" => refs[o] \intersect S = {}
  BY DEF Fresh, Allocated
<1>5. \A o \in Obj : Live(o)' <=> Live(o) \/ o \in S
  BY <1>1, <1>2, <1>3, WhiteFacts DEF Live, Sweeping, Cursor
<1>6. Roots' \subseteq Obj /\ Roots \subseteq Obj
  BY GlobalType, KindsApart DEF Roots, Cursor, TypeOK
<1>7. RootsLive'
  BY <1>5, <1>6 DEF RootsLive, Tricolor
<1>8. HeapLive'
  BY <1>1, <1>5 DEF HeapLive, Tricolor, Cursor, TypeOK
<1>9. White' = White \union S
  BY <1>1, <1>2 DEF White
<1>10. BlackClosed'
  BY <1>1, <1>2, <1>4, <1>9, WhiteFacts DEF BlackClosed, Tricolor, Cursor
<1>11. GrayListed'
  <2>1. \A o \in Obj : color'[o] \in {"gray", "black"} => o \notin S
    BY <1>1, <1>2, WhiteFacts DEF Cursor
  <2>2. phase = "Propagate" => (gray \union grayagain) \intersect S = {}
    BY <1>3 DEF Tricolor, GrayListed
  <2> QED
    BY <1>1, <2>1, <2>2, KindsApart DEF GrayListed, Tricolor, Cursor, TypeOK
<1>12. RootsMarked'
  BY <1>1, <1>2, <1>3, <1>9 DEF RootsMarked, Tricolor, Roots
<1> QED
  BY <1>7, <1>8, <1>10, <1>11, <1>12 DEF Tricolor

(***************************************************************************)
(* A write that leaves every object as live as it was.                     *)
(***************************************************************************)
LEMMA RewriteLive ==
  ASSUME Cursor, Tricolor, UNCHANGED <<phase, currentWhite>>,
         \/ UNCHANGED color
         \/ phase = "Propagate"
            /\ \A o \in Obj : color'[o] = "free" <=> color[o] = "free",
         \A o \in Obj : \A c \in refs'[o] : c \in Obj /\ (c \in refs[o] \/ Live(c)),
         \A o \in Roots' : o \in Obj /\ Live(o)
  PROVE  RootsLive' /\ HeapLive'
<1>1. \A o \in Obj : Live(o)' <=> Live(o)
  BY DEF Live, Sweeping, OtherWhite
<1> QED
  BY <1>1 DEF RootsLive, HeapLive, Tricolor, Cursor, TypeOK

\* What the program holds is live.
LEMMA HeldLive ==
  ASSUME Cursor, Tricolor
  PROVE  /\ Roots \subseteq Obj /\ \A o \in Roots : Live(o)
         /\ Held \subseteq Roots
         /\ \A o \in Roots : \A c \in refs[o] : c \in Obj /\ Live(c)
  BY GlobalType, KindsApart
  DEF Held, Roots, Cursor, TypeOK, Tricolor, RootsLive, HeapLive

\* A table is written, with the barrier back.
LEMMA TableSetSafe ==
  ASSUME Cursor, Tricolor, NEW t \in Held \intersect Tables, NEW old,
         NEW new \in ValuesOf(Held), TableSet(t, old, new)
  PROVE  Tricolor'
<1>1. t \in Obj /\ new \subseteq Held /\ t \notin Threads
  BY HeldLive, ValuesType, KindsApart DEF ValuesOf
<1>2. /\ \A o \in Obj \ {t} : refs'[o] = refs[o]
      /\ refs'[t] = (refs[t] \ old) \union new
      /\ UNCHANGED <<phase, currentWhite, gray, saved, parked, typeMetatables>>
      /\ Roots' = Roots /\ OtherWhite' = OtherWhite
  BY <1>1 DEF TableSet, Write, Cursor, TypeOK, rootVars, gcRest, Roots, OtherWhite
<1>3. \/ /\ phase = "Propagate" /\ color[t] = "black" /\ color'[t] = "gray"
         /\ \A o \in Obj \ {t} : color'[o] = color[o]
         /\ grayagain' = grayagain \union {t}
      \/ (phase # "Propagate" \/ color[t] # "black") /\ UNCHANGED <<color, grayagain>>
  BY <1>1 DEF TableSet, BarrierBack, Cursor, TypeOK
<1>4. RootsLive' /\ HeapLive'
  <2>1. \A o \in Obj : \A c \in refs'[o] : c \in Obj /\ (c \in refs[o] \/ Live(c))
    BY <1>1, <1>2, HeldLive DEF Cursor, TypeOK
  <2>2. \/ UNCHANGED color
        \/ phase = "Propagate"
           /\ \A o \in Obj : color'[o] = "free" <=> color[o] = "free"
    BY <1>3
  <2> QED
    BY <1>2, <2>1, <2>2, HeldLive, RewriteLive
<1>5. White' \subseteq White
  BY <1>3 DEF White, Whites
<1>6. BlackClosed'
  BY <1>2, <1>3, <1>5 DEF BlackClosed, Tricolor
<1>7. GrayListed'
  BY <1>1, <1>2, <1>3, KindsApart DEF GrayListed, Tricolor, Cursor, TypeOK
<1>8. RootsMarked'
  BY <1>2, <1>3, <1>5, WhiteFacts DEF RootsMarked, Tricolor, Cursor
<1> QED
  BY <1>4, <1>6, <1>7, <1>8 DEF Tricolor

(***************************************************************************)
(* A write of an upvalue under the forward barrier.                        *)
(***************************************************************************)
LEMMA UpvalueSafe ==
  ASSUME Cursor, Tricolor, NEW u \in Upvalues, NEW V \in SUBSET Obj,
         BarrierForward(u, V), \A c \in V : Live(c),
         \A o \in Obj \ {u} : refs'[o] = refs[o],
         refs'[u] = refs[u] \/ refs'[u] = V,
         Roots' \subseteq Roots,
         UNCHANGED <<phase, currentWhite, grayagain, saved, parked, typeMetatables>>
  PROVE  Tricolor'
<1>1. CASE phase = "Propagate" /\ color[u] = "black"
  <2>1. color' = Shade(Marked(V)) /\ gray' = gray \union (Marked(V) \ Instant)
    BY <1>1 DEF BarrierForward
  <2> QED
    BY <1>1, <2>1, MarkingSafe
<1>2. CASE ~(phase = "Propagate" /\ color[u] = "black")
  <2>1. UNCHANGED <<color, gray>>
    BY <1>2 DEF BarrierForward
  <2>2. RootsLive' /\ HeapLive'
    <3>1. \A o \in Obj : \A c \in refs'[o] : c \in Obj /\ (c \in refs[o] \/ Live(c))
      BY DEF Cursor, TypeOK
    <3> QED
      BY <2>1, <3>1, HeldLive, RewriteLive
  <2>3. White' = White /\ OtherWhite' = OtherWhite
    BY <2>1 DEF White, OtherWhite
  <2> QED
    BY <1>2, <2>1, <2>2, <2>3
    DEF Tricolor, BlackClosed, GrayListed, RootsMarked
<1> QED
  BY <1>1, <1>2

\* An object is made.
LEMMA AllocSafe ==
  ASSUME Cursor, Tricolor, NEW o \in Obj, NEW R \in SUBSET stack, Alloc(o, R)
  PROVE  Tricolor'
<1> DEFINE r == [x \in {o} |-> R]
<1>1. r \in [{o} -> SUBSET Obj]
  BY DEF Cursor, TypeOK
<1>2. Occupy({o}, r) /\ \A x \in {o} : Fresh(x)
  BY DEF Alloc
<1>3. \A x \in {o} : \A c \in r[x] : c \in {o} \/ Live(c)
  BY HeldLive DEF Roots
<1>4. \A x \in Roots' : x \in {o} \/ x \in Roots
  BY DEF Alloc, Push, Roots, gcRest
<1>5. UNCHANGED <<phase, currentWhite, gray, grayagain, saved, parked,
                  typeMetatables>>
  BY DEF Alloc, gcRest
<1> HIDE DEF r
<1> QED
  BY <1>1, <1>2, <1>3, <1>4, <1>5, OccupySafe

\* A closure is made, with new upvalues.
LEMMA MakeClosureSafe ==
  ASSUME Cursor, Tricolor, NEW c \in Closures, NEW U \in SUBSET Upvalues,
         MakeClosure(c, U)
  PROVE  Tricolor'
<1> DEFINE new == {u \in U : Fresh(u)}
           S   == new \union {c}
           r   == [x \in S |-> IF x = c THEN U ELSE {}]
<1>1. S \in SUBSET Obj /\ r \in [S -> SUBSET Obj]
  BY KindsApart
<1>2. Occupy(S, r) /\ \A x \in S : Fresh(x)
  BY DEF MakeClosure
<1>3. \A p \in stack \intersect Closures : \A x \in refs[p] : Live(x)
  BY HeldLive DEF Roots
<1>4. \A u \in U : u \in S \/ Live(u)
  BY <1>3, HeldLive, ContentHas DEF MakeClosure, Roots
<1>5. \A x \in S : \A v \in r[x] : v \in S \/ Live(v)
  BY <1>4
<1>6. \A x \in Roots' : x \in S \/ x \in Roots
  BY DEF MakeClosure, Push, Roots, gcRest
<1>7. UNCHANGED <<phase, currentWhite, gray, grayagain, saved, parked,
                  typeMetatables>>
  BY DEF MakeClosure, gcRest
<1> HIDE DEF S, r
<1> QED
  BY <1>1, <1>2, <1>5, <1>6, <1>7, OccupySafe

\* The stack gains or loses a reference.
LEMMA LoadDropSafe ==
  ASSUME Cursor, Tricolor, NEW v \in Obj, Load(v) \/ Drop(v)
  PROVE  Tricolor'
<1>1. /\ UNCHANGED <<color, refs, phase, currentWhite, gray, grayagain, saved,
                     parked, typeMetatables>>
      /\ White' = White /\ OtherWhite' = OtherWhite
  BY DEF Load, Drop, heapVars, gcRest, White, OtherWhite
<1>2. CASE Load(v)
  <2>1. Live(v)
    <3>1. \A o \in Held : \A x \in refs[o] : x \in Obj /\ Live(x)
      BY HeldLive
    <3>2. \A o \in Held : \A x \in Readable(o) : Live(x)
      BY <3>1, ContentHas DEF Readable, Tricolor, HeapLive
    <3>3. \A o \in typeMetatables : Live(o)
      BY HeldLive DEF Roots
    <3> QED
      BY <1>2, <3>2, <3>3 DEF Load
  <2>2. \A o \in Roots' : o = v \/ o \in Roots
    BY <1>2 DEF Load, Push, Roots, gcRest
  <2>3. RootsLive' /\ HeapLive'
    BY <1>1, <2>1, <2>2, HeldLive, RewriteLive DEF Cursor, TypeOK
  <2> QED
    BY <1>1, <2>3 DEF Tricolor, BlackClosed, GrayListed, RootsMarked
<1>3. CASE Drop(v)
  <2>1. Roots' \subseteq Roots
    BY <1>3 DEF Drop, Roots, gcRest
  <2>2. RootsLive' /\ HeapLive'
    BY <1>1, <2>1, HeldLive, RewriteLive DEF Cursor, TypeOK
  <2> QED
    BY <1>1, <2>2 DEF Tricolor, BlackClosed, GrayListed, RootsMarked
<1> QED
  BY <1>2, <1>3

\* An upvalue is written, with the barrier forward.
LEMMA SetUpvalueSafe ==
  ASSUME Cursor, Tricolor, NEW u \in Upvalues, NEW V \in ValuesOf(Held),
         SetUpvalue(u, V)
  PROVE  Tricolor'
<1>1. V \subseteq Held /\ V \in SUBSET Obj /\ \A c \in V : Live(c)
  BY HeldLive, ValuesType
<1>2. BarrierForward(u, V)
  BY DEF SetUpvalue
<1>3. (\A o \in Obj \ {u} : refs'[o] = refs[o]) /\ (refs'[u] = refs[u] \/ refs'[u] = V)
  BY KindsApart DEF SetUpvalue, Write, Cursor, TypeOK
<1>4. /\ Roots' \subseteq Roots
      /\ UNCHANGED <<phase, currentWhite, grayagain, saved, parked, typeMetatables>>
  BY DEF SetUpvalue, Roots, rootVars, gcRest
<1> QED
  BY <1>1, <1>2, <1>3, <1>4, UpvalueSafe

\* An upvalue is closed, with its barrier.
LEMMA CloseUpvalueSafe ==
  ASSUME Cursor, Tricolor, NEW u \in open, NEW V \in ValuesOf(stack),
         CloseUpvalue(u, V)
  PROVE  Tricolor'
<1>0. u \in Upvalues
  BY DEF Cursor, TypeOK
<1>1. V \subseteq stack /\ V \in SUBSET Obj /\ \A c \in V : Live(c)
  BY HeldLive, ValuesType DEF Cursor, TypeOK, Roots
<1>2. BarrierForward(u, V)
  BY DEF CloseUpvalue
<1>3. (\A o \in Obj \ {u} : refs'[o] = refs[o]) /\ refs'[u] = V
  BY <1>0, KindsApart DEF CloseUpvalue, Write, Cursor, TypeOK
<1>4. /\ Roots' \subseteq Roots
      /\ UNCHANGED <<phase, currentWhite, grayagain, saved, parked, typeMetatables>>
  BY DEF CloseUpvalue, Roots, gcRest
<1> QED
  BY <1>0, <1>1, <1>2, <1>3, <1>4, UpvalueSafe

(***************************************************************************)
(* A write without a barrier is harmless between two cycles.               *)
(***************************************************************************)
LEMMA QuietSafe ==
  ASSUME Cursor, Tricolor, UNCHANGED <<color, phase, currentWhite>>,
         phase # "Propagate",
         \A o \in Obj : \A c \in refs'[o] : c \in Obj /\ (c \in refs[o] \/ Live(c)),
         \A o \in Roots' : o \in Obj /\ Live(o)
  PROVE  Tricolor'
<1>1. RootsLive' /\ HeapLive'
  BY RewriteLive
<1> QED
  BY <1>1 DEF Tricolor, BlackClosed, GrayListed, RootsMarked

\* Writes without a barrier are safe where they are made under Barriered.
LEMMA UnbarrieredSafe ==
  Cursor /\ Tricolor /\ Barriered /\ UnbarrieredWrites => Tricolor'
<1> SUFFICES ASSUME Cursor, Tricolor, Barriered, UnbarrieredWrites
             PROVE  Tricolor'
  OBVIOUS
<1>1. ASSUME NEW op, NEW o \in Roots, NEW old, NEW new,
             \A c \in new : c \in Obj /\ Live(c), Unbarred(op, o, old, new)
      PROVE  Tricolor'
  <2>1. phase # "Propagate"
    BY <1>1 DEF Unbarred, Unguarded, Barriered, ProgramRuns
  <2>2. UNCHANGED <<color, phase, currentWhite>> /\ Roots' = Roots
    BY <1>1 DEF Unbarred, Roots, rootVars, gcRest
  <2>3. refs' = [refs EXCEPT ![o] = (refs[o] \ old) \union new]
    BY <1>1 DEF Unbarred, Write
  <2>4. \A p \in Obj : \A c \in refs'[p] : c \in Obj /\ (c \in refs[p] \/ Live(c))
    BY <1>1, <2>3 DEF Cursor, TypeOK
  <2> QED
    BY <2>1, <2>2, <2>4, HeldLive, QuietSafe
<1>3. ASSUME NEW o \in Held, NEW old, NEW new \in ValuesOf(refs[o] \union Held),
             SetFenv(o, old, new) \/ DebugSetMetatable(o, old, new)
               \/ TableSetOverLimit(o, old, new)
      PROVE  Tricolor'
  <2>1. o \in Roots /\ new \subseteq refs[o] \union Held
    BY DEF Roots, Held, ValuesOf
  <2>2. \A c \in new : c \in Obj /\ Live(c)
    BY <2>1, HeldLive
  <2> QED
    BY <1>1, <1>3, <2>1, <2>2 DEF SetFenv, DebugSetMetatable, TableSetOverLimit
<1>4. ASSUME NEW u \in Upvalues, NEW V \in ValuesOf(Held), DebugSetUpvalue(u, V)
      PROVE  Tricolor'
  <2>1. \A c \in V : c \in Obj /\ Live(c)
    BY HeldLive DEF ValuesOf
  <2>2. phase # "Propagate"
    BY <1>4 DEF DebugSetUpvalue, Unbarred, Unguarded, Barriered, ProgramRuns
  <2>3. UNCHANGED <<color, phase, currentWhite>> /\ Roots' = Roots
    BY <1>4 DEF DebugSetUpvalue, Unbarred, Roots, rootVars, gcRest
  <2>4. refs' = [refs EXCEPT ![u] = (refs[u] \ refs[u]) \union V]
    BY <1>4 DEF DebugSetUpvalue, Unbarred, Write
  <2>5. \A p \in Obj : \A c \in refs'[p] : c \in Obj /\ (c \in refs[p] \/ Live(c))
    BY <2>1, <2>4 DEF Cursor, TypeOK
  <2> QED
    BY <2>2, <2>3, <2>5, HeldLive, QuietSafe
<1>5. ASSUME NEW mt \in ValuesOf(Held), SetTypeMetatable(mt) PROVE Tricolor'
  <2>1. \A c \in mt : c \in Obj /\ Live(c)
    BY HeldLive DEF ValuesOf
  <2>2. phase # "Propagate" /\ UNCHANGED <<color, refs, phase, currentWhite>>
        /\ \A o \in Roots' : o \in Roots \/ o \in mt
    BY <1>5
    DEF SetTypeMetatable, Unguarded, Barriered, ProgramRuns, heapVars, gcRest, Roots
  <2> QED
    BY <2>1, <2>2, HeldLive, QuietSafe DEF Cursor, TypeOK
<1> QED
  BY <1>3, <1>4, <1>5 DEF UnbarrieredWrites

(***************************************************************************)
(* The swap on resume: the values of the closed upvalues are on the saved  *)
(* stack, which is why BlackClosed may exempt them.                        *)
(***************************************************************************)
LEMMA ResumeSafe ==
  ASSUME Cursor, Tricolor, NEW co \in stack \intersect Threads,
         NEW args \in SUBSET stack, NEW captured \in Captures(open, stack),
         Resume(co, args, captured)
  PROVE  Tricolor'
<1> DEFINE suspended == refs[co] \intersect Upvalues
<1>1. \A u \in open : captured[u] \subseteq stack
  BY ValuesType DEF Captures, Cursor, TypeOK
<1>2. /\ \A o \in Obj : refs'[o] = IF o \in open THEN captured[o]
                                   ELSE IF o \in suspended \union {co} THEN {}
                                   ELSE refs[o]
      /\ saved' = stack /\ parked' = open /\ open' = suspended
      /\ stack' = (refs[co] \ Upvalues) \union Content(suspended) \union args
      /\ current = "main"
  BY DEF Resume
<1>3. /\ UNCHANGED <<color, phase, currentWhite, typeMetatables, tmudata, gray,
                     grayagain>>
      /\ White' = White /\ OtherWhite' = OtherWhite
  BY DEF Resume, gcRest, White, OtherWhite
<1>4. \A o \in stack \union open : o \in Obj /\ Live(o)
  BY HeldLive DEF Roots
<1>5. \A c \in refs[co] : c \in Obj /\ Live(c)
  BY HeldLive DEF Roots
<1>6. \A c \in Content(suspended) : c \in Obj /\ Live(c)
  <2>1. ASSUME NEW u \in suspended, NEW c \in refs[u] PROVE c \in Obj /\ Live(c)
    BY <1>5, <2>1 DEF Tricolor, HeapLive, Cursor, TypeOK
  <2> QED
    BY <2>1, ContentHas
<1> HIDE DEF suspended
<1>7. \A o \in Roots' : o \in Obj /\ Live(o)
  <2>1. \A o \in stack' : o \in Obj /\ Live(o)
    BY <1>2, <1>4, <1>5, <1>6
  <2>2. \A o \in open' : o \in Obj /\ Live(o)
    BY <1>2, <1>5 DEF suspended
  <2>3. \A o \in saved' \union parked' : o \in Obj /\ Live(o)
    BY <1>2, <1>4
  <2> QED
    BY <1>3, <2>1, <2>2, <2>3, HeldLive DEF Roots
<1>8. RootsLive' /\ HeapLive'
  <2>1. \A o \in Obj : \A c \in refs'[o] : c \in Obj /\ (c \in refs[o] \/ Live(c))
    BY <1>1, <1>2, <1>4 DEF Cursor, TypeOK
  <2> QED
    BY <1>3, <1>7, <2>1, RewriteLive
<1>9. BlackClosed'
  <2>1. parked = {}
    BY <1>2 DEF Cursor, Pending
  <2> QED
    BY <1>1, <1>2, <1>3, <2>1 DEF BlackClosed, Tricolor
<1> QED
  BY <1>3, <1>8, <1>9 DEF Tricolor, GrayListed, RootsMarked

(***************************************************************************)
(* The swap back.  A coroutine that is put away with open upvalues needs   *)
(* the collector to be at rest.                                            *)
(***************************************************************************)
LEMMA SuspendSafe ==
  ASSUME Cursor, Tricolor, Barriered, NEW kept \in SUBSET stack,
         NEW passed \in SUBSET stack, NEW captured \in Captures(open, kept),
         Suspend(kept, passed, captured)
  PROVE  Tricolor'
<1>1. \A u \in open : captured[u] \subseteq kept
  BY ValuesType DEF Captures, Cursor, TypeOK
<1>2. /\ \A o \in Obj : refs'[o] = IF o = current THEN kept \union open
                                   ELSE IF o \in open THEN captured[o]
                                   ELSE IF o \in parked THEN {} ELSE refs[o]
      /\ saved' = {} /\ parked' = {} /\ open' = parked
      /\ stack' = saved \union passed \union Content(parked)
      /\ current # "main"
  BY DEF Suspend
<1>3. /\ UNCHANGED <<color, phase, currentWhite, typeMetatables, tmudata, gray,
                     grayagain>>
      /\ White' = White /\ OtherWhite' = OtherWhite
  BY DEF Suspend, gcRest, White, OtherWhite
<1>4. \A o \in stack \union open \union saved \union parked : o \in Obj /\ Live(o)
  BY HeldLive DEF Roots
<1>5. \A c \in Content(parked) : c \in Obj /\ Live(c)
  BY HeldLive, ContentHas DEF Roots
<1>6. \A o \in Roots' : o \in Obj /\ Live(o)
  <2>1. \A o \in stack' \union open' : o \in Obj /\ Live(o)
    BY <1>2, <1>4, <1>5
  <2> QED
    BY <1>2, <1>3, <2>1, HeldLive DEF Roots
<1>7. \A o \in Obj : \A c \in refs'[o] : c \in Obj /\ (c \in refs[o] \/ Live(c))
  BY <1>1, <1>2, <1>4 DEF Cursor, TypeOK
<1>8. RootsLive' /\ HeapLive'
  BY <1>3, <1>6, <1>7, RewriteLive
<1>9. CASE phase # "Propagate"
  BY <1>3, <1>6, <1>7, <1>9, QuietSafe
<1>10. CASE phase = "Propagate"
  <2>1. open = {}
    BY <1>10 DEF Suspend, ProgramRuns, Barriered
  <2>2. current \in Threads
    BY <1>2 DEF Cursor, TypeOK
  <2>3. BlackClosed'
    BY <1>2, <1>3, <2>1, <2>2 DEF BlackClosed, Tricolor
  <2> QED
    BY <1>3, <1>8, <2>3 DEF Tricolor, GrayListed, RootsMarked
<1> QED
  BY <1>9, <1>10

-----------------------------------------------------------------------------
\* Every step of the program keeps the tri-colour invariant.
LEMMA ProgramSafe == Cursor /\ Tricolor /\ Barriered /\ Program => Tricolor'
<1> SUFFICES ASSUME Cursor, Tricolor, Barriered, Program PROVE Tricolor'
  OBVIOUS
<1>1. stack \subseteq Obj
  BY DEF Cursor, TypeOK
<1>2. HeapOps => Tricolor'
  BY <1>1, AllocSafe, MakeClosureSafe, LoadDropSafe, TableSetSafe, SetUpvalueSafe,
     CloseUpvalueSafe DEF HeapOps
<1>3. CoroutineOps => Tricolor'
  BY ResumeSafe, SuspendSafe DEF CoroutineOps
<1> QED
  BY <1>2, <1>3, UnbarrieredSafe DEF Program

\* The tri-colour invariant holds throughout.
LEMMA TricolorInvariant == Barriered => (Spec => [](Cursor /\ Tricolor))
<1> SUFFICES ASSUME Barriered PROVE Spec => [](Cursor /\ Tricolor)
  OBVIOUS
<1>1. Cursor /\ Tricolor /\ [Next]_vars => Tricolor'
  <2>1. ASSUME Tricolor, UNCHANGED vars PROVE Tricolor'
    BY <2>1
    DEF Tricolor, RootsLive, HeapLive, BlackClosed, GrayListed, RootsMarked, Live,
        Sweeping, Roots, White, OtherWhite, vars, heapVars, rootVars, gcVars
  <2> QED
    BY <2>1, SingleStepSafe, ProgramSafe DEF Next
<1> QED
  BY <1>1, TricolorInit, CursorInvariant, PTL DEF Spec

(***************************************************************************)
(* Everything reachable is live: the live objects contain the roots and    *)
(* are closed under references.                                            *)
(***************************************************************************)
LEMMA ReachableLive ==
  ASSUME Cursor, Tricolor
  PROVE  \A o \in Reachable : o \in Obj /\ Live(o)
<1> DEFINE R == {o \in Obj : Live(o)}
<1>1. Roots \in SUBSET Obj /\ refs \in [Obj -> SUBSET Obj]
  BY HeldLive DEF Cursor, TypeOK
<1>2. Roots \subseteq R
  BY HeldLive
<1>3. \A p \in R \intersect Obj : refs[p] \subseteq R
  BY DEF Tricolor, HeapLive, Cursor, TypeOK
<1>4. Reach(Roots, Obj) \subseteq R
  <2> HIDE DEF R
  <2>1. R \in SUBSET Obj
    BY DEF R
  <2> QED
    BY <1>1, <1>2, <1>3, <2>1, ReachLeast
<1> QED
  BY <1>4 DEF Reachable

(***************************************************************************)
(* The invariant the other theorems rest on, and that the runs check.      *)
(***************************************************************************)
THEOREM InvariantHolds == Barriered => (Spec => []IInv)
<1> SUFFICES ASSUME Barriered PROVE Spec => []IInv
  OBVIOUS
<1> QED
  BY TricolorInvariant, PTL DEF IInv

(***************************************************************************)
(* Collection is safe: whatever the instance, no reference a barriered     *)
(* program can follow leads to a freed slot.                               *)
(***************************************************************************)
THEOREM CollectionSafe == Barriered => (Spec => []NoDangling)
<1> SUFFICES ASSUME Barriered PROVE Spec => []NoDangling
  OBVIOUS
<1>1. Cursor /\ Tricolor => NoDangling
  BY ReachableLive DEF NoDangling, Allocated, Live
<1> QED
  BY <1>1, TricolorInvariant, PTL

(***************************************************************************)
(* The sweep condemns nothing reachable, wherever its cursor is.           *)
(***************************************************************************)
THEOREM SweepSpares == Barriered => (Spec => []NoCondemned)
<1> SUFFICES ASSUME Barriered PROVE Spec => []NoCondemned
  OBVIOUS
<1>1. Cursor /\ Tricolor => NoCondemned
  BY ReachableLive DEF NoCondemned, Live, Sweeping
<1> QED
  BY <1>1, TricolorInvariant, PTL

-----------------------------------------------------------------------------
(***************************************************************************)
(* What is garbage when a cycle marks its roots is freed by the end of     *)
(* that cycle, and only garbage is handed to a finalizer: GarbageInv is    *)
(* preserved by every step of a barriered program.                         *)
(***************************************************************************)
(***************************************************************************)
(* The invariant of this module, with those it rests on.                   *)
(***************************************************************************)
Whole == Cursor /\ Tricolor /\ GarbageInv

\* No root is doomed, and nothing that is not doomed refers to what is.
LEMMA RootsApart ==
  ASSUME Whole
  PROVE  /\ Roots \subseteq Obj \ doomed
         /\ \A o \in Obj \ doomed : color[o] # "free" => refs[o] \subseteq Obj \ doomed
         /\ \A o \in Roots : color[o] # "free" /\ refs[o] \subseteq Obj \ doomed
<1>1. Roots \subseteq Obj /\ \A o \in Roots : Live(o)
  BY HeldLive DEF Whole
<1>2. \A o \in Obj \ doomed : color[o] # "free" => refs[o] \subseteq Obj \ doomed
  BY DEF Whole, GarbageInv, DoomedApart, Apart, Cursor, TypeOK
<1> QED
  BY <1>1, <1>2 DEF Whole, GarbageInv, DoomedApart, Apart, Live

(***************************************************************************)
(* Marking what is not garbage marks no garbage.                           *)
(***************************************************************************)
LEMMA MarkedApart ==
  ASSUME Whole, NEW S \in SUBSET (Obj \ doomed)
  PROVE  Marked(S) \intersect doomed = {} /\ Marked(S) \subseteq White
<1> DEFINE R == Obj \ doomed
<1>1. \A p \in R \intersect White : refs[p] \subseteq R
  BY RootsApart, WhiteFacts DEF White, Whole, Cursor
<1>2. S \in SUBSET Obj /\ R \in SUBSET Obj /\ S \subseteq R
  OBVIOUS
<1> HIDE DEF R
<1>3. Marked(S) \subseteq R /\ Marked(S) \subseteq White
  BY <1>1, <1>2, MarkedClosed DEF Whole, Cursor
<1> QED
  BY <1>3 DEF R

\* It holds of an empty heap.
LEMMA GarbageInit == Init => GarbageInv
  BY DEF Init, GarbageInv, DoomedApart, Apart, DoomedWhite

(***************************************************************************)
(* The cycle begins: what the roots and the finalizers still to be called  *)
(* do not lead to is white and stays white.                                *)
(***************************************************************************)
LEMMA StartCycleGarbage == Whole /\ StartCycle => GarbageInv'
<1> SUFFICES ASSUME Whole, StartCycle PROVE GarbageInv'
  OBVIOUS
<1> DEFINE T == Roots \union Awaiting
           S == {Global} \union typeMetatables
           M == Marked(S)
           K == Reach(T, Obj)
<1>1. T \in SUBSET Obj /\ S \in SUBSET Obj /\ S \subseteq T
      /\ refs \in [Obj -> SUBSET Obj]
  BY HeldLive, GlobalType, KindsApart, ConstAssumption
  DEF Whole, Cursor, TypeOK, Roots, Awaiting
<1>2. T \subseteq K /\ K \in SUBSET Obj /\ \A p \in K : refs[p] \subseteq K
  BY <1>1, ReachLeast
<1>3. /\ color' = Shade(M) /\ doomed' = Allocated \ K
      /\ phase = "Pause" /\ phase' = "Propagate" /\ Roots' = Roots
      /\ UNCHANGED <<refs, finalized>>
  BY DEF StartCycle, MarkRoots, FirstRoots, Roots, rootVars, Garbage
<1> HIDE DEF K
<1>4. M \subseteq K /\ M \subseteq White
  BY <1>1, <1>2, MarkedClosed DEF Whole, Cursor
<1> HIDE DEF M
<1>5. \A o \in Obj : /\ color'[o] = "free" <=> color[o] = "free"
                     /\ o \notin M => color'[o] = color[o]
  BY <1>3, <1>4, MarkingFacts, ShadeFacts
<1>6. DoomedApart'
  BY <1>2, <1>3, <1>5 DEF DoomedApart, Apart, Allocated, Awaiting
<1>7. DoomedWhite'
  <2>1. \A o \in Allocated : color[o] = currentWhite
    BY <1>3 DEF Whole, Cursor, Settled, Allocated
  <2>2. \A o \in doomed' : o \in Obj /\ o \notin M /\ color[o] \in Whites
    BY <1>3, <1>4, <2>1, WhiteFacts DEF Allocated, Whole, Cursor
  <2>3. doomed' \subseteq White'
    BY <1>5, <2>2 DEF White
  <2> QED
    BY <1>3, <2>3 DEF DoomedWhite, Sweeping
<1> QED
  BY <1>6, <1>7 DEF GarbageInv

(***************************************************************************)
(* Marking in the Propagate phase, under a write of values of S.           *)
(***************************************************************************)
LEMMA MarkingGarbage ==
  ASSUME Whole, phase = "Propagate", phase' = "Propagate",
         NEW S \in SUBSET (Obj \ doomed),
         \A o \in Obj : \/ color'[o] = Shade(Marked(S))[o]
                        \/ /\ o \notin doomed
                           /\ color[o] # "free" /\ color'[o] # "free",
         \A o \in Obj : refs'[o] = refs[o] \/ refs'[o] \subseteq S,
         Roots' \subseteq Roots, UNCHANGED <<finalized, doomed>>
  PROVE  GarbageInv'
<1>1. Marked(S) \intersect doomed = {} /\ Marked(S) \subseteq White
  BY MarkedApart
<1>2. \A o \in Obj : color'[o] = "free" <=> color[o] = "free"
  BY <1>1, MarkingFacts
<1>3. \A o \in doomed : o \in Obj /\ color'[o] = color[o]
  BY <1>1, ShadeFacts DEF Whole, Cursor, TypeOK
<1>4. DoomedApart'
  <2>1. Roots' \intersect doomed = {}
    BY DEF DoomedApart, Apart, Whole, GarbageInv
  <2>2. \A d \in (Finalizable \ finalized) \intersect doomed : color'[d] = "free"
    BY <1>3 DEF DoomedApart, Apart, Whole, GarbageInv
  <2>3. \A o \in Obj \ doomed : color'[o] # "free" => refs'[o] \intersect doomed = {}
    BY <1>2 DEF DoomedApart, Apart, Whole, GarbageInv
  <2> QED
    BY <2>1, <2>2, <2>3 DEF DoomedApart, Apart
<1>5. DoomedWhite'
  BY <1>3 DEF DoomedWhite, Whole, GarbageInv, White, Sweeping
<1> QED
  BY <1>4, <1>5 DEF GarbageInv

\* Marking does not reach doomed objects.
LEMMA PropagateGarbage ==
  ASSUME Whole, PropagateMain \/ \E o \in Obj : PropagateOne(o)
  PROVE  GarbageInv'
<1>1. CASE PropagateMain
  <2>1. MainRoots \in SUBSET (Obj \ doomed)
    BY RootsApart DEF MainRoots, Roots
  <2>2. /\ phase = "Propagate" /\ phase' = "Propagate"
        /\ color' = Shade(Marked(MainRoots)) /\ Roots' = Roots
        /\ UNCHANGED <<refs, finalized, doomed>>
    BY <1>1 DEF PropagateMain, Roots, rootVars
  <2> QED
    BY <2>1, <2>2, MarkingGarbage
<1>2. ASSUME NEW o \in Obj, PropagateOne(o) PROVE GarbageInv'
  <2>1. /\ phase = "Propagate" /\ phase' = "Propagate" /\ o \in gray
        /\ color' = [Shade(Marked(refs[o])) EXCEPT ![o] = "black"]
        /\ Roots' = Roots /\ UNCHANGED <<refs, finalized, doomed>>
    BY <1>2 DEF PropagateOne, Roots, rootVars
  <2>2. color[o] \in {"gray", "black"}
    BY <2>1 DEF Whole, Tricolor, GrayListed
  <2>3. o \notin doomed
    BY <2>1, <2>2 DEF Whole, GarbageInv, DoomedWhite, White, Whites
  <2>4. refs[o] \in SUBSET (Obj \ doomed)
    BY <2>2, <2>3, RootsApart
  <2>5. \A p \in Obj : p # o => color'[p] = Shade(Marked(refs[o]))[p]
    BY <2>1, ShadeType DEF Whole, Cursor
  <2>6. color'[o] = "black"
    BY <2>1, ShadeType DEF Whole, Cursor
  <2> QED
    BY <2>1, <2>2, <2>3, <2>4, <2>5, <2>6, MarkingGarbage
<1> QED
  BY <1>1, <1>2

(***************************************************************************)
(* When marking is over everything reachable is marked or about to be by   *)
(* the second traversal of the threads.                                    *)
(***************************************************************************)
LEMMA AtomicReach ==
  ASSUME Cursor, Tricolor, phase = "Propagate", gray = {}
  PROVE  Reach(Roots, Obj) \subseteq
           (Obj \ White) \union Reach(MainRoots \union grayagain, grayagain \union White)
<1> DEFINE again == grayagain \union White
           live  == Reach(MainRoots \union grayagain, again)
           P     == Allocated \intersect ((Obj \ White) \union live)
<1>1. /\ MainRoots \union grayagain \in SUBSET Obj /\ again \in SUBSET Obj
      /\ refs \in [Obj -> SUBSET Obj] /\ Roots \in SUBSET Obj
  BY HeldLive, KindsApart DEF MainRoots, Cursor, TypeOK, White
<1>2. /\ MainRoots \union grayagain \subseteq live
      /\ \A p \in live \intersect again : refs[p] \subseteq live
  BY <1>1, ReachLeast
<1> HIDE DEF live
<1>3. ASSUME NEW o \in P PROVE refs[o] \subseteq P
  <2>1. o \in Obj /\ color[o] # "free" /\ refs[o] \subseteq Allocated
    BY DEF Tricolor, HeapLive, Live, Sweeping, Allocated, Cursor, TypeOK
  <2>2. CASE o \in again
    BY <1>2, <2>1, <2>2
  <2>3. CASE o \notin again
    <3>1. refs[o] \intersect White \subseteq live
      BY <1>2, <2>1, <2>3, UnlistedClosed DEF MainRoots
    <3> QED
      BY <2>1, <3>1 DEF Allocated
  <2> QED
    BY <2>2, <2>3
<1>4. Roots \subseteq P
  <2>1. \A o \in Roots : o \in Allocated
    BY HeldLive DEF Live, Allocated
  <2>2. tmudata = {}
    BY DEF Cursor, Pending
  <2>3. Roots \subseteq ({Global} \union typeMetatables) \union MainRoots
    BY <2>2 DEF Roots, MainRoots
  <2> QED
    BY <1>1, <1>2, <2>1, <2>3 DEF Tricolor, RootsMarked
<1>5. Reach(Roots, Obj) \subseteq P
  <2>1. P \in SUBSET Obj
    BY DEF Allocated
  <2> HIDE DEF P
  <2> QED
    BY <1>1, <1>3, <1>4, <2>1, ReachLeast
<1> QED
  BY <1>5 DEF live

(***************************************************************************)
(* The atomic step marks no garbage, so the flip condemns all of it.       *)
(***************************************************************************)
LEMMA AtomicGarbage ==
  ASSUME Whole, Atomic
  PROVE  /\ GarbageInv'
         /\ \A d \in tmudata' \ tmudata :
              d \notin Reach(Roots, Obj) /\ d \notin finalized
<1> DEFINE again  == grayagain \union White
           live   == Reach(MainRoots \union grayagain, again)
           dead   == ((Finalizable \ finalized) \intersect White) \ live
           kept   == Reach(tmudata \union dead, again \union tmudata)
           marked == Allocated \intersect ((Obj \ White) \union live \union kept)
           R      == Obj \ doomed
<1>1. /\ phase = "Propagate" /\ phase' = "SweepString"
      /\ color' = [o \in Obj |-> IF o \in marked THEN "black" ELSE color[o]]
      /\ tmudata' = tmudata \union dead /\ finalized' = finalized \union dead
      /\ currentWhite' = OtherWhite
      /\ UNCHANGED <<refs, rootVars, doomed>>
  BY DEF Atomic, DeadUserdata, Kept, NextWhite
<1>2. /\ MainRoots \union grayagain \in SUBSET Obj
      /\ tmudata \union dead \in SUBSET Obj
      /\ again \in SUBSET Obj /\ again \union tmudata \in SUBSET Obj
      /\ refs \in [Obj -> SUBSET Obj]
  BY KindsApart, ConstAssumption DEF MainRoots, Whole, Cursor, TypeOK, White
<1>3. tmudata = {}
  BY <1>1 DEF Whole, Cursor, Pending
<1>4. MainRoots \union grayagain \subseteq R
  <2>1. grayagain \intersect doomed = {}
    BY <1>1
    DEF Whole, GarbageInv, DoomedWhite, Tricolor, GrayListed, White, Whites
  <2> QED
    BY <1>2, <2>1, RootsApart DEF MainRoots, Roots
<1>5. \A p \in R \intersect again : refs[p] \subseteq R
  BY <1>1, RootsApart, WhiteFacts
  DEF Whole, Cursor, Tricolor, GrayListed, White
<1>6. dead \intersect doomed = {} /\ dead \subseteq White
  BY WhiteFacts DEF Whole, Cursor, GarbageInv, DoomedApart, Apart, White
<1> HIDE DEF dead
<1>7. live \subseteq R /\ kept \subseteq R
  <2>1. R \in SUBSET Obj
    OBVIOUS
  <2>2. tmudata \union dead \subseteq R
    BY <1>2, <1>3, <1>6
  <2> HIDE DEF R
  <2>3. live \subseteq R
    BY <1>2, <1>4, <1>5, <2>1, ReachLeast
  <2>4. kept \subseteq R
    BY <1>2, <1>3, <1>5, <2>1, <2>2, ReachLeast
  <2> QED
    BY <2>3, <2>4
<1>8. marked \intersect doomed = {} /\ marked \subseteq Allocated
  BY <1>1, <1>7 DEF Whole, GarbageInv, DoomedWhite
<1> HIDE DEF marked
<1>9. \A o \in Obj : color'[o] = "free" <=> color[o] = "free"
  BY <1>1, <1>8 DEF Allocated
<1>10. \A o \in doomed : o \in Obj /\ color'[o] = color[o]
  BY <1>1, <1>8 DEF Whole, Cursor, TypeOK
<1>11. DoomedApart'
  <2>1. Roots' \intersect doomed = {}
    BY <1>1, <1>3, <1>6
    DEF Roots, rootVars, Whole, GarbageInv, DoomedApart, Apart
  <2> QED
    BY <1>1, <1>9, <1>10, <2>1 DEF DoomedApart, Apart, Whole, GarbageInv
<1>12. DoomedWhite'
  <2>1. OtherWhite' = currentWhite
    BY <1>1, WhiteFacts DEF OtherWhite, Whites, Whole, Cursor
  <2>2. \A o \in doomed : color[o] = currentWhite
    BY <1>1, WhiteFacts
    DEF Whole, Cursor, Tricolor, RootsMarked, GarbageInv, DoomedWhite, White
  <2> QED
    BY <1>1, <1>10, <2>1, <2>2 DEF DoomedWhite, Sweeping
<1>13. Reach(Roots, Obj) \subseteq (Obj \ White) \union live
  BY <1>1, <1>3, AtomicReach DEF Whole, live, Atomic
<1>14. \A d \in dead : d \notin Reach(Roots, Obj) /\ d \notin finalized
  BY <1>6, <1>13 DEF dead
<1> QED
  BY <1>1, <1>11, <1>12, <1>14 DEF GarbageInv

\* Sweeping a batch frees what is doomed in it.
LEMMA SweepGarbage ==
  ASSUME Whole, NEW B, B \subseteq unswept, SweepBatch(B), Sweeping,
         Sweeping' \/ (phase' = "Finalize" /\ Settled'),
         Roots' = Roots, UNCHANGED <<currentWhite, doomed>>
  PROVE  GarbageInv'
<1>1. \A o \in Obj : color'[o] = IF o \in B
                                 THEN IF color[o] = OtherWhite THEN "free"
                                      ELSE currentWhite
                                 ELSE color[o]
  BY DEF SweepBatch
<1>2. \A o \in Obj : refs'[o] = IF o \in B /\ color[o] = OtherWhite THEN {}
                                ELSE refs[o]
  BY DEF SweepBatch
<1>3. \A d \in finalized : d \notin finalized' => color'[d] = "free"
  <2>1. finalized' = finalized \ {o \in B : color[o] = OtherWhite}
    BY DEF SweepBatch
  <2> QED
    BY <1>1, <2>1, KindsApart DEF Whole, Cursor, TypeOK
<1>4. \A o \in doomed : o \in Obj /\ color[o] \in {"free", OtherWhite}
  BY DEF Whole, GarbageInv, DoomedWhite, Cursor, TypeOK
<1>5. \A o \in B : color[o] # "free"
  BY DEF Whole, Cursor, Settled, Allocated
<1>6. \A o \in doomed : color'[o] \in {"free", OtherWhite}
  BY <1>1, <1>4, <1>5
<1>7. OtherWhite' = OtherWhite
  BY DEF OtherWhite
<1>8. DoomedApart'
  <2>1. \A d \in (Finalizable \ finalized') \intersect doomed : color'[d] = "free"
    BY <1>1, <1>3, <1>4, <1>5 DEF Whole, GarbageInv, DoomedApart, Apart
  <2>2. \A o \in Obj \ doomed : color'[o] # "free" => refs'[o] \intersect doomed = {}
    BY <1>1, <1>2, <1>5 DEF Whole, GarbageInv, DoomedApart, Apart
  <2> QED
    BY <2>1, <2>2 DEF Whole, GarbageInv, DoomedApart, Apart
<1>9. CASE Sweeping'
  BY <1>6, <1>7, <1>8, <1>9 DEF GarbageInv, DoomedWhite, Sweeping
<1>10. CASE phase' = "Finalize" /\ Settled'
  <2>1. \A o \in doomed : color'[o] = "free"
    BY <1>4, <1>6, <1>10, WhiteFacts DEF Settled, Whole, Cursor
  <2> QED
    BY <1>8, <1>10, <2>1 DEF GarbageInv, DoomedWhite, Sweeping
<1> QED
  BY <1>9, <1>10

\* Every step of the collector keeps it.
LEMMA SingleStepGarbage == Whole /\ SingleStep => GarbageInv'
<1> SUFFICES ASSUME Whole, SingleStep PROVE GarbageInv'
  OBVIOUS
<1>1. CASE SweepStrings
  <2>1. PICK B \in Batches(Strings) : SweepBatch(B)
    BY <1>1 DEF SweepStrings
  <2>2. B \subseteq unswept
    BY DEF Batches
  <2>3. /\ UNCHANGED <<currentWhite, doomed>> /\ Roots' = Roots
        /\ Sweeping /\ Sweeping'
    BY <1>1 DEF SweepStrings, Sweeping, Roots, rootVars
  <2> QED
    BY <2>1, <2>2, <2>3, SweepGarbage
<1>2. CASE SweepOther
  <2>1. PICK B \in Batches(Arenas[arena]) : SweepBatch(B)
    BY <1>2 DEF SweepOther
  <2>2. B \subseteq unswept
    BY DEF Batches
  <2>3. /\ UNCHANGED <<currentWhite, doomed>> /\ Roots' = Roots
        /\ Sweeping /\ (Sweeping' \/ phase' = "Finalize")
    BY <1>2 DEF SweepOther, Sweeping, Roots, rootVars
  <2>4. Settled'
    BY CursorSingleStep DEF Whole, Cursor
  <2> QED
    BY <2>1, <2>2, <2>3, <2>4, SweepGarbage
<1>3. ASSUME NEW d \in Userdata, CallFinalizer(d) PROVE GarbageInv'
  BY <1>3
  DEF CallFinalizer, Roots, heapVars, Whole, GarbageInv, DoomedApart, Apart, DoomedWhite,
      Sweeping
<1>4. CASE EndCycle
  BY <1>4
  DEF EndCycle, Roots, heapVars, rootVars, Whole, GarbageInv, DoomedApart, Apart,
      DoomedWhite, Sweeping
<1> QED
  BY <1>1, <1>2, <1>3, <1>4, StartCycleGarbage, PropagateGarbage, AtomicGarbage
  DEF SingleStep

-----------------------------------------------------------------------------
(***************************************************************************)
(* The program's operations.                                               *)
(***************************************************************************)

(***************************************************************************)
(* Values the program holds are not garbage, so writing them, anywhere,    *)
(* makes none reachable.                                                   *)
(***************************************************************************)
LEMMA RewriteGarbage ==
  ASSUME Whole, UNCHANGED <<phase, currentWhite, finalized, doomed>>,
         \A o \in Obj : \/ color'[o] = color[o]
                        \/ color[o] # "free" /\ color'[o] # "free" /\ o \notin doomed,
         \A o \in Obj : \A c \in refs'[o] : c \in refs[o] \/ c \notin doomed,
         Roots' \intersect doomed = {}
  PROVE  GarbageInv'
<1>1. \A o \in doomed : o \in Obj /\ color'[o] = color[o]
  BY DEF Whole, Cursor, TypeOK
<1>2. \A o \in Obj : color'[o] = "free" <=> color[o] = "free"
  OBVIOUS
<1>3. DoomedApart'
  BY <1>1, <1>2 DEF Whole, GarbageInv, DoomedApart, Apart
<1>4. DoomedWhite'
  BY <1>1 DEF Whole, GarbageInv, DoomedWhite, White, Sweeping, OtherWhite
<1> QED
  BY <1>3, <1>4 DEF GarbageInv

\* New objects are not doomed, nor do they refer to what is.
LEMMA OccupyGarbage ==
  ASSUME Whole, NEW S \in SUBSET Obj, NEW r \in [S -> SUBSET Obj],
         Occupy(S, r), \A o \in S : Fresh(o),
         \A o \in S : r[o] \intersect (doomed \ S) = {},
         \A o \in Roots' : o \in S \/ o \in Roots,
         UNCHANGED <<phase, currentWhite, finalized>>
  PROVE  GarbageInv'
<1>1. /\ \A o \in Obj : color'[o] = IF o \in S THEN currentWhite ELSE color[o]
      /\ \A o \in Obj : refs'[o] = IF o \in S THEN r[o] ELSE refs[o]
      /\ doomed' = doomed \ S
  BY DEF Occupy, NewWhite
<1>2. DoomedApart'
  <2>1. Roots' \intersect doomed' = {}
    BY <1>1 DEF Whole, GarbageInv, DoomedApart, Apart
  <2>2. \A d \in (Finalizable \ finalized') \intersect doomed' : color'[d] = "free"
    BY <1>1 DEF Whole, GarbageInv, DoomedApart, Apart, Cursor, TypeOK
  <2>3. \A o \in Obj \ doomed' : color'[o] # "free" => refs'[o] \intersect doomed' = {}
    BY <1>1 DEF Whole, GarbageInv, DoomedApart, Apart
  <2> QED
    BY <2>1, <2>2, <2>3 DEF DoomedApart, Apart
<1>3. DoomedWhite'
  <2>1. \A o \in doomed' : o \in Obj /\ o \in doomed /\ color'[o] = color[o]
    BY <1>1 DEF Whole, Cursor, TypeOK
  <2> QED
    BY <2>1 DEF Whole, GarbageInv, DoomedWhite, White, Sweeping, OtherWhite
<1> QED
  BY <1>2, <1>3 DEF GarbageInv

\* The writes of the program keep it.
LEMMA HeapOpsGarbage == Whole /\ HeapOps => GarbageInv'
<1> SUFFICES ASSUME Whole, HeapOps PROVE GarbageInv'
  OBVIOUS
<1>0. /\ Roots \intersect doomed = {} /\ stack \subseteq Roots /\ open \subseteq Roots
      /\ Held \subseteq Roots /\ Roots \subseteq Obj
      /\ \A o \in Roots : color[o] # "free" /\ refs[o] \intersect doomed = {}
  BY RootsApart, HeldLive DEF Roots, Held, Whole
<1>1. ASSUME NEW o \in Obj, NEW R \in SUBSET stack, Alloc(o, R) PROVE GarbageInv'
  <2> DEFINE r == [x \in {o} |-> R]
  <2>1. r \in [{o} -> SUBSET Obj] /\ \A x \in {o} : r[x] \intersect (doomed \ {o}) = {}
    BY <1>0
  <2>2. Occupy({o}, r) /\ \A x \in {o} : Fresh(x)
    BY <1>1 DEF Alloc
  <2>3. /\ \A x \in Roots' : x \in {o} \/ x \in Roots
        /\ UNCHANGED <<phase, currentWhite, finalized>>
    BY <1>1 DEF Alloc, Push, Roots, gcRest
  <2> HIDE DEF r
  <2> QED
    BY <2>1, <2>2, <2>3, OccupyGarbage
<1>2. ASSUME NEW c \in Closures, NEW U \in SUBSET Upvalues, MakeClosure(c, U)
      PROVE  GarbageInv'
  <2> DEFINE S == {u \in U : Fresh(u)} \union {c}
             r == [x \in S |-> IF x = c THEN U ELSE {}]
  <2>1. S \in SUBSET Obj /\ r \in [S -> SUBSET Obj]
    BY KindsApart
  <2>2. Occupy(S, r) /\ \A x \in S : Fresh(x)
    BY <1>2 DEF MakeClosure
  <2>3. \A x \in Content(stack \intersect Closures) : x \notin doomed
    BY <1>0, ContentHas
  <2>4. \A u \in U : u \in S \/ u \notin doomed
    BY <1>0, <1>2, <2>3 DEF MakeClosure
  <2>5. \A x \in S : r[x] \intersect (doomed \ S) = {}
    BY <2>4
  <2>6. /\ \A x \in Roots' : x \in S \/ x \in Roots
        /\ UNCHANGED <<phase, currentWhite, finalized>>
    BY <1>2 DEF MakeClosure, Push, Roots, gcRest
  <2> HIDE DEF S, r
  <2> QED
    BY <2>1, <2>2, <2>5, <2>6, OccupyGarbage
<1>3. ASSUME NEW v \in Obj, Load(v) PROVE GarbageInv'
  <2>1. \A o \in Held : \A x \in refs[o] : x \in Obj \ doomed /\ color[x] # "free"
    <3>1. \A o \in Held : \A x \in refs[o] : Live(x)
      BY HeldLive DEF Whole
    <3> QED
      BY <1>0, <3>1, HeldLive DEF Live, Whole
  <2>2. \A o \in Held : \A x \in Readable(o) : x \notin doomed
    BY <2>1, ContentHas, RootsApart DEF Readable
  <2>3. v \notin doomed
    BY <1>0, <1>3, <2>2 DEF Load, Roots
  <2>4. Roots' \intersect doomed = {}
    BY <1>0, <1>3, <2>3 DEF Load, Push, Roots, gcRest
  <2> QED
    BY <1>3, <2>4, RewriteGarbage DEF Load, heapVars, gcRest
<1>4. ASSUME NEW v \in stack, Drop(v) PROVE GarbageInv'
  <2>1. Roots' \intersect doomed = {}
    BY <1>0, <1>4 DEF Drop, Roots, gcRest
  <2> QED
    BY <1>4, <2>1, RewriteGarbage DEF Drop, heapVars, gcRest
<1>5. ASSUME NEW t \in Held \intersect Tables, NEW old \in ValuesOf(refs[t]),
             NEW new \in ValuesOf(Held), TableSet(t, old, new)
      PROVE  GarbageInv'
  <2>1. new \intersect doomed = {} /\ t \in Obj \ doomed
    BY <1>0 DEF ValuesOf
  <2>2. \A o \in Obj : \A c \in refs'[o] : c \in refs[o] \/ c \notin doomed
    BY <1>5, <2>1 DEF TableSet, Write, Whole, Cursor, TypeOK
  <2>3. \A o \in Obj : \/ color'[o] = color[o]
                       \/ color[o] # "free" /\ color'[o] # "free" /\ o \notin doomed
    BY <1>5, <2>1 DEF TableSet, BarrierBack, Whole, Cursor, TypeOK
  <2>4. Roots' = Roots /\ UNCHANGED <<phase, currentWhite, finalized, doomed>>
    BY <1>5 DEF TableSet, Roots, rootVars, gcRest
  <2> QED
    BY <1>0, <2>2, <2>3, <2>4, RewriteGarbage
<1>6. ASSUME NEW u \in Upvalues, NEW V \in SUBSET (Obj \ doomed), BarrierForward(u, V),
             \A o \in Obj : refs'[o] = refs[o] \/ refs'[o] \subseteq V,
             Roots' \subseteq Roots,
             UNCHANGED <<phase, currentWhite, finalized, doomed>>
      PROVE  GarbageInv'
  <2>1. CASE phase = "Propagate" /\ color[u] = "black"
    <3>1. \A o \in Obj : color'[o] = Shade(Marked(V))[o]
      BY <1>6, <2>1 DEF BarrierForward
    <3>2. /\ phase' = "Propagate" /\ Roots' \subseteq Roots
          /\ UNCHANGED <<finalized, doomed>>
          /\ \A o \in Obj : refs'[o] = refs[o] \/ refs'[o] \subseteq V
      BY <1>6, <2>1
    <3> QED
      BY <2>1, <3>1, <3>2, MarkingGarbage
  <2>2. CASE ~(phase = "Propagate" /\ color[u] = "black")
    <3>1. color' = color
      BY <1>6, <2>2 DEF BarrierForward
    <3> QED
      BY <1>0, <1>6, <3>1, RewriteGarbage
  <2> QED
    BY <2>1, <2>2
<1>7. ASSUME NEW u \in Upvalues, NEW V \in ValuesOf(Held), SetUpvalue(u, V)
      PROVE  GarbageInv'
  <2>1. V \in SUBSET (Obj \ doomed)
    BY <1>0 DEF ValuesOf
  <2>2. \A o \in Obj : refs'[o] = refs[o] \/ refs'[o] \subseteq V
    BY <1>7 DEF SetUpvalue, Write, Whole, Cursor, TypeOK
  <2>3. Roots' = Roots /\ UNCHANGED <<phase, currentWhite, finalized, doomed>>
    BY <1>7 DEF SetUpvalue, Roots, rootVars, gcRest
  <2> QED
    BY <1>6, <1>7, <2>1, <2>2, <2>3 DEF SetUpvalue
<1>8. ASSUME NEW u \in open, NEW V \in ValuesOf(stack), CloseUpvalue(u, V)
      PROVE  GarbageInv'
  <2>1. V \in SUBSET (Obj \ doomed) /\ u \in Upvalues
    BY <1>0 DEF ValuesOf, Whole, Cursor, TypeOK
  <2>2. \A o \in Obj : refs'[o] = refs[o] \/ refs'[o] \subseteq V
    BY <1>8 DEF CloseUpvalue, Write, Whole, Cursor, TypeOK
  <2>3. Roots' \subseteq Roots /\ UNCHANGED <<phase, currentWhite, finalized, doomed>>
    BY <1>8 DEF CloseUpvalue, Roots, gcRest
  <2> QED
    BY <1>6, <1>8, <2>1, <2>2, <2>3 DEF CloseUpvalue
<1> QED
  BY <1>0, <1>1, <1>2, <1>3, <1>4, <1>5, <1>7, <1>8 DEF HeapOps

\* So do the writes without a barrier.
LEMMA UnbarrieredGarbage == Whole /\ UnbarrieredWrites => GarbageInv'
<1> SUFFICES ASSUME Whole, UnbarrieredWrites PROVE GarbageInv'
  OBVIOUS
<1>0. /\ Roots \intersect doomed = {} /\ stack \subseteq Roots
      /\ Held \subseteq Roots /\ Roots \subseteq Obj
  BY RootsApart, HeldLive DEF Roots, Held, Whole
<1>1. ASSUME NEW op, NEW o, NEW old, NEW new, \A c \in new : c \in refs[o] \/ c \in Held,
             Unbarred(op, o, old, new)
      PROVE  GarbageInv'
  <2>1. /\ UNCHANGED <<color, phase, currentWhite, finalized, doomed>> /\ Roots' = Roots
        /\ refs' = [refs EXCEPT ![o] = (refs[o] \ old) \union new]
    BY <1>1 DEF Unbarred, Write, Roots, rootVars, gcRest
  <2>2. \A p \in Obj : \A c \in refs'[p] : c \in refs[p] \/ c \notin doomed
    BY <1>0, <1>1, <2>1 DEF Whole, Cursor, TypeOK
  <2> QED
    BY <1>0, <2>1, <2>2, RewriteGarbage
<1>2. ASSUME NEW mt \in ValuesOf(Held), SetTypeMetatable(mt) PROVE GarbageInv'
  <2>1. mt \subseteq Held
    BY DEF ValuesOf
  <2>2. UNCHANGED <<color, refs, phase, currentWhite, finalized, doomed>>
        /\ Roots' \intersect doomed = {}
    BY <1>0, <1>2, <2>1 DEF SetTypeMetatable, heapVars, gcRest, Roots
  <2> QED
    BY <2>2, RewriteGarbage
<1>3. ASSUME NEW o \in Held, NEW old, NEW new \in ValuesOf(refs[o] \union Held),
             SetFenv(o, old, new) \/ DebugSetMetatable(o, old, new)
               \/ TableSetOverLimit(o, old, new)
      PROVE  GarbageInv'
  <2>1. \A c \in new : c \in refs[o] \/ c \in Held
    BY DEF ValuesOf
  <2> QED
    BY <1>1, <1>3, <2>1 DEF SetFenv, DebugSetMetatable, TableSetOverLimit
<1>4. ASSUME NEW u \in Upvalues, NEW V \in ValuesOf(Held), DebugSetUpvalue(u, V)
      PROVE  GarbageInv'
  <2>1. \A c \in V : c \in refs[u] \/ c \in Held
    BY DEF ValuesOf
  <2> QED
    BY <1>1, <1>4, <2>1 DEF DebugSetUpvalue
<1> QED
  BY <1>2, <1>3, <1>4 DEF UnbarrieredWrites

\* So does the swap of threads.
LEMMA CoroutineGarbage == Whole /\ CoroutineOps => GarbageInv'
<1> SUFFICES ASSUME Whole, CoroutineOps PROVE GarbageInv'
  OBVIOUS
<1>0. /\ Roots \intersect doomed = {}
      /\ stack \union open \union saved \union parked \subseteq Roots
      /\ \A o \in Roots : /\ o \in Obj /\ color[o] # "free"
                          /\ refs[o] \intersect doomed = {}
  BY RootsApart, HeldLive DEF Roots, Whole
<1>1. ASSUME NEW co \in stack \intersect Threads, NEW args \in SUBSET stack,
             NEW captured \in Captures(open, stack), Resume(co, args, captured)
      PROVE  GarbageInv'
  <2> DEFINE suspended == refs[co] \intersect Upvalues
  <2>1. \A u \in open : captured[u] \subseteq stack
    BY ValuesType DEF Captures, Whole, Cursor, TypeOK
  <2>2. /\ \A o \in Obj : refs'[o] = IF o \in open THEN captured[o]
                                     ELSE IF o \in suspended \union {co} THEN {}
                                     ELSE refs[o]
        /\ saved' = stack /\ parked' = open /\ open' = suspended
        /\ stack' = (refs[co] \ Upvalues) \union Content(suspended) \union args
        /\ UNCHANGED <<color, phase, currentWhite, finalized, doomed,
                       typeMetatables, tmudata>>
    BY <1>1 DEF Resume, gcRest
  <2>3. refs[co] \intersect doomed = {} /\ \A c \in refs[co] : Live(c)
    BY <1>0, HeldLive DEF Whole
  <2>4. Content(suspended) \intersect doomed = {}
    <3>1. \A u \in suspended : refs[u] \intersect doomed = {}
      BY <2>3, RootsApart, KindsApart DEF Live
    <3> QED
      BY <3>1, ContentHas
  <2>5. \A o \in Obj : \A c \in refs'[o] : c \in refs[o] \/ c \notin doomed
    BY <1>0, <2>1, <2>2
  <2> HIDE DEF suspended
  <2>6. stack' \intersect doomed = {} /\ open' \intersect doomed = {}
    BY <1>0, <2>2, <2>3, <2>4 DEF suspended
  <2>7. Roots' \intersect doomed = {}
    BY <1>0, <2>2, <2>6 DEF Roots
  <2> QED
    BY <2>2, <2>5, <2>7, RewriteGarbage
<1>2. ASSUME NEW kept \in SUBSET stack, NEW passed \in SUBSET stack,
             NEW captured \in Captures(open, kept), Suspend(kept, passed, captured)
      PROVE  GarbageInv'
  <2>1. \A u \in open : captured[u] \subseteq kept
    BY ValuesType DEF Captures, Whole, Cursor, TypeOK
  <2>2. /\ \A o \in Obj : refs'[o] = IF o = current THEN kept \union open
                                     ELSE IF o \in open THEN captured[o]
                                     ELSE IF o \in parked THEN {} ELSE refs[o]
        /\ saved' = {} /\ parked' = {} /\ open' = parked
        /\ stack' = saved \union passed \union Content(parked)
        /\ UNCHANGED <<color, phase, currentWhite, finalized, doomed,
                       typeMetatables, tmudata>>
    BY <1>2 DEF Suspend, gcRest
  <2>3. Content(parked) \intersect doomed = {}
    BY <1>0, ContentHas
  <2>4. Roots' \intersect doomed = {}
    BY <1>0, <2>2, <2>3 DEF Roots
  <2>5. \A o \in Obj : \A c \in refs'[o] : c \in refs[o] \/ c \notin doomed
    BY <1>0, <2>1, <2>2
  <2> QED
    BY <2>2, <2>4, <2>5, RewriteGarbage
<1> QED
  BY <1>1, <1>2 DEF CoroutineOps

-----------------------------------------------------------------------------
\* It holds while nothing happens.
LEMMA WholeSame ==
  ASSUME Whole, UNCHANGED vars
  PROVE  Whole'
<1>1. Cursor'
  BY DEF Whole, Cursor, TypeOK, Settled, Pending, Sweeping, Allocated,
         vars, heapVars, rootVars, gcVars
<1>2. Tricolor'
  BY DEF Whole, Tricolor, RootsLive, HeapLive, BlackClosed, GrayListed,
         RootsMarked, Live, Sweeping, Roots, White, OtherWhite,
         vars, heapVars, rootVars, gcVars
<1>3. GarbageInv'
  BY DEF Whole, GarbageInv, DoomedApart, Apart, DoomedWhite, Roots, White, Sweeping,
         OtherWhite, vars, heapVars, rootVars, gcVars
<1> QED
  BY <1>1, <1>2, <1>3 DEF Whole

(***************************************************************************)
(* What a step of the collector or of a barriered program preserves.       *)
(***************************************************************************)
LEMMA WholeStep == Barriered /\ Whole /\ [Next]_vars => Whole'
<1> SUFFICES ASSUME Barriered, Whole, [Next]_vars PROVE Whole'
  OBVIOUS
<1>1. CASE UNCHANGED vars
  BY <1>1, WholeSame
<1>2. CASE SingleStep
  BY <1>2, TypeSingleStep, CursorSingleStep, SingleStepSafe, SingleStepGarbage
  DEF Whole, Cursor
<1>3. CASE Program
  <2>1. TypeOK'
    BY <1>3, TypeHeapOps, TypeUnbarriered, TypeCoroutineOps DEF Whole, Cursor, Program
  <2>2. GarbageInv'
    BY <1>3, HeapOpsGarbage, UnbarrieredGarbage, CoroutineGarbage DEF Program
  <2> QED
    BY <1>3, <2>1, <2>2, CursorProgram, ProgramSafe DEF Whole, Cursor
<1> QED
  BY <1>1, <1>2, <1>3 DEF Next

\* All invariants hold at the beginning.
LEMMA WholeInit == Init => Whole
  BY TypeInit, CursorInit, TricolorInit, GarbageInit DEF Whole, Cursor

\* All invariants hold together.
LEMMA WholeInvariant == Barriered => (Spec => []Whole)
<1> SUFFICES ASSUME Barriered PROVE Spec => []Whole
  OBVIOUS
<1> QED
  BY WholeInit, WholeStep, PTL DEF Spec

(***************************************************************************)
(* Collection is complete, cycle by cycle: an object that nothing refers   *)
(* to when mark_roots runs is free when the sweep of that cycle is over.   *)
(***************************************************************************)
THEOREM GarbageReclaimed == Barriered => (Spec => []Reclaimed)
<1> SUFFICES ASSUME Barriered PROVE Spec => []Reclaimed
  OBVIOUS
<1>1. Whole => Reclaimed
  BY DEF Whole, GarbageInv, DoomedWhite, Reclaimed, Allocated
<1> QED
  BY <1>1, WholeInvariant, PTL

(***************************************************************************)
(* The program leaves the collector's own state alone.                     *)
(***************************************************************************)
LEMMA ProgramRest == Program => UNCHANGED gcRest
<1>1. HeapOps => UNCHANGED gcRest
  BY DEF HeapOps, Alloc, MakeClosure, Load, Drop, TableSet, SetUpvalue,
         CloseUpvalue
<1>2. UnbarrieredWrites => UNCHANGED gcRest
  BY DEF UnbarrieredWrites, SetFenv, DebugSetMetatable, TableSetOverLimit,
         DebugSetUpvalue, SetTypeMetatable, Unbarred
<1>3. CoroutineOps => UNCHANGED gcRest
  BY DEF CoroutineOps, Resume, Suspend
<1> QED
  BY <1>1, <1>2, <1>3 DEF Program

Spared == \A d \in tmudata' \ tmudata :
            d \notin Reach(Roots, Obj) /\ d \notin finalized

\* A step calls a finalizer for garbage only.
LEMMA StepSpares == Whole /\ [Next]_vars => Spared
<1>1. tmudata' \subseteq tmudata => Spared
  BY DEF Spared
<1>2. SingleStep /\ ~Atomic => tmudata' \subseteq tmudata
  BY DEF SingleStep, StartCycle, MarkRoots, PropagateOne, PropagateMain,
         SweepStrings, SweepOther, CallFinalizer, EndCycle
<1>3. UNCHANGED gcRest \/ UNCHANGED vars => tmudata' = tmudata
  BY DEF gcRest, vars, gcVars
<1>4. Whole /\ Atomic => Spared
  BY AtomicGarbage DEF Spared
<1> QED
  BY <1>1, <1>2, <1>3, <1>4, ProgramRest DEF Next

(***************************************************************************)
(* A userdata enters the finalizer queue only when it is out of the        *)
(* program's reach and only if it was never queued before.                 *)
(***************************************************************************)
THEOREM FinalizersSpare == Barriered => (Spec => OnlyGarbageFinalized)
<1> SUFFICES ASSUME Barriered PROVE Spec => OnlyGarbageFinalized
  OBVIOUS
<1>1. Whole /\ [Next]_vars => [Spared]_vars
  BY StepSpares
<1>2. Spec => [][Spared]_vars
  BY <1>1, WholeInvariant, PTL DEF Spec
<1> QED
  BY <1>2, PTL DEF OnlyGarbageFinalized, Spared
=============================================================================
