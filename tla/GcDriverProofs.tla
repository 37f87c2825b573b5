--------------------------- MODULE GcDriverProofs ---------------------------
(***************************************************************************)
(* Proofs about the drivers of the collector: the lock of gc_step, and the *)
(* safety of the heap when finalizers run the program, call the collector  *)
(* and fail inside the loops that called them.                             *)
(***************************************************************************)
EXTENDS GcDriver, CollectorProofs, SequenceTheorems

-----------------------------------------------------------------------------
(***************************************************************************)
(* The call stack: a driver, and above each driver the finalizer it calls, *)
(* if any.  With NeverLocked this is inductive: it shows that an error of  *)
(* a finalizer leaves exactly one driver, and gc_step only if it is the    *)
(* one that holds the lock.                                                *)
(***************************************************************************)
Drivers == {"step", "finish", "cycle"}

Nested(c) ==
  /\ c \in Seq(Drivers \union {"gc"})
  /\ Len(c) > 0 => c[1] # "gc"
  /\ \A i \in 2..Len(c) : c[i] = "gc" <=> c[i - 1] # "gc"

Locks(c, lock) ==
  /\ lock \in BOOLEAN
  /\ lock <=> \E i \in 1..Len(c) : c[i] = "step"
  /\ \A i \in 1..Len(c) :
       c[i] = "step" => \A j \in (i + 1)..Len(c) : c[j] = "gc"

LockInv == Nested(calls) /\ Locks(calls, gcRunning)

\* A call stack with one more entry.
LEMMA PushIs ==
  ASSUME NEW S, NEW s \in Seq(S), NEW e \in S
  PROVE  /\ Append(s, e) \in Seq(S) /\ Append(s, e) # <<>>
         /\ Len(Append(s, e)) = Len(s) + 1 /\ Len(s) \in Nat
         /\ Append(s, e)[Len(s) + 1] = e
         /\ \A i \in 1..Len(s) : Append(s, e)[i] = s[i]
  OBVIOUS

\* The first entries of a call stack.
LEMMA CutIs ==
  ASSUME NEW S, NEW s \in Seq(S), NEW n \in 0..Len(s)
  PROVE  /\ SubSeq(s, 1, n) \in Seq(S) /\ Len(SubSeq(s, 1, n)) = n
         /\ \A i \in 1..n : SubSeq(s, 1, n)[i] = s[i]
  BY SMT

\* A call stack without its last entry.
LEMMA FrontIs ==
  ASSUME NEW S, NEW s \in Seq(S), s # <<>>
  PROVE  /\ Front(s) \in Seq(S) /\ Len(Front(s)) = Len(s) - 1
         /\ Len(s) \in Nat /\ Len(s) >= 1
         /\ Last(s) = s[Len(s)]
         /\ \A i \in 1..Len(s) - 1 : Front(s)[i] = s[i]
<1>1. Len(s) \in Nat /\ Len(s) >= 1
  OBVIOUS
<1>2. Last(s) = s[Len(s)]
  BY DEF Last
<1>3. Front(s) = SubSeq(s, 1, Len(s) - 1)
  BY DEF Front
<1>4. Len(s) - 1 \in 0..Len(s)
  BY <1>1
<1>5. /\ SubSeq(s, 1, Len(s) - 1) \in Seq(S)
      /\ Len(SubSeq(s, 1, Len(s) - 1)) = Len(s) - 1
      /\ \A i \in 1..Len(s) - 1 : SubSeq(s, 1, Len(s) - 1)[i] = s[i]
  BY <1>4, CutIs
<1> QED
  BY <1>1, <1>2, <1>3, <1>5

\* What is on a list.
LEMMA RangeHas ==
  ASSUME NEW S, NEW s \in Seq(S), NEW e
  PROVE  e \in Range(s) <=> \E i \in 1..Len(s) : s[i] = e
  BY DEF Range

\* The lock is held by a gc_step on the stack, and by no other.
LEMMA LockInvHas == LockInv => NeverLocked
<1> SUFFICES ASSUME LockInv PROVE NeverLocked
  OBVIOUS
<1>1. "step" \in Range(calls) <=> \E i \in 1..Len(calls) : calls[i] = "step"
  BY RangeHas DEF LockInv, Nested
<1> QED
  BY <1>1 DEF LockInv, Locks, NeverLocked

\* An empty stack holds no lock.
LEMMA LockDone == Nested(<<>>) /\ Locks(<<>>, FALSE)
  BY DEF Nested, Locks

(***************************************************************************)
(* A driver begins where the program has its turn; no gc_step is running.  *)
(***************************************************************************)
LEMMA LockBegin ==
  ASSUME NEW c, NEW d \in Drivers, Nested(c), Locks(c, FALSE),
         c = <<>> \/ Last(c) = "gc"
  PROVE  LET b == Append(c, d)
         IN  Nested(b) /\ Locks(b, d = "step") /\ b # <<>> /\ Last(b) = d
<1> DEFINE b == Append(c, d)
<1>1. /\ b \in Seq(Drivers \union {"gc"}) /\ b # <<>>
      /\ Len(b) = Len(c) + 1 /\ Len(c) \in Nat /\ b[Len(c) + 1] = d
      /\ \A i \in 1..Len(c) : b[i] = c[i]
  BY PushIs DEF Nested
<1>2. Last(b) = d /\ (Len(c) > 0 => c[Len(c)] = "gc")
  <2>1. Last(b) = b[Len(b)] /\ (c = <<>> => Len(c) = 0) /\ Last(c) = c[Len(c)]
    BY <1>1 DEF Last
  <2> QED
    BY <1>1, <2>1
<1>3. d # "gc"
  BY DEF Drivers
<1> HIDE DEF b
<1>4. Nested(b)
  BY <1>1, <1>2, <1>3 DEF Nested
<1>5. Locks(b, d = "step")
  BY <1>1 DEF Locks
<1> QED
  BY <1>1, <1>2, <1>4, <1>5 DEF b

(***************************************************************************)
(* A driver calls a finalizer.                                             *)
(***************************************************************************)
LEMMA LockCall ==
  ASSUME NEW c, NEW lock, Nested(c), Locks(c, lock), c # <<>>, Last(c) # "gc"
  PROVE  Nested(Append(c, "gc")) /\ Locks(Append(c, "gc"), lock)
<1> DEFINE b == Append(c, "gc")
<1>1. /\ b \in Seq(Drivers \union {"gc"})
      /\ Len(b) = Len(c) + 1 /\ Len(c) \in Nat /\ b[Len(c) + 1] = "gc"
      /\ \A i \in 1..Len(c) : b[i] = c[i]
  BY PushIs DEF Nested
<1>2. Len(c) >= 1 /\ c[Len(c)] # "gc"
  BY FrontIs DEF Nested
<1> HIDE DEF b
<1>3. Nested(b)
  BY <1>1, <1>2 DEF Nested
<1>4. Locks(b, lock)
  BY <1>1 DEF Locks
<1> QED
  BY <1>3, <1>4 DEF b

(***************************************************************************)
(* The last entry returns: gc_step with its lock, any other without.       *)
(***************************************************************************)
LEMMA LockReturn ==
  ASSUME NEW c, NEW lock, Nested(c), Locks(c, lock), c # <<>>
  PROVE  /\ Nested(Front(c))
         /\ Last(c) = "step" => Locks(Front(c), FALSE)
         /\ Last(c) # "step" => Locks(Front(c), lock)
         /\ Last(c) = "gc" => Front(c) # <<>> /\ Last(Front(c)) # "gc"
         /\ Last(c) # "gc" => Front(c) = <<>> \/ Last(Front(c)) = "gc"
<1> DEFINE b == Front(c)
<1>1. /\ b \in Seq(Drivers \union {"gc"}) /\ Len(b) = Len(c) - 1
      /\ Len(c) \in Nat /\ Len(c) >= 1 /\ Last(c) = c[Len(c)]
      /\ \A i \in 1..Len(c) - 1 : b[i] = c[i]
  BY FrontIs DEF Nested
<1>2. Last(b) = b[Len(b)] /\ (b = <<>> <=> Len(b) = 0)
  BY <1>1 DEF Last
<1> HIDE DEF b
<1>3. Nested(b)
  BY <1>1 DEF Nested
<1>4. Last(c) = "step" => \A i \in 1..Len(b) : b[i] # "step"
  <2> SUFFICES ASSUME c[Len(c)] = "step", NEW i \in 1..Len(b), c[i] = "step" PROVE FALSE
    BY <1>1
  <2> QED
    BY <1>1 DEF Locks
<1>5. Last(c) = "step" => Locks(b, FALSE)
  BY <1>4 DEF Locks
<1>6. Last(c) # "step" => Locks(b, lock)
  BY <1>1 DEF Locks
<1>7. Last(c) = "gc" => Len(c) # 1
  <2> SUFFICES ASSUME Len(c) = 1 PROVE c[1] # "gc"
    BY <1>1
  <2> QED
    BY DEF Nested
<1>8. Len(c) > 1 => b[Len(b)] = c[Len(c) - 1]
  BY <1>1
<1>9. Len(c) > 1 => ((c[Len(c)] = "gc") = (c[Len(c) - 1] # "gc"))
  <2>1. Len(c) > 1 => Len(c) \in 2..Len(c)
    BY <1>1
  <2> QED
    BY <2>1 DEF Nested
<1>10. Last(c) = "gc" => b # <<>> /\ Last(b) # "gc"
  BY <1>1, <1>2, <1>7, <1>8, <1>9
<1>11. Last(c) # "gc" => b = <<>> \/ Last(b) = "gc"
  BY <1>1, <1>2, <1>8, <1>9
<1> QED
  BY <1>3, <1>5, <1>6, <1>10, <1>11 DEF b

(***************************************************************************)
(* A driver other than gc_step that is not in a finalizer runs unlocked.   *)
(***************************************************************************)
LEMMA LockFree ==
  ASSUME NEW c, NEW lock, Nested(c), Locks(c, lock), c # <<>>,
         Last(c) \notin {"gc", "step"}
  PROVE  lock = FALSE
<1>1. Len(c) \in Nat /\ Len(c) >= 1 /\ c[Len(c)] \notin {"gc", "step"}
  BY FrontIs DEF Nested
<1>2. \A i \in 1..Len(c) : c[i] # "step"
  <2> SUFFICES ASSUME NEW i \in 1..Len(c), c[i] = "step" PROVE FALSE
    OBVIOUS
  <2>1. i < Len(c)
    BY <1>1
  <2>2. Len(c) \in (i + 1)..Len(c)
    BY <1>1, <2>1
  <2> QED
    BY <1>1, <2>2 DEF Locks
<1> QED
  BY <1>2 DEF Locks

\* No lock is held at the beginning.
LEMMA LockInit == DriverInit => LockInv
  BY LockDone DEF DriverInit, LockInv

(***************************************************************************)
(* What a driver does to the stack of calls.                               *)
(***************************************************************************)
LEMMA LockDrive ==
  ASSUME NEW c, NEW lock, Nested(c), Locks(c, lock), c # <<>>, Last(c) # "gc",
         Drive(c), gcRunning' = lock
  PROVE  LockInv'
<1>1. calls' = c \/ calls' = Append(c, "gc")
  BY DEF Drive
<1>2. Nested(Append(c, "gc")) /\ Locks(Append(c, "gc"), lock)
  BY LockCall
<1>3. Nested(calls') /\ Locks(calls', gcRunning')
  BY <1>1, <1>2
<1> QED
  BY <1>3 DEF LockInv, Nested, Locks

\* Every step keeps the lock in order.
LEMMA LockStep == LockInv /\ [DriverNext]_<<vars, driverVars>> => LockInv'
<1> SUFFICES ASSUME LockInv, [DriverNext]_<<vars, driverVars>> PROVE LockInv'
  OBVIOUS
<1>0. /\ Nested(calls) /\ Locks(calls, gcRunning)
      /\ gcRunning \in BOOLEAN
      /\ (Nested(calls') /\ Locks(calls', gcRunning') => LockInv')
  BY DEF LockInv, Nested, Locks
<1>1. CASE BeginStep
  <2>1. /\ Locks(calls, FALSE) /\ (calls = <<>> \/ Last(calls) = "gc")
        /\ gcRunning' = TRUE /\ Drive(Append(calls, "step"))
    BY <1>0, <1>1 DEF BeginStep, MayCall, ProgramTurn, AtRest, Loop
  <2>2. /\ Nested(Append(calls, "step")) /\ Locks(Append(calls, "step"), TRUE)
        /\ Append(calls, "step") # <<>> /\ Last(Append(calls, "step")) = "step"
    BY <1>0, <2>1, LockBegin DEF Drivers
  <2> QED
    BY <2>1, <2>2, LockDrive
<1>2. CASE StepMore \/ FinishMore \/ CycleMore
  <2>1. /\ calls # <<>> /\ Last(calls) # "gc" /\ Drive(calls) /\ gcRunning' = gcRunning
    BY <1>2 DEF StepMore, FinishMore, CycleMore, Loop
  <2> QED
    BY <1>0, <2>1, LockDrive
<1>3. CASE StepDone
  <2>1. /\ calls # <<>> /\ Last(calls) = "step" /\ calls' = Front(calls) /\ gcRunning' = FALSE
    BY <1>3 DEF StepDone, Loop
  <2>2. Nested(Front(calls)) /\ Locks(Front(calls), FALSE)
    BY <1>0, <2>1, LockReturn
  <2> QED
    BY <1>0, <2>1, <2>2
<1>4. CASE BeginFull
  <2>1. /\ Locks(calls, FALSE) /\ (calls = <<>> \/ Last(calls) = "gc")
        /\ gcRunning' = FALSE /\ calls' = Append(calls, "finish")
    BY <1>0, <1>4 DEF BeginFull, MayCall, ProgramTurn, AtRest, Loop
  <2>2. Nested(Append(calls, "finish")) /\ Locks(Append(calls, "finish"), FALSE)
    BY <1>0, <2>1, LockBegin DEF Drivers
  <2> QED
    BY <1>0, <2>1, <2>2
<1>5. CASE FinishDone
  <2>1. /\ calls # <<>> /\ Last(calls) = "finish" /\ gcRunning' = gcRunning
        /\ calls' = Append(Front(calls), "cycle")
    BY <1>5 DEF FinishDone, Loop
  <2>2. /\ Nested(Front(calls)) /\ Locks(Front(calls), gcRunning)
        /\ Front(calls) = <<>> \/ Last(Front(calls)) = "gc"
    BY <1>0, <2>1, LockReturn
  <2>3. gcRunning = FALSE
    BY <1>0, <2>1, LockFree
  <2>4. Nested(Append(Front(calls), "cycle")) /\ Locks(Append(Front(calls), "cycle"), FALSE)
    BY <1>0, <2>2, <2>3, LockBegin DEF Drivers
  <2> QED
    BY <1>0, <2>1, <2>3, <2>4
<1>6. CASE CycleDone \/ FinalizerReturns
  <2>1. /\ calls # <<>> /\ Last(calls) # "step" /\ calls' = Front(calls)
        /\ gcRunning' = gcRunning
    BY <1>6 DEF CycleDone, FinalizerReturns, Loop
  <2> QED
    BY <1>0, <2>1, LockReturn
<1>7. CASE FinalizerFails
  <2>1. /\ calls # <<>> /\ Last(calls) = "gc" /\ calls' = Front(Front(calls))
        /\ gcRunning' = FALSE
    BY <1>7 DEF FinalizerFails, Loop, Unwind
  <2>2. /\ Nested(Front(calls)) /\ Locks(Front(calls), gcRunning)
        /\ Front(calls) # <<>> /\ Last(Front(calls)) # "gc"
    BY <1>0, <2>1, LockReturn
  <2>3. Nested(Front(Front(calls)))
    BY <2>2, LockReturn
  <2>4. CASE Last(Front(calls)) = "step"
    BY <1>0, <2>1, <2>2, <2>3, <2>4, LockReturn
  <2>5. CASE Last(Front(calls)) # "step"
    <3>1. gcRunning = FALSE
      BY <2>2, <2>5, LockFree
    <3> QED
      BY <1>0, <2>1, <2>2, <2>3, <2>5, <3>1, LockReturn
  <2> QED
    BY <2>4, <2>5
<1>8. CASE Mutate \/ UNCHANGED <<vars, driverVars>>
  BY <1>0, <1>8 DEF Mutate, driverVars
<1> QED
  BY <1>1, <1>2, <1>3, <1>4, <1>5, <1>6, <1>7, <1>8 DEF DriverNext

(***************************************************************************)
(* gc_running is TRUE exactly while a gc_step is on the stack, whatever    *)
(* the program writes and its finalizers do: gc_step and full_gc clear it  *)
(* on every path that leaves them, an error of a finalizer included.       *)
(***************************************************************************)
THEOREM LockHolds == DriverSpec => []NeverLocked
<1> QED
  BY LockInit, LockStep, LockInvHas, PTL DEF DriverSpec

-----------------------------------------------------------------------------
(***************************************************************************)
(* Where the collector is, for who is on the stack.  A finalizer runs in   *)
(* the Finalize phase, or in Pause when it has collected; that holds for   *)
(* finalizers that do not step the collector themselves, and it is what    *)
(* makes the second loop of full_gc begin in Pause.                        *)
(***************************************************************************)
NoStepping == "step" \notin FinalizerCalls

Placed ==
  /\ Loop("gc") => phase \in {"Pause", "Finalize"}
  /\ Loop("finish") => phase # "Propagate"
  /\ \A i \in 2..Len(calls) : calls[i] # "step"

DriverInv == LockInv /\ Placed /\ Whole

(***************************************************************************)
(* full_gc abandons a cycle: what is left is a sweep that frees nothing.   *)
(***************************************************************************)
LEMMA AbandonSafe ==
  ASSUME Whole, BeginFull
  PROVE  Whole' /\ phase' # "Propagate" /\ tmudata' = tmudata
<1>1. CASE phase \notin {"Pause", "Propagate"}
  <2>1. UNCHANGED vars
    BY <1>1 DEF BeginFull, Abandons, vars, gcVars
  <2> QED
    BY <1>1, <2>1, WholeSame DEF vars, gcVars
<1>2. CASE phase \in {"Pause", "Propagate"}
  <2>1. /\ gray' = {} /\ grayagain' = {} /\ mainGray' = FALSE
        /\ phase' = "SweepString" /\ arena' = 1
        /\ unswept' = Allocated /\ doomed' = {}
        /\ UNCHANGED <<heapVars, rootVars, currentWhite, tmudata>>
    BY <1>2 DEF BeginFull, Abandons
  <2>2. UNCHANGED <<color, refs, finalized, stack, open, saved, parked, current,
                    typeMetatables, currentWhite, tmudata>>
    BY <2>1 DEF heapVars, rootVars
  <2>3. \A o \in Obj : color[o] # "free" => color[o] # OtherWhite
    BY <1>2, WhiteFacts DEF Whole, Cursor, Tricolor, Settled, RootsMarked
  <2>4. TypeOK'
    <3>1. 1 \in 1..6 /\ "SweepString" \in Phases /\ FALSE \in BOOLEAN
      BY DEF Phases
    <3>2. /\ phase' \in Phases /\ arena' \in 1..6 /\ mainGray' \in BOOLEAN
      BY <2>1, <3>1, Zenon
    <3>3. /\ gray' \subseteq Obj /\ grayagain' \subseteq Obj
          /\ unswept' \subseteq Obj /\ doomed' \subseteq Obj
      BY <2>1 DEF Allocated
    <3> QED
      BY <2>2, <3>2, <3>3 DEF Whole, Cursor, TypeOK
  <2>5. Settled' /\ Pending'
    <3>1. Allocated' = Allocated /\ Sweeping'
      BY <2>1, <2>2 DEF Allocated, Sweeping
    <3>2. \A o \in Obj \ Allocated : color'[o] = "free"
      BY <2>2 DEF Allocated
    <3>3. Pending'
      BY <2>1, <2>2 DEF Whole, Cursor, Pending
    <3>4. \A i \in 1..6 : ~(i < 1)
      OBVIOUS
    <3> QED
      BY <2>1, <3>1, <3>2, <3>3, <3>4 DEF Settled
  <2>6. Tricolor'
    <3>1. \A o \in Obj : Live(o) => Live(o)'
      BY <2>1, <2>2, <2>3 DEF Live, OtherWhite
    <3>2. \A o \in Obj : Live(o)' => Live(o)
      BY <1>2, <2>2 DEF Live, Sweeping
    <3>3. Roots' = Roots /\ Roots \subseteq Obj
      BY <2>2, HeldLive DEF Roots, Whole
    <3>4. RootsLive'
      BY <3>1, <3>3 DEF RootsLive, Whole, Tricolor
    <3>5. HeapLive'
      BY <2>2, <3>1, <3>2 DEF HeapLive, Whole, Tricolor, Cursor, TypeOK
    <3> QED
      BY <2>1, <3>4, <3>5 DEF Tricolor, BlackClosed, GrayListed, RootsMarked
  <2>7. GarbageInv'
    BY <2>1 DEF GarbageInv, DoomedApart, Apart, DoomedWhite
  <2> QED
    BY <2>1, <2>4, <2>5, <2>6, <2>7 DEF Whole, Cursor
<1> QED
  BY <1>1, <1>2

(***************************************************************************)
(* A step of a driver is a step of the collector.                          *)
(***************************************************************************)
LEMMA DriveSteps ==
  ASSUME NEW base, Drive(base)
  PROVE  /\ SingleStep
         /\ calls' = base \/ (calls' = Append(base, "gc") /\ phase = "Finalize"
                              /\ phase' = "Finalize")
  BY DEF Drive, Work, SingleStep, CallFinalizer

\* Once marking is over a step does not go back to it.
LEMMA WorkPhase ==
  ASSUME SingleStep, phase \notin {"Pause", "Propagate"}
  PROVE  phase' # "Propagate"
  BY DEF SingleStep, StartCycle, MarkRoots, PropagateOne, PropagateMain, Atomic,
         SweepStrings, SweepOther, CallFinalizer, EndCycle

(***************************************************************************)
(* The last entries of the stacks that the steps leave.                    *)
(***************************************************************************)
LEMMA TopIs ==
  ASSUME NEW c, Nested(c), NEW d \in Drivers \union {"gc"}
  PROVE  /\ Append(c, d) # <<>> /\ Last(Append(c, d)) = d
         /\ Len(Append(c, d)) = Len(c) + 1 /\ Append(c, d)[Len(c) + 1] = d
         /\ \A i \in 1..Len(c) : Append(c, d)[i] = c[i]
         /\ Len(c) \in Nat /\ (c # <<>> => Len(c) >= 1 /\ Last(c) = c[Len(c)])
<1>1. /\ Append(c, d) # <<>> /\ Len(Append(c, d)) = Len(c) + 1
      /\ Append(c, d)[Len(c) + 1] = d /\ Len(c) \in Nat
      /\ \A i \in 1..Len(c) : Append(c, d)[i] = c[i]
  BY PushIs DEF Nested
<1>2. c # <<>> => Len(c) >= 1 /\ Last(c) = c[Len(c)]
  BY FrontIs DEF Nested
<1>3. Last(Append(c, d)) = Append(c, d)[Len(Append(c, d))]
  BY DEF Last
<1> QED
  BY <1>1, <1>2, <1>3

\* Drivers stay where they are when the last one steps the collector.
LEMMA PlacedDrive ==
  ASSUME NEW base, Nested(base), base # <<>>, Last(base) \in Drivers,
         Last(base) = "finish" => phase \notin {"Pause", "Propagate"},
         \A i \in 2..Len(base) : base[i] # "step",
         Drive(base)
  PROVE  Placed'
<1>1. /\ SingleStep
      /\ calls' = base \/ (calls' = Append(base, "gc") /\ phase' = "Finalize")
  BY DriveSteps
<1>2. CASE calls' = base
  <2>1. Last(base) = "finish" => phase' # "Propagate"
    BY <1>1, WorkPhase
  <2> QED
    BY <1>2, <2>1 DEF Placed, Loop, Drivers
<1>3. CASE calls' = Append(base, "gc") /\ phase' = "Finalize"
  <2>1. Last(calls') = "gc"
    BY <1>3, TopIs
  <2>2. \A i \in 2..Len(calls') : calls'[i] # "step"
    <3>1. /\ Len(calls') = Len(base) + 1 /\ Len(base) \in Nat
          /\ calls'[Len(base) + 1] = "gc"
          /\ \A i \in 1..Len(base) : calls'[i] = base[i]
      BY <1>3, TopIs
    <3> QED
      BY <3>1
  <2> QED
    BY <1>3, <2>1, <2>2 DEF Placed, Loop
<1> QED
  BY <1>1, <1>2, <1>3

\* A full collection begins above finalizers that do not step.
LEMMA PlacedBegin ==
  ASSUME NEW d \in {"finish", "cycle"}, NEW c, Nested(c), calls' = Append(c, d),
         \A i \in 2..Len(c) : c[i] # "step",
         d = "finish" => phase' # "Propagate"
  PROVE  Placed'
<1>1. /\ Len(calls') = Len(c) + 1 /\ Len(c) \in Nat
      /\ calls'[Len(c) + 1] = d /\ Last(calls') = d
      /\ \A i \in 1..Len(c) : calls'[i] = c[i]
  BY TopIs DEF Drivers
<1>2. \A i \in 2..Len(calls') : calls'[i] # "step"
  BY <1>1
<1> QED
  BY <1>1, <1>2 DEF Placed, Loop

\* Drivers stay where they are when the last entry goes.
LEMMA PlacedEnd ==
  ASSUME LockInv, Placed, calls # <<>>,
         \/ calls' = Front(calls)
         \/ calls' = Front(Front(calls)) /\ Front(calls) # <<>>,
         calls' = <<>> \/ phase' \in {"Pause", "Finalize"}
  PROVE  Placed'
<1>1. Nested(calls) /\ \A i \in 2..Len(calls) : calls[i] # "step"
  BY DEF LockInv, Placed
<1>2. Nested(Front(calls)) /\ \A i \in 2..Len(Front(calls)) : Front(calls)[i] # "step"
  <2>1. Nested(Front(calls))
    BY LockReturn DEF LockInv
  <2>2. /\ Len(Front(calls)) = Len(calls) - 1 /\ Len(calls) \in Nat
        /\ \A i \in 1..Len(calls) - 1 : Front(calls)[i] = calls[i]
    BY <1>1, FrontIs DEF Nested
  <2> QED
    BY <1>1, <2>1, <2>2
<1>3. Front(calls) # <<>> =>
        \A i \in 2..Len(Front(Front(calls))) : Front(Front(calls))[i] # "step"
  <2> SUFFICES ASSUME Front(calls) # <<>>
               PROVE  \A i \in 2..Len(Front(Front(calls))) : Front(Front(calls))[i] # "step"
    OBVIOUS
  <2> DEFINE c == Front(calls)
  <2>1. Nested(c) /\ c # <<>> /\ \A i \in 2..Len(c) : c[i] # "step"
    BY <1>2
  <2> HIDE DEF c
  <2>2. /\ Len(Front(c)) = Len(c) - 1 /\ Len(c) \in Nat
        /\ \A i \in 1..Len(c) - 1 : Front(c)[i] = c[i]
    BY <2>1, FrontIs DEF Nested
  <2>3. \A i \in 2..Len(Front(c)) : Front(c)[i] # "step"
    BY <2>1, <2>2
  <2> QED
    BY <2>3 DEF c
<1>4. \A i \in 2..Len(calls') : calls'[i] # "step"
  BY <1>2, <1>3
<1> QED
  BY <1>4 DEF Placed, Loop

\* It holds at the beginning.
LEMMA DriverInvInit == DriverInit => DriverInv
<1> SUFFICES ASSUME DriverInit PROVE DriverInv
  OBVIOUS
<1>1. calls = <<>> /\ Init
  BY DEF DriverInit
<1>2. Placed
  BY <1>1 DEF Placed, Loop
<1> QED
  BY <1>1, <1>2, LockInit, WholeInit DEF DriverInv

\* Every step keeps it.
LEMMA DriverInvStep ==
  ASSUME Barriered, NoStepping, DriverInv, [DriverNext]_<<vars, driverVars>>
  PROVE  DriverInv'
<1>0. /\ LockInv' /\ Nested(calls) /\ Locks(calls, gcRunning)
      /\ LockInv /\ Placed /\ Whole
      /\ \A i \in 2..Len(calls) : calls[i] # "step"
  BY LockStep DEF DriverInv, LockInv, Placed
<1>w. [Next]_vars => Whole'
  BY <1>0, WholeStep
<1>s. SingleStep => Whole'
  BY <1>w DEF Next
<1>1. CASE BeginStep
  <2>1. calls = <<>> /\ Drive(Append(calls, "step"))
    BY <1>1 DEF BeginStep, MayCall, NoStepping, AtRest
  <2>2. /\ Nested(Append(calls, "step")) /\ Append(calls, "step") # <<>>
        /\ Last(Append(calls, "step")) = "step" /\ Len(Append(calls, "step")) = 1
    <3>1. Nested(Append(calls, "step"))
      BY <2>1, LockBegin, LockDone DEF Drivers
    <3> QED
      BY <1>0, <2>1, <3>1, TopIs DEF Drivers
  <2>3. \A i \in 2..Len(Append(calls, "step")) : Append(calls, "step")[i] # "step"
    BY <2>2
  <2>4. Placed'
    BY <2>1, <2>2, <2>3, PlacedDrive DEF Drivers
  <2> QED
    BY <1>0, <1>s, <2>1, <2>4, DriveSteps DEF DriverInv
<1>2. CASE StepMore \/ FinishMore \/ CycleMore
  <2>1. /\ calls # <<>> /\ Last(calls) \in Drivers /\ Drive(calls)
        /\ Last(calls) = "finish" => phase \notin {"Pause", "Propagate"}
    BY <1>2 DEF StepMore, FinishMore, CycleMore, Loop, Drivers
  <2>2. Placed'
    BY <1>0, <2>1, PlacedDrive
  <2> QED
    BY <1>0, <1>s, <2>1, <2>2, DriveSteps DEF DriverInv
<1>3. CASE StepDone
  <2>1. calls # <<>> /\ Last(calls) = "step" /\ calls' = Front(calls) /\ UNCHANGED vars
    BY <1>3 DEF StepDone, Loop
  <2>2. Len(calls) = 1
    <3>1. Len(calls) \in Nat /\ Len(calls) >= 1 /\ calls[Len(calls)] = "step"
      BY <1>0, <2>1, FrontIs DEF Nested
    <3> QED
      BY <1>0, <3>1
  <2>3. calls' = <<>>
    <3>1. Front(calls) \in Seq(Drivers \union {"gc"}) /\ Len(Front(calls)) = 0
      BY <1>0, <2>1, <2>2, FrontIs DEF Nested
    <3> QED
      BY <2>1, <3>1
  <2>4. Placed'
    BY <1>0, <2>1, <2>3, PlacedEnd
  <2> QED
    BY <1>0, <1>w, <2>1, <2>4 DEF DriverInv
<1>4. CASE BeginFull
  <2>1. Whole' /\ phase' # "Propagate" /\ calls' = Append(calls, "finish")
    BY <1>0, <1>4, AbandonSafe DEF BeginFull
  <2>2. Placed'
    BY <1>0, <2>1, PlacedBegin
  <2> QED
    BY <1>0, <2>1, <2>2 DEF DriverInv
<1>5. CASE FinishDone
  <2>1. /\ Loop("finish") /\ phase = "Pause" /\ MarkRoots
        /\ calls' = Append(Front(calls), "cycle")
    BY <1>0, <1>5 DEF FinishDone, Placed
  <2>2. SingleStep
    BY <2>1 DEF SingleStep, StartCycle
  <2>3. Nested(Front(calls)) /\ \A i \in 2..Len(Front(calls)) : Front(calls)[i] # "step"
    <3>1. Nested(Front(calls))
      BY <1>0, <2>1, LockReturn DEF Loop
    <3>2. /\ Len(Front(calls)) = Len(calls) - 1 /\ Len(calls) \in Nat
          /\ \A i \in 1..Len(calls) - 1 : Front(calls)[i] = calls[i]
      BY <1>0, <2>1, FrontIs DEF Nested, Loop
    <3> QED
      BY <1>0, <3>1, <3>2
  <2>4. Placed'
    BY <2>1, <2>3, PlacedBegin
  <2> QED
    BY <1>0, <1>s, <2>2, <2>4 DEF DriverInv
<1>6. CASE CycleDone \/ FinalizerReturns \/ FinalizerFails
  <2>1. /\ calls # <<>> /\ phase \in {"Pause", "Finalize"} /\ UNCHANGED vars
        /\ phase' = phase
    BY <1>0, <1>6
    DEF CycleDone, FinalizerReturns, FinalizerFails, Loop, Placed, vars, gcVars
  <2>2. \/ calls' = Front(calls)
        \/ calls' = Front(Front(calls)) /\ Front(calls) # <<>>
    BY <1>0, <1>6, LockReturn DEF CycleDone, FinalizerReturns, FinalizerFails, Loop
  <2>3. Placed'
    BY <1>0, <2>1, <2>2, PlacedEnd
  <2> QED
    BY <1>0, <1>w, <2>1, <2>3 DEF DriverInv
<1>7. CASE Mutate
  <2>1. Program /\ calls' = calls
    BY <1>7 DEF Mutate
  <2>2. phase' = phase
    BY <2>1, ProgramRest DEF gcRest
  <2>3. Placed'
    BY <1>0, <2>1, <2>2 DEF Placed, Loop
  <2> QED
    BY <1>0, <1>w, <2>1, <2>3 DEF DriverInv, Next
<1>8. CASE UNCHANGED <<vars, driverVars>>
  <2>1. calls' = calls /\ phase' = phase /\ UNCHANGED vars
    BY <1>8 DEF vars, gcVars, driverVars
  <2>2. Placed'
    BY <1>0, <2>1 DEF Placed, Loop
  <2> QED
    BY <1>0, <1>w, <2>1, <2>2 DEF DriverInv
<1> QED
  BY <1>1, <1>2, <1>3, <1>4, <1>5, <1>6, <1>7, <1>8 DEF DriverNext

(***************************************************************************)
(* A step of a driver is one of the collector or of the program, or the    *)
(* abandoning of a cycle.                                                  *)
(***************************************************************************)
LEMMA DriverSteps ==
  ASSUME DriverInv, [DriverNext]_<<vars, driverVars>>
  PROVE  [Next]_vars \/ BeginFull
<1>1. BeginStep \/ StepMore \/ FinishMore \/ CycleMore => Next
  BY DriveSteps DEF BeginStep, StepMore, FinishMore, CycleMore, Next
<1>2. StepDone \/ CycleDone \/ FinalizerReturns \/ FinalizerFails => UNCHANGED vars
  BY DEF StepDone, CycleDone, FinalizerReturns, FinalizerFails
<1>3. FinishDone => Next
  BY DEF DriverInv, Placed, FinishDone, Next, SingleStep, StartCycle
<1>4. Mutate => Next
  BY DEF Mutate, Next
<1> QED
  BY <1>1, <1>2, <1>3, <1>4 DEF DriverNext

\* The collector's invariants hold under any nesting of drivers and finalizers.
THEOREM DriverInvariant ==
  ASSUME Barriered, NoStepping
  PROVE  DriverSpec => []DriverInv
<1>1. DriverInv /\ [DriverNext]_<<vars, driverVars>> => DriverInv'
  BY DriverInvStep
<1> QED
  BY <1>1, DriverInvInit, PTL DEF DriverSpec

(***************************************************************************)
(* Finalizers that run the program in the middle of a collection, that     *)
(* begin full collections of their own inside it, and that fail and leave  *)
(* it behind in any phase, do not make the collector free what the program *)
(* can reach.                                                              *)
(***************************************************************************)
THEOREM DriversSafe ==
  ASSUME Barriered, NoStepping
  PROVE  DriverSpec => []NoDangling
<1>1. DriverInv => NoDangling
  BY ReachableLive DEF DriverInv, Whole, NoDangling, Allocated, Live
<1>2. DriverSpec => []DriverInv
  BY DriverInvariant
<1> QED
  BY <1>1, <1>2, PTL

(***************************************************************************)
(* Nor is a finalizer called for what the program can reach, or twice,     *)
(* although cycles are abandoned.                                          *)
(***************************************************************************)
THEOREM DriversSpare ==
  ASSUME Barriered, NoStepping
  PROVE  DriverSpec => OnlyGarbageFinalized
<1>1. DriverInv /\ [DriverNext]_<<vars, driverVars>> => [Spared]_vars
  <2>1. ASSUME DriverInv, BeginFull PROVE Spared
    BY <2>1, AbandonSafe DEF DriverInv, Spared
  <2>2. ASSUME DriverInv, [Next]_vars PROVE Spared
    BY <2>2, StepSpares DEF DriverInv
  <2> QED
    BY <2>1, <2>2, DriverSteps
<1>2. DriverSpec => []DriverInv
  BY DriverInvariant
<1>3. DriverSpec => [][Spared]_vars
  BY <1>1, <1>2, PTL DEF DriverSpec
<1> QED
  BY <1>3, PTL DEF OnlyGarbageFinalized, Spared

(***************************************************************************)
(* The fresh cycle of full_gc begins on a heap without marks.              *)
(***************************************************************************)
THEOREM FreshHeap ==
  ASSUME Barriered, NoStepping
  PROVE  DriverSpec => FreshCycle
<1> DEFINE Clean == FinishDone => \A o \in Obj : color[o] \in {"free", currentWhite}
<1>1. DriverInv => Clean
  BY DEF DriverInv, Placed, FinishDone, Whole, Cursor, Settled
<1>2. DriverSpec => []DriverInv
  BY DriverInvariant
<1> HIDE DEF Clean
<1>3. DriverSpec => [][Clean]_<<vars, driverVars>>
  BY <1>1, <1>2, PTL DEF DriverSpec
<1> QED
  BY <1>3, PTL DEF FreshCycle, Clean


-----------------------------------------------------------------------------
(***************************************************************************)
(* What full_gc owes.  A set that holds the roots and the finalizers to be *)
(* called, and that no reference leaves, holds all the program can get at, *)
(* whether or not the heap is in order: that does not depend on barriers,  *)
(* and not on who steps the collector.                                     *)
(***************************************************************************)
Sealed(K) ==
  /\ Roots \union Awaiting \subseteq K
  /\ \A o \in K : refs[o] \subseteq K

(***************************************************************************)
(* While marking, what is listed to be traversed lies in K.                *)
(***************************************************************************)
Listed(K) == phase = "Propagate" => gray \union grayagain \subseteq K

(***************************************************************************)
(* The gray list belongs to the marking.                                   *)
(***************************************************************************)
GrayLive == gray \subseteq Allocated /\ (phase # "Propagate" => gray = {})

HeapInv == Cursor /\ GrayLive

(***************************************************************************)
(* What a full_gc at the bottom of the stack owes and has not freed is     *)
(* outside of such a set K.  It is white whenever marking goes on, so that *)
(* a marking which marks K only condemns it; and the fresh cycle frees it  *)
(* before the first finalizer of that cycle can be called.                 *)
(***************************************************************************)
Unpaid == owed \intersect Allocated

Collecting == calls # <<>> /\ calls[1] \in {"finish", "cycle"}

Owes(K) ==
  /\ Sealed(K) /\ Listed(K) /\ K \intersect Unpaid = {}
  /\ phase = "Propagate" => \A o \in Unpaid : color[o] = currentWhite
  /\ calls[1] = "cycle" =>
       /\ Len(calls) = 1 /\ phase \notin {"Pause", "Finalize"}
       /\ Sweeping => \A o \in Unpaid : color[o] = OtherWhite

OwedInv == Collecting /\ Unpaid # {} => \E K \in SUBSET Obj : Owes(K)

-----------------------------------------------------------------------------
\* Marking what is in a sealed set marks nothing outside of it.
LEMMA SealedMarks ==
  ASSUME TypeOK, NEW K \in SUBSET Obj, Sealed(K), NEW S \in SUBSET K
  PROVE  /\ Marked(S) \subseteq K /\ Marked(S) \subseteq White
         /\ \A o \in Obj : Shade(Marked(S))[o] = "free" <=> color[o] = "free"
         /\ \A o \in Obj \ K : Shade(Marked(S))[o] = color[o]
<1>1. S \in SUBSET Obj /\ \A p \in K \intersect White : refs[p] \subseteq K
  BY DEF Sealed
<1>2. Marked(S) \subseteq K /\ Marked(S) \subseteq White
  BY <1>1, MarkedClosed
<1> QED
  BY <1>2, MarkingFacts, ShadeFacts

\* What is in a sealed set.
LEMMA SealedHas ==
  ASSUME TypeOK, NEW K \in SUBSET Obj, Sealed(K)
  PROVE  /\ Roots \subseteq K /\ FirstRoots \subseteq K /\ MainRoots \subseteq K
         /\ Held \subseteq K /\ stack \subseteq K /\ open \subseteq K /\ parked \subseteq K
         /\ saved \subseteq K /\ typeMetatables \subseteq K /\ tmudata \subseteq K
         /\ \A d \in Finalizable \ finalized : d \in Obj /\ color[d] # "free" => d \in K
         /\ \A S \in SUBSET K : Content(S) \subseteq K
         /\ \A o \in K : Readable(o) \subseteq K
<1>1. Roots \subseteq K /\ Awaiting \subseteq K /\ \A o \in K : refs[o] \subseteq K
  BY DEF Sealed
<1>2. \A S \in SUBSET K : Content(S) \subseteq K
  BY <1>1, ContentHas
<1>3. \A o \in K : Readable(o) \subseteq K
  BY <1>1, <1>2 DEF Readable
<1>4. \A d \in Finalizable \ finalized : d \in Obj /\ color[d] # "free" => d \in K
  BY <1>1 DEF Awaiting, Allocated
<1> QED
  BY <1>1, <1>2, <1>3, <1>4 DEF Roots, FirstRoots, MainRoots, Held

(***************************************************************************)
(* A write keeps a set sealed when it stays inside of it.                  *)
(***************************************************************************)
LEMMA RewriteSealed ==
  ASSUME NEW K \in SUBSET Obj, Sealed(K), Roots' \subseteq K,
         \A o \in K : refs'[o] \subseteq K,
         \A o \in Obj : color[o] = "free" => color'[o] = "free",
         \A o \in finalized : o \in finalized' \/ color'[o] = "free"
  PROVE  Sealed(K)'
<1>1. Awaiting' \subseteq Awaiting
  BY DEF Awaiting, Allocated
<1> QED
  BY <1>1 DEF Sealed

-----------------------------------------------------------------------------
(***************************************************************************)
(* The collector's steps keep a sealed set sealed and mark nothing outside *)
(* of it, and free slots stay free.                                        *)
(***************************************************************************)
Within(K) ==
  /\ Sealed(K)' /\ Listed(K)'
  /\ \A o \in Obj : color[o] = "free" => color'[o] = "free"

\* mark_roots, from whichever phase.
LEMMA MarkRootsWithin ==
  ASSUME TypeOK, NEW K \in SUBSET Obj, Sealed(K), MarkRoots
  PROVE  /\ Within(K) /\ phase' = "Propagate" /\ currentWhite' = currentWhite
         /\ \A o \in Obj \ K : color'[o] = color[o]
         /\ \A o \in Obj : color'[o] = "free" <=> color[o] = "free"
<1>1. FirstRoots \in SUBSET K
  BY SealedHas
<1>2. /\ color' = Shade(Marked(FirstRoots)) /\ gray' = Marked(FirstRoots) \ Instant
      /\ grayagain' = {} /\ phase' = "Propagate"
      /\ UNCHANGED <<refs, finalized, currentWhite, tmudata>> /\ UNCHANGED rootVars
  BY DEF MarkRoots
<1>3. Roots' = Roots
  BY <1>2 DEF Roots, rootVars
<1>4. /\ Marked(FirstRoots) \subseteq K
      /\ \A o \in Obj : color'[o] = "free" <=> color[o] = "free"
      /\ \A o \in Obj \ K : color'[o] = color[o]
  BY <1>1, <1>2, SealedMarks
<1>5. Sealed(K)'
  BY <1>2, <1>3, <1>4, RewriteSealed DEF Sealed
<1>6. Listed(K)'
  BY <1>2, <1>4 DEF Listed
<1> QED
  BY <1>2, <1>4, <1>5, <1>6 DEF Within

\* Marking on.
LEMMA PropagateWithin ==
  ASSUME TypeOK, GrayLive, NEW K \in SUBSET Obj, Sealed(K), Listed(K),
         PropagateMain \/ \E o \in Obj : PropagateOne(o)
  PROVE  /\ Within(K) /\ phase' = "Propagate" /\ currentWhite' = currentWhite
         /\ \A o \in Obj \ K : color'[o] = color[o]
<1>1. CASE PropagateMain
  <2>1. MainRoots \in SUBSET K
    BY SealedHas
  <2>2. /\ color' = Shade(Marked(MainRoots)) /\ gray' = Marked(MainRoots) \ Instant
        /\ phase = "Propagate"
        /\ UNCHANGED <<refs, finalized, currentWhite, tmudata, phase, grayagain>>
        /\ UNCHANGED rootVars
    BY <1>1 DEF PropagateMain
  <2>3. Roots' = Roots
    BY <2>2 DEF Roots, rootVars
  <2>4. /\ Marked(MainRoots) \subseteq K
        /\ \A o \in Obj : color'[o] = "free" <=> color[o] = "free"
        /\ \A o \in Obj \ K : color'[o] = color[o]
    BY <2>1, <2>2, SealedMarks
  <2>5. Sealed(K)'
    BY <2>2, <2>3, <2>4, RewriteSealed DEF Sealed
  <2>6. Listed(K)'
    BY <2>2, <2>4 DEF Listed
  <2> QED
    BY <2>2, <2>4, <2>5, <2>6 DEF Within
<1>2. ASSUME NEW p \in Obj, PropagateOne(p)
      PROVE  /\ Within(K) /\ phase' = "Propagate" /\ currentWhite' = currentWhite
             /\ \A o \in Obj \ K : color'[o] = color[o]
  <2>1. /\ p \in gray /\ phase = "Propagate"
        /\ color' = [Shade(Marked(refs[p])) EXCEPT ![p] = "black"]
        /\ gray' = (gray \ {p}) \union (Marked(refs[p]) \ Instant)
        /\ grayagain' \subseteq grayagain \union {p}
        /\ UNCHANGED <<refs, finalized, currentWhite, tmudata, phase>>
        /\ UNCHANGED rootVars
    BY <1>2 DEF PropagateOne, Relist
  <2>2. /\ p \in K /\ gray \subseteq K /\ grayagain \subseteq K
        /\ refs[p] \in SUBSET K /\ color[p] # "free"
    BY <2>1 DEF Listed, Sealed, GrayLive, Allocated
  <2>3. /\ Marked(refs[p]) \subseteq K
        /\ \A o \in Obj : Shade(Marked(refs[p]))[o] = "free" <=> color[o] = "free"
        /\ \A o \in Obj \ K : Shade(Marked(refs[p]))[o] = color[o]
    BY <2>2, SealedMarks
  <2>4. \A o \in Obj \ {p} : color'[o] = Shade(Marked(refs[p]))[o]
    BY <2>1 DEF Shade
  <2>5. Roots' = Roots
    BY <2>1 DEF Roots, rootVars
  <2>6. Sealed(K)'
    BY <2>1, <2>2, <2>3, <2>4, <2>5, RewriteSealed DEF Sealed
  <2>7. Listed(K)'
    BY <2>1, <2>2, <2>3 DEF Listed
  <2> QED
    BY <2>1, <2>2, <2>3, <2>4, <2>6, <2>7 DEF Within
<1> QED
  BY <1>1, <1>2

\* The atomic step marks what is black or gray already, and what lies in the set.
LEMMA AtomicWithin ==
  ASSUME TypeOK, NEW K \in SUBSET Obj, Sealed(K), Listed(K), Atomic
  PROVE  /\ Within(K) /\ phase = "Propagate" /\ phase' = "SweepString"
         /\ currentWhite' = OtherWhite
         /\ \A o \in (Obj \ K) \intersect White : color'[o] = color[o]
<1> DEFINE again  == grayagain \union White
           live   == Reach(MainRoots \union grayagain, again)
           dead   == ((Finalizable \ finalized) \intersect White) \ live
           kept   == Reach(tmudata \union dead, again \union tmudata)
           marked == Allocated \intersect ((Obj \ White) \union live \union kept)
<1>1. /\ phase = "Propagate" /\ phase' = "SweepString"
      /\ color' = [o \in Obj |-> IF o \in marked THEN "black" ELSE color[o]]
      /\ tmudata' = tmudata \union dead /\ finalized' = finalized \union dead
      /\ currentWhite' = OtherWhite
      /\ UNCHANGED refs /\ UNCHANGED rootVars
  BY DEF Atomic, DeadUserdata, Kept, NextWhite
<1>2. /\ grayagain \subseteq K /\ MainRoots \subseteq K /\ tmudata \subseteq K
      /\ \A p \in K : refs[p] \subseteq K
  BY <1>1, SealedHas DEF Listed, Sealed
<1>3. dead \subseteq K
  <2>1. \A d \in dead : d \in Finalizable \ finalized /\ d \in Obj /\ color[d] # "free"
    BY WhiteFacts DEF White
  <2> HIDE DEF dead
  <2> QED
    BY <2>1, SealedHas
<1>4. /\ again \in SUBSET Obj /\ again \union tmudata \in SUBSET Obj
      /\ refs \in [Obj -> SUBSET Obj]
  BY KindsApart DEF TypeOK, White
<1> HIDE DEF dead, again
<1>5. live \subseteq K /\ kept \subseteq K
  <2>1. MainRoots \union grayagain \in SUBSET Obj /\ tmudata \union dead \in SUBSET Obj
    BY <1>2, <1>3
  <2> QED
    BY <1>2, <1>3, <1>4, <2>1, ReachLeast
<1> HIDE DEF live, kept
<1>6. \A o \in Obj : color[o] = "free" => color'[o] = "free"
  BY <1>1 DEF Allocated
<1>7. \A o \in (Obj \ K) \intersect White : color'[o] = color[o]
  BY <1>1, <1>5
<1>8. Roots' \subseteq K
  BY <1>1, <1>2, <1>3, SealedHas DEF Roots, rootVars
<1>9. Sealed(K)'
  BY <1>1, <1>2, <1>6, <1>8, RewriteSealed
<1>10. Listed(K)'
  BY <1>1 DEF Listed
<1> QED
  BY <1>1, <1>6, <1>7, <1>9, <1>10 DEF Within

\* Sweeping frees the other white and whitens the rest.
LEMMA SweepWithin ==
  ASSUME TypeOK, Settled, NEW K \in SUBSET Obj, Sealed(K), SweepStrings \/ SweepOther
  PROVE  /\ Within(K) /\ Sweeping /\ phase' \in {"SweepString", "Sweep", "Finalize"}
         /\ currentWhite' = currentWhite
         /\ \A o \in Obj : color[o] = OtherWhite /\ color'[o] # "free" => color'[o] = OtherWhite
<1>1. PICK B \in SUBSET unswept : SweepBatch(B)
  BY DEF SweepStrings, SweepOther, Batches
<1>2. /\ UNCHANGED <<currentWhite, tmudata>> /\ UNCHANGED rootVars /\ Sweeping
      /\ phase' \in {"SweepString", "Sweep", "Finalize"}
  BY DEF SweepStrings, SweepOther, Sweeping
<1>3. unswept \subseteq Allocated /\ currentWhite \in Whites
  BY <1>2, WhiteFacts DEF Settled
<1>4. /\ \A o \in Obj : color[o] = "free" => color'[o] = "free"
      /\ \A o \in Obj : refs'[o] \subseteq refs[o]
      /\ \A o \in finalized : o \in finalized' \/ color'[o] = "free"
      /\ \A o \in Obj : color[o] = OtherWhite /\ color'[o] # "free" => color'[o] = OtherWhite
  BY <1>1, <1>3 DEF SweepBatch, Allocated, TypeOK
<1>5. Roots' = Roots
  BY <1>2 DEF Roots, rootVars
<1>6. Sealed(K)'
  BY <1>4, <1>5, RewriteSealed DEF Sealed
<1>7. Listed(K)'
  BY <1>2 DEF Listed
<1> QED
  BY <1>2, <1>4, <1>6, <1>7 DEF Within

\* A finalizer is called with a userdata of the set.
LEMMA FinalizeWithin ==
  ASSUME TypeOK, NEW K \in SUBSET Obj, Sealed(K), EndCycle \/ \E d \in Userdata : CallFinalizer(d)
  PROVE  Within(K) /\ phase = "Finalize" /\ phase' # "Propagate"
<1>1. /\ UNCHANGED <<color, refs, finalized>> /\ Roots' \subseteq Roots
      /\ phase = "Finalize" /\ phase' # "Propagate"
  BY DEF EndCycle, CallFinalizer, heapVars, rootVars, Roots
<1>2. Sealed(K)'
  BY <1>1, RewriteSealed DEF Sealed
<1> QED
  BY <1>1, <1>2 DEF Within, Listed

-----------------------------------------------------------------------------
(***************************************************************************)
(* The program knows what is in the set and what it allocates: the set     *)
(* grows by objects that were free, and stays sealed.                      *)
(***************************************************************************)
Grown(K, L) ==
  /\ K \subseteq L /\ \A o \in L \ K : color[o] = "free"
  /\ Sealed(L)' /\ Listed(L)'
  /\ \A o \in Obj \ L : color'[o] = color[o]

\* Writes and loads of what is in the set.
LEMMA WriteGrown ==
  ASSUME NEW K \in SUBSET Obj, Sealed(K), Listed(K), Roots' \subseteq K,
         \A o \in K : refs'[o] \subseteq K,
         \A o \in Obj : color[o] = "free" => color'[o] = "free",
         \A o \in Obj \ K : color'[o] = color[o],
         UNCHANGED <<finalized, phase>>,
         phase = "Propagate" =>
           gray' \union grayagain' \subseteq K \union gray \union grayagain
  PROVE  Grown(K, K)
<1>1. Sealed(K)'
  BY RewriteSealed
<1>2. Listed(K)'
  BY DEF Listed
<1> QED
  BY <1>1, <1>2 DEF Grown

\* New objects, which refer to what is in the set or new.
LEMMA OccupyGrown ==
  ASSUME NEW K \in SUBSET Obj, Sealed(K), Listed(K),
         NEW S \in SUBSET Obj, NEW r, \A o \in S : r[o] \subseteq K \union S,
         Occupy(S, r), \A o \in S : Fresh(o), Roots' \subseteq Roots \union S,
         UNCHANGED <<finalized, phase, gray, grayagain>>
  PROVE  Grown(K, K \union S)
<1>1. /\ \A o \in Obj : color'[o] = IF o \in S THEN NewWhite ELSE color[o]
      /\ \A o \in Obj : refs'[o] = IF o \in S THEN r[o] ELSE refs[o]
      /\ \A o \in S : color[o] = "free"
  BY DEF Occupy, Fresh
<1>2. Awaiting' \subseteq Awaiting \union S
  BY <1>1 DEF Awaiting, Allocated
<1>3. Sealed(K \union S)'
  BY <1>1, <1>2 DEF Sealed
<1>4. Listed(K \union S)'
  BY DEF Listed
<1> QED
  BY <1>1, <1>3, <1>4 DEF Grown

\* A barrier marks what is in the set.
LEMMA BarrierSealed ==
  ASSUME TypeOK, NEW K \in SUBSET Obj, Sealed(K), NEW u, NEW V \in SUBSET K, BarrierForward(u, V)
  PROVE  /\ \A o \in Obj : color'[o] = "free" <=> color[o] = "free"
         /\ \A o \in Obj \ K : color'[o] = color[o]
         /\ gray' \subseteq gray \union K
<1>1. CASE phase = "Propagate" /\ color[u] = "black"
  BY <1>1, SealedMarks DEF BarrierForward
<1>2. CASE ~(phase = "Propagate" /\ color[u] = "black")
  BY <1>2 DEF BarrierForward
<1> QED
  BY <1>1, <1>2

\* The program's allocations, loads and writes with a barrier.
LEMMA HeapOpsGrow ==
  ASSUME TypeOK, HeapOps, NEW K \in SUBSET Obj, Sealed(K), Listed(K)
  PROVE  \E L \in SUBSET Obj : Grown(K, L)
<1>0. /\ Roots \subseteq K /\ Held \subseteq K /\ stack \subseteq K /\ open \subseteq K
      /\ typeMetatables \subseteq K
      /\ \A S \in SUBSET K : Content(S) \subseteq K
      /\ \A o \in K : Readable(o) \subseteq K /\ refs[o] \subseteq K
      /\ refs \in [Obj -> SUBSET Obj] /\ color \in [Obj -> Colors]
  BY SealedHas DEF Sealed, TypeOK
<1>1. ASSUME NEW o \in Obj, NEW R \in SUBSET stack, Alloc(o, R)
      PROVE  \E L \in SUBSET Obj : Grown(K, L)
  <2> DEFINE r == [x \in {o} |-> R]
  <2>1. \A x \in {o} : r[x] \subseteq K \union {o}
    BY <1>0
  <2>2. Occupy({o}, r) /\ \A x \in {o} : Fresh(x)
    BY <1>1 DEF Alloc
  <2>3. Roots' \subseteq Roots \union {o} /\ UNCHANGED <<finalized, phase, gray, grayagain>>
    BY <1>1 DEF Alloc, Push, Roots, gcRest
  <2> HIDE DEF r
  <2>4. Grown(K, K \union {o})
    BY <2>1, <2>2, <2>3, OccupyGrown
  <2> QED
    BY <2>4
<1>2. ASSUME NEW c \in Closures, NEW U \in SUBSET Upvalues, MakeClosure(c, U)
      PROVE  \E L \in SUBSET Obj : Grown(K, L)
  <2> DEFINE S == {u \in U : Fresh(u)} \union {c}
             r == [x \in S |-> IF x = c THEN U ELSE {}]
  <2>1. S \in SUBSET Obj
    BY KindsApart
  <2>2. Occupy(S, r) /\ \A x \in S : Fresh(x)
    BY <1>2 DEF MakeClosure
  <2>3. Content(stack \intersect Closures) \subseteq K
    BY <1>0
  <2>4. U \subseteq K \union S
    BY <1>0, <1>2, <2>3 DEF MakeClosure
  <2>5. \A x \in S : r[x] \subseteq K \union S
    BY <2>4
  <2>6. Roots' \subseteq Roots \union S /\ UNCHANGED <<finalized, phase, gray, grayagain>>
    BY <1>2 DEF MakeClosure, Push, Roots, gcRest
  <2> HIDE DEF S, r
  <2>7. Grown(K, K \union S)
    BY <2>1, <2>2, <2>5, <2>6, OccupyGrown
  <2> QED
    BY <2>1, <2>7
<1>3. ASSUME NEW v \in Obj, Load(v) PROVE Grown(K, K)
  <2>1. v \in K
    BY <1>0, <1>3 DEF Load
  <2>2. Roots' \subseteq K /\ UNCHANGED <<color, refs, finalized, phase, gray, grayagain>>
    BY <1>0, <1>3, <2>1 DEF Load, Push, Roots, gcRest, heapVars
  <2> QED
    BY <1>0, <2>2, WriteGrown
<1>4. ASSUME NEW v \in stack, Drop(v) PROVE Grown(K, K)
  <2>1. Roots' \subseteq K /\ UNCHANGED <<color, refs, finalized, phase, gray, grayagain>>
    BY <1>0, <1>4 DEF Drop, Roots, gcRest, heapVars
  <2> QED
    BY <1>0, <2>1, WriteGrown
<1>5. ASSUME NEW t \in Held \intersect Tables, NEW old \in ValuesOf(refs[t]),
             NEW new \in ValuesOf(Held), TableSet(t, old, new)
      PROVE  Grown(K, K)
  <2>1. new \subseteq K /\ t \in K
    BY <1>0 DEF ValuesOf
  <2>2. \A o \in K : refs'[o] \subseteq K
    BY <1>0, <1>5, <2>1 DEF TableSet, Write
  <2>3. /\ \A o \in Obj : color[o] = "free" => color'[o] = "free"
        /\ \A o \in Obj \ K : color'[o] = color[o]
        /\ grayagain' \subseteq grayagain \union K
    BY <1>0, <1>5, <2>1 DEF TableSet, BarrierBack
  <2>4. Roots' = Roots /\ UNCHANGED <<finalized, phase, gray>>
    BY <1>5 DEF TableSet, Roots, rootVars, gcRest
  <2> QED
    BY <1>0, <2>2, <2>3, <2>4, WriteGrown
<1>6. ASSUME NEW u, NEW V \in SUBSET K, BarrierForward(u, V),
             \A o \in Obj : refs'[o] = refs[o] \/ refs'[o] \subseteq V,
             Roots' \subseteq K, UNCHANGED <<finalized, phase, grayagain>>
      PROVE  Grown(K, K)
  <2>1. /\ \A o \in Obj : color'[o] = "free" <=> color[o] = "free"
        /\ \A o \in Obj \ K : color'[o] = color[o]
        /\ gray' \subseteq gray \union K
    BY <1>6, BarrierSealed
  <2>2. \A o \in K : refs'[o] \subseteq K
    BY <1>0, <1>6
  <2> QED
    BY <1>6, <2>1, <2>2, WriteGrown
<1>7. ASSUME NEW u \in Upvalues, NEW V \in ValuesOf(Held), SetUpvalue(u, V)
      PROVE  Grown(K, K)
  <2>1. V \in SUBSET K
    BY <1>0 DEF ValuesOf
  <2>2. \A o \in Obj : refs'[o] = refs[o] \/ refs'[o] \subseteq V
    BY <1>0, <1>7 DEF SetUpvalue, Write
  <2>3. Roots' = Roots /\ UNCHANGED <<finalized, phase, grayagain>>
    BY <1>7 DEF SetUpvalue, Roots, rootVars, gcRest
  <2> QED
    BY <1>0, <1>6, <1>7, <2>1, <2>2, <2>3 DEF SetUpvalue
<1>8. ASSUME NEW u \in open, NEW V \in ValuesOf(stack), CloseUpvalue(u, V)
      PROVE  Grown(K, K)
  <2>1. V \in SUBSET K
    BY <1>0 DEF ValuesOf
  <2>2. \A o \in Obj : refs'[o] = refs[o] \/ refs'[o] \subseteq V
    BY <1>0, <1>8 DEF CloseUpvalue, Write
  <2>3. Roots' \subseteq K /\ UNCHANGED <<finalized, phase, grayagain>>
    BY <1>0, <1>8 DEF CloseUpvalue, Roots, gcRest
  <2> QED
    BY <1>6, <1>8, <2>1, <2>2, <2>3 DEF CloseUpvalue
<1> QED
  BY <1>1, <1>2, <1>3, <1>4, <1>5, <1>7, <1>8 DEF HeapOps

\* The writes without a barrier.
LEMMA UnbarrieredGrow ==
  ASSUME TypeOK, UnbarrieredWrites, NEW K \in SUBSET Obj, Sealed(K), Listed(K)
  PROVE  Grown(K, K)
<1>0. /\ Roots \subseteq K /\ Held \subseteq K /\ refs \in [Obj -> SUBSET Obj]
      /\ \A o \in K : refs[o] \subseteq K
  BY SealedHas DEF Sealed, TypeOK
<1>1. ASSUME NEW op, NEW o, NEW old, NEW new, \A c \in new : c \in refs[o] \/ c \in Held,
             Unbarred(op, o, old, new)
      PROVE  Grown(K, K)
  <2>1. /\ UNCHANGED <<color, finalized, phase, gray, grayagain>> /\ Roots' = Roots
        /\ refs' = [refs EXCEPT ![o] = (refs[o] \ old) \union new]
    BY <1>1 DEF Unbarred, Write, Roots, rootVars, gcRest
  <2>2. \A p \in K : refs'[p] \subseteq K
    BY <1>0, <1>1, <2>1
  <2> QED
    BY <1>0, <2>1, <2>2, WriteGrown
<1>2. ASSUME NEW mt \in ValuesOf(Held), SetTypeMetatable(mt) PROVE Grown(K, K)
  <2>1. mt \subseteq Held
    BY DEF ValuesOf
  <2>2. UNCHANGED <<color, refs, finalized, phase, gray, grayagain>> /\ Roots' \subseteq K
    BY <1>0, <1>2, <2>1 DEF SetTypeMetatable, heapVars, gcRest, Roots
  <2> QED
    BY <1>0, <2>2, WriteGrown
<1>3. ASSUME NEW o \in Held, NEW old, NEW new \in ValuesOf(refs[o] \union Held),
             SetFenv(o, old, new) \/ DebugSetMetatable(o, old, new)
               \/ TableSetOverLimit(o, old, new)
      PROVE  Grown(K, K)
  <2>1. \A c \in new : c \in refs[o] \/ c \in Held
    BY DEF ValuesOf
  <2> QED
    BY <1>1, <1>3, <2>1 DEF SetFenv, DebugSetMetatable, TableSetOverLimit
<1>4. ASSUME NEW u \in Upvalues, NEW V \in ValuesOf(Held), DebugSetUpvalue(u, V)
      PROVE  Grown(K, K)
  <2>1. \A c \in V : c \in refs[u] \/ c \in Held
    BY DEF ValuesOf
  <2> QED
    BY <1>1, <1>4, <2>1 DEF DebugSetUpvalue
<1> QED
  BY <1>2, <1>3, <1>4 DEF UnbarrieredWrites

\* The swap of threads.
LEMMA CoroutineGrow ==
  ASSUME TypeOK, CoroutineOps, NEW K \in SUBSET Obj, Sealed(K), Listed(K)
  PROVE  Grown(K, K)
<1>0. /\ Roots \subseteq K /\ stack \subseteq K /\ open \subseteq K /\ parked \subseteq K
      /\ saved \subseteq K /\ typeMetatables \subseteq K /\ tmudata \subseteq K /\ Global \in K
      /\ \A S \in SUBSET K : Content(S) \subseteq K
      /\ \A o \in K : refs[o] \subseteq K
      /\ stack \subseteq Obj /\ open \subseteq Upvalues
  BY SealedHas DEF Sealed, TypeOK, Roots
<1>1. ASSUME NEW co \in stack \intersect Threads, NEW args \in SUBSET stack,
             NEW captured \in Captures(open, stack), Resume(co, args, captured)
      PROVE  Grown(K, K)
  <2> DEFINE suspended == refs[co] \intersect Upvalues
  <2>1. \A u \in open : captured[u] \subseteq stack
    BY <1>0, ValuesType DEF Captures
  <2>2. /\ \A o \in Obj : refs'[o] = IF o \in open THEN captured[o]
                                     ELSE IF o \in suspended \union {co} THEN {}
                                     ELSE refs[o]
        /\ saved' = stack /\ parked' = open /\ open' = suspended
        /\ stack' = (refs[co] \ Upvalues) \union Content(suspended) \union args
        /\ UNCHANGED <<color, finalized, typeMetatables, tmudata, phase, gray, grayagain>>
    BY <1>1 DEF Resume, gcRest
  <2>3. suspended \subseteq K /\ refs[co] \subseteq K /\ Content(suspended) \subseteq K
    BY <1>0
  <2>4. \A o \in K : refs'[o] \subseteq K
    BY <1>0, <2>1, <2>2
  <2> HIDE DEF suspended
  <2>5. Roots' \subseteq K
    BY <1>0, <2>2, <2>3 DEF Roots
  <2> QED
    BY <2>2, <2>4, <2>5, WriteGrown
<1>2. ASSUME NEW kept \in SUBSET stack, NEW passed \in SUBSET stack,
             NEW captured \in Captures(open, kept), Suspend(kept, passed, captured)
      PROVE  Grown(K, K)
  <2>1. \A u \in open : captured[u] \subseteq kept
    BY <1>0, ValuesType DEF Captures
  <2>2. /\ \A o \in Obj : refs'[o] = IF o = current THEN kept \union open
                                     ELSE IF o \in open THEN captured[o]
                                     ELSE IF o \in parked THEN {} ELSE refs[o]
        /\ saved' = {} /\ parked' = {} /\ open' = parked
        /\ stack' = saved \union passed \union Content(parked)
        /\ UNCHANGED <<color, finalized, typeMetatables, tmudata, phase, gray, grayagain>>
    BY <1>2 DEF Suspend, gcRest
  <2>3. Roots' \subseteq K
    BY <1>0, <2>2 DEF Roots
  <2>4. \A o \in K : refs'[o] \subseteq K
    BY <1>0, <2>1, <2>2
  <2> QED
    BY <2>2, <2>3, <2>4, WriteGrown
<1> QED
  BY <1>1, <1>2 DEF CoroutineOps

\* All that the program does.
LEMMA ProgramGrows ==
  ASSUME TypeOK, Program, NEW K \in SUBSET Obj, Sealed(K), Listed(K)
  PROVE  \E L \in SUBSET Obj : Grown(K, L)
  BY HeapOpsGrow, UnbarrieredGrow, CoroutineGrow DEF Program

-----------------------------------------------------------------------------
(***************************************************************************)
(* Types, the cursor and the gray list are in order whatever the program   *)
(* writes and whoever steps the collector.                                 *)
(***************************************************************************)
LEMMA HeapSingleStep == HeapInv /\ SingleStep => HeapInv'
<1> SUFFICES ASSUME HeapInv, SingleStep PROVE HeapInv'
  OBVIOUS
<1>1. Cursor' /\ TypeOK
  BY TypeSingleStep, CursorSingleStep DEF HeapInv, Cursor
<1>2. ASSUME NEW S \in SUBSET Obj
      PROVE  /\ Marked(S) \subseteq White /\ White \subseteq Allocated
             /\ \A o \in Obj : Shade(Marked(S))[o] = "free" <=> color[o] = "free"
  BY <1>1, MarkedClosed, MarkingFacts, WhiteFacts DEF White, Allocated
<1>3. FirstRoots \in SUBSET Obj /\ MainRoots \in SUBSET Obj
      /\ \A o \in Obj : refs[o] \in SUBSET Obj
  BY <1>1, GlobalType, KindsApart DEF FirstRoots, MainRoots, TypeOK
<1>4. CASE StartCycle \/ PropagateMain
  <2>1. PICK S \in SUBSET Obj :
          /\ color' = Shade(Marked(S)) /\ gray' = Marked(S) \ Instant /\ phase' = "Propagate"
    <3>1. CASE StartCycle
      BY <1>3, <3>1 DEF StartCycle, MarkRoots
    <3>2. CASE PropagateMain
      BY <1>3, <3>2 DEF PropagateMain
    <3> QED
      BY <1>4, <3>1, <3>2
  <2>2. gray' \subseteq Allocated /\ \A o \in Obj : color'[o] = "free" <=> color[o] = "free"
    BY <1>2, <2>1
  <2> QED
    BY <1>1, <2>1, <2>2 DEF GrayLive, Allocated, HeapInv
<1>6. ASSUME NEW p \in Obj, PropagateOne(p) PROVE GrayLive'
  <2>1. /\ p \in gray /\ phase' = "Propagate"
        /\ color' = [Shade(Marked(refs[p])) EXCEPT ![p] = "black"]
        /\ gray' = (gray \ {p}) \union (Marked(refs[p]) \ Instant)
    BY <1>6 DEF PropagateOne
  <2>2. \A o \in Obj : color[o] # "free" => color'[o] # "free"
    BY <1>2, <1>3, <2>1 DEF Shade
  <2> QED
    BY <1>2, <1>3, <2>1, <2>2 DEF GrayLive, HeapInv, Allocated
<1>7. CASE Atomic \/ SweepStrings \/ SweepOther \/ EndCycle \/ \E d \in Userdata : CallFinalizer(d)
  <2>1. gray' = gray /\ (gray = {} \/ phase # "Propagate")
    BY <1>7 DEF Atomic, SweepStrings, SweepOther, EndCycle, CallFinalizer, gcVars
  <2>2. gray' = {}
    BY <2>1 DEF GrayLive, HeapInv
  <2> QED
    BY <1>1, <2>2 DEF GrayLive, HeapInv
<1> QED
  BY <1>1, <1>4, <1>6, <1>7 DEF SingleStep, HeapInv

\* The program allocates, and its barriers list what is allocated.
LEMMA HeapProgram == HeapInv /\ Program => HeapInv'
<1> SUFFICES ASSUME HeapInv, Program PROVE HeapInv'
  OBVIOUS
<1>1. TypeOK /\ TypeOK' /\ Cursor'
  BY TypeHeapOps, TypeUnbarriered, TypeCoroutineOps, CursorProgram DEF HeapInv, Cursor, Program
<1>2. phase' = phase
  BY ProgramRest DEF gcRest
<1>3. /\ \A o \in Obj : color[o] # "free" => color'[o] # "free"
      /\ gray' \subseteq gray \union Allocated
      /\ phase # "Propagate" => gray' = gray
  <2>1. ASSUME NEW S, NEW r, Occupy(S, r)
        PROVE  \A o \in Obj : color[o] # "free" => color'[o] # "free"
    BY <1>1, <2>1, WhiteFacts DEF Occupy, NewWhite
  <2>2. ASSUME NEW u, NEW V \in SUBSET Obj, BarrierForward(u, V)
        PROVE  /\ \A o \in Obj : color[o] # "free" => color'[o] # "free"
               /\ gray' \subseteq gray \union Allocated
               /\ phase # "Propagate" => gray' = gray
    <3>1. /\ Marked(V) \subseteq Allocated
          /\ \A o \in Obj : Shade(Marked(V))[o] = "free" <=> color[o] = "free"
      BY <1>1, MarkedClosed, MarkingFacts, WhiteFacts DEF White, Allocated
    <3> QED
      BY <2>2, <3>1 DEF BarrierForward
  <2>3. stack \subseteq Obj /\ Held \subseteq Obj
    BY <1>1, GlobalType DEF TypeOK, Held
  <2>4. \A V \in ValuesOf(Held) \union ValuesOf(stack) : V \in SUBSET Obj
    BY <2>3, ValuesType
  <2>5. CASE HeapOps
    <3>1. ASSUME NEW S, NEW r, Occupy(S, r), gray' = gray
          PROVE  /\ \A o \in Obj : color[o] # "free" => color'[o] # "free"
                 /\ gray' \subseteq gray \union Allocated /\ gray' = gray
      BY <2>1, <3>1
    <3>2. (\E o \in Obj, R \in SUBSET stack : Alloc(o, R))
            \/ (\E c \in Closures, U \in SUBSET Upvalues : MakeClosure(c, U))
          => \E S, r : Occupy(S, r) /\ gray' = gray
      BY DEF Alloc, MakeClosure
    <3>3. (\E v \in Obj : Load(v)) \/ (\E v \in stack : Drop(v))
          => color' = color /\ gray' = gray
      BY DEF Load, Drop, heapVars
    <3>4. ASSUME NEW t, NEW old, NEW new, TableSet(t, old, new)
          PROVE  gray' = gray /\ \A o \in Obj : color[o] # "free" => color'[o] # "free"
      <4>1. gray' = gray /\ BarrierBack(t)
        BY <3>4 DEF TableSet
      <4>2. color \in [Obj -> Colors]
        BY <1>1 DEF TypeOK
      <4> QED
        BY <4>1, <4>2 DEF BarrierBack
    <3>5. (\E u \in Upvalues, V \in ValuesOf(Held) : SetUpvalue(u, V))
            \/ (\E u \in open, V \in ValuesOf(stack) : CloseUpvalue(u, V))
          => \E u, V : V \in SUBSET Obj /\ BarrierForward(u, V)
      BY <2>4 DEF SetUpvalue, CloseUpvalue
    <3> QED
      BY <2>2, <2>5, <3>1, <3>2, <3>3, <3>4, <3>5 DEF HeapOps
  <2>6. CASE UnbarrieredWrites
    BY <2>6
    DEF UnbarrieredWrites, SetFenv, DebugSetMetatable, TableSetOverLimit,
        DebugSetUpvalue, SetTypeMetatable, Unbarred, heapVars
  <2>7. CASE CoroutineOps
    BY <2>7 DEF CoroutineOps, Resume, Suspend
  <2> QED
    BY <2>5, <2>6, <2>7 DEF Program
<1> QED
  BY <1>1, <1>2, <1>3 DEF HeapInv, GrayLive, Allocated

\* mark_roots may begin on a heap that is half marked.
LEMMA HeapMarkRoots == HeapInv /\ phase \in {"Pause", "Propagate"} /\ MarkRoots => HeapInv'
<1> SUFFICES ASSUME HeapInv, phase \in {"Pause", "Propagate"}, MarkRoots PROVE HeapInv'
  OBVIOUS
<1>1. TypeOK /\ FirstRoots \in SUBSET Obj
  BY GlobalType, KindsApart DEF FirstRoots, HeapInv, Cursor, TypeOK
<1>2. /\ color' = Shade(Marked(FirstRoots)) /\ gray' = Marked(FirstRoots) \ Instant
      /\ grayagain' = {} /\ mainGray' = TRUE /\ phase' = "Propagate" /\ doomed' = Garbage
      /\ UNCHANGED <<refs, finalized, currentWhite, arena, unswept, tmudata>>
      /\ UNCHANGED rootVars
  BY DEF MarkRoots
<1>3. /\ Marked(FirstRoots) \subseteq White /\ White \subseteq Allocated
      /\ \A o \in Obj : color'[o] = "free" <=> color[o] = "free"
      /\ color' \in [Obj -> Colors]
  BY <1>1, <1>2, MarkedClosed, MarkingFacts, WhiteFacts, ShadeType DEF White, Allocated
<1>4. TypeOK'
  <2>1. gray' \subseteq Obj /\ doomed' \subseteq Obj /\ phase' \in Phases /\ mainGray' \in BOOLEAN
    BY <1>2, <1>3 DEF Allocated, Garbage, Phases
  <2> QED
    BY <1>1, <1>2, <1>3, <2>1 DEF TypeOK, rootVars
<1>5. Settled' /\ Pending'
  BY <1>2 DEF HeapInv, Cursor, Settled, Pending, Sweeping, rootVars
<1>6. GrayLive'
  BY <1>2, <1>3 DEF GrayLive, Allocated
<1> QED
  BY <1>4, <1>5, <1>6 DEF HeapInv, Cursor

\* Abandoning a cycle puts the cursor in front of the whole heap.
LEMMA HeapBeginFull == HeapInv /\ BeginFull => HeapInv' /\ phase' # "Propagate"
<1> SUFFICES ASSUME HeapInv, BeginFull PROVE HeapInv' /\ phase' # "Propagate"
  OBVIOUS
<1>1. UNCHANGED <<color, refs, finalized, stack, open, saved, parked, current,
                  typeMetatables, currentWhite, tmudata>>
  BY DEF BeginFull, heapVars, rootVars
<1>2. CASE phase \notin {"Pause", "Propagate"}
  <2>1. UNCHANGED <<gray, grayagain, mainGray, phase, arena, unswept, doomed>>
    BY <1>2 DEF BeginFull, Abandons
  <2> QED
    BY <1>1, <1>2, <2>1
    DEF HeapInv, Cursor, TypeOK, Settled, Pending, Sweeping, Allocated, GrayLive
<1>3. CASE phase \in {"Pause", "Propagate"}
  <2>1. /\ gray' = {} /\ grayagain' = {} /\ mainGray' = FALSE
        /\ phase' = "SweepString" /\ arena' = 1
        /\ unswept' = Allocated /\ doomed' = {}
    BY <1>3 DEF BeginFull, Abandons
  <2>2. TypeOK'
    <3>1. 1 \in 1..6 /\ "SweepString" \in Phases /\ FALSE \in BOOLEAN
      BY DEF Phases
    <3>2. phase' \in Phases /\ arena' \in 1..6 /\ mainGray' \in BOOLEAN
      BY <2>1, <3>1, Zenon
    <3>3. /\ gray' \subseteq Obj /\ grayagain' \subseteq Obj
          /\ unswept' \subseteq Obj /\ doomed' \subseteq Obj
      BY <2>1 DEF Allocated
    <3> QED
      BY <1>1, <3>2, <3>3 DEF HeapInv, Cursor, TypeOK
  <2>3. Allocated' = Allocated /\ \A o \in Obj \ Allocated : color'[o] = "free"
    BY <1>1 DEF Allocated
  <2>4. \A i \in 1..6 : ~(i < 1)
    OBVIOUS
  <2>5. Settled' /\ Pending'
    BY <1>1, <2>1, <2>3, <2>4 DEF Settled, Pending, Sweeping, HeapInv, Cursor
  <2> QED
    BY <2>1, <2>2, <2>5 DEF HeapInv, Cursor, GrayLive
<1> QED
  BY <1>2, <1>3

\* It holds while nothing happens to the heap.
LEMMA HeapSame == HeapInv /\ UNCHANGED vars => HeapInv'
  BY DEF HeapInv, Cursor, TypeOK, Settled, Pending, Sweeping, Allocated, GrayLive,
         vars, heapVars, rootVars, gcVars

\* Every step of the drivers keeps it.
LEMMA HeapStep == HeapInv /\ [DriverNext]_<<vars, driverVars>> => HeapInv'
<1> SUFFICES ASSUME HeapInv, [DriverNext]_<<vars, driverVars>> PROVE HeapInv'
  OBVIOUS
<1>1. BeginStep \/ StepMore \/ FinishMore \/ CycleMore => SingleStep
  BY DriveSteps DEF BeginStep, StepMore, FinishMore, CycleMore
<1>2. StepDone \/ CycleDone \/ FinalizerReturns \/ FinalizerFails => UNCHANGED vars
  BY DEF StepDone, CycleDone, FinalizerReturns, FinalizerFails
<1>3. FinishDone => phase \in {"Pause", "Propagate"} /\ MarkRoots
  BY DEF FinishDone
<1>4. Mutate => Program
  BY DEF Mutate
<1>5. UNCHANGED <<vars, driverVars>> => UNCHANGED vars
  OBVIOUS
<1> QED
  BY <1>1, <1>2, <1>3, <1>4, <1>5, HeapSingleStep, HeapProgram, HeapMarkRoots,
     HeapBeginFull, HeapSame DEF DriverNext

-----------------------------------------------------------------------------
(***************************************************************************)
(* The bottom of the stack changes only where a driver begins or ends.     *)
(***************************************************************************)
LEMMA FirstIs ==
  ASSUME NEW c, Nested(c), c # <<>>
  PROVE  /\ \A d \in Drivers \union {"gc"} : Append(c, d)[1] = c[1]
         /\ Front(c) # <<>> => Front(c)[1] = c[1]
         /\ Front(c) # <<>> /\ Front(Front(c)) # <<>> => Front(Front(c))[1] = c[1]
<1>1. 1 \in 1..Len(c)
  BY TopIs DEF Drivers
<1>2. \A d \in Drivers \union {"gc"} : Append(c, d)[1] = c[1]
  BY <1>1, TopIs
<1>3. ASSUME NEW f, Nested(f), f # <<>>, Front(f) # <<>>
      PROVE  Front(f)[1] = f[1] /\ Nested(Front(f))
  <2>1. /\ Front(f) \in Seq(Drivers \union {"gc"}) /\ Len(Front(f)) = Len(f) - 1
        /\ Len(f) \in Nat /\ \A i \in 1..Len(f) - 1 : Front(f)[i] = f[i]
    BY <1>3, FrontIs DEF Nested
  <2>2. Len(Front(f)) >= 1
    BY <1>3, <2>1
  <2>3. Nested(Front(f))
    <3>1. /\ Len(Front(f)) > 0 => Front(f)[1] # "gc"
      BY <1>3, <2>1, <2>2 DEF Nested
    <3>2. \A i \in 2..Len(Front(f)) : Front(f)[i] = "gc" <=> Front(f)[i - 1] # "gc"
      BY <1>3, <2>1 DEF Nested
    <3> QED
      BY <2>1, <3>1, <3>2 DEF Nested
  <2> QED
    BY <2>1, <2>2, <2>3
<1> QED
  BY <1>2, <1>3

(***************************************************************************)
(* Every step of the collector stays within a sealed set; the set of all   *)
(* objects is one, so free slots stay free.                                *)
(***************************************************************************)
LEMMA SingleWithin ==
  ASSUME HeapInv, SingleStep, NEW K \in SUBSET Obj, Sealed(K), Listed(K)
  PROVE  Within(K)
<1>1. TypeOK /\ Settled /\ GrayLive
  BY DEF HeapInv, Cursor
<1> QED
  BY <1>1, MarkRootsWithin, PropagateWithin, AtomicWithin, SweepWithin, FinalizeWithin
  DEF SingleStep, StartCycle

LEMMA AllSealed ==
  ASSUME TypeOK
  PROVE  \E K \in SUBSET Obj : K = Obj /\ Sealed(K) /\ Listed(K)
<1>1. Roots \subseteq Obj /\ Awaiting \subseteq Obj
  BY GlobalType, KindsApart DEF Roots, Awaiting, Allocated, TypeOK
<1> QED
  BY <1>1 DEF Sealed, Listed, TypeOK

LEMMA StepFrees ==
  ASSUME HeapInv, SingleStep
  PROVE  \A o \in Obj : color[o] = "free" => color'[o] = "free"
  BY AllSealed, SingleWithin DEF Within, HeapInv, Cursor

\* Nothing is owed before the first call.
LEMMA OwedInit == DriverInit => HeapInv /\ OwedInv
<1> SUFFICES ASSUME DriverInit PROVE HeapInv /\ OwedInv
  OBVIOUS
<1>1. Cursor /\ GrayLive
  BY TypeInit, CursorInit DEF DriverInit, Init, Cursor, GrayLive
<1> QED
  BY <1>1 DEF HeapInv, OwedInv, Collecting, DriverInit

\* What is owed does not change with the call stack alone.
LEMMA OwedSame ==
  ASSUME OwedInv, UNCHANGED vars, owed' = owed,
         calls' # <<>> => /\ calls # <<>> /\ calls'[1] = calls[1]
                          /\ Len(calls) = 1 => Len(calls') = 1
  PROVE  OwedInv'
<1> SUFFICES ASSUME Collecting', Unpaid' # {} PROVE \E K \in SUBSET Obj : Owes(K)'
  BY DEF OwedInv
<1>1. UNCHANGED <<color, refs, finalized, phase, currentWhite, gray, grayagain, tmudata>>
      /\ UNCHANGED rootVars
  BY DEF vars, heapVars, gcVars
<1>2. Unpaid' = Unpaid /\ Roots' = Roots /\ Awaiting' = Awaiting
  BY <1>1 DEF Unpaid, Allocated, Awaiting, Roots, rootVars
<1>3. Collecting /\ calls'[1] = calls[1] /\ (Len(calls) = 1 => Len(calls') = 1)
  BY DEF Collecting
<1>4. PICK K \in SUBSET Obj : Owes(K)
  BY <1>2, <1>3 DEF OwedInv
<1>5. Sealed(K)' /\ Listed(K)' /\ Sweeping' = Sweeping /\ OtherWhite' = OtherWhite
  BY <1>1, <1>2, <1>4 DEF Owes, Sealed, Listed, Sweeping, OtherWhite
<1> QED
  BY <1>1, <1>2, <1>3, <1>4, <1>5 DEF Owes

(***************************************************************************)
(* A step of the collector, by whichever driver.  Marking leaves what is   *)
(* owed white, the atomic step condemns it, and the sweep that follows in  *)
(* the fresh cycle frees it before it is over.                             *)
(***************************************************************************)
LEMMA OwedWork ==
  ASSUME HeapInv, OwedInv, SingleStep, owed' = owed,
         Collecting' => calls # <<>> /\ calls'[1] = calls[1],
         Collecting' /\ Len(calls) = 1 /\ phase # "Finalize" => calls' = calls
  PROVE  OwedInv'
<1> SUFFICES ASSUME Collecting', Unpaid' # {} PROVE \E K \in SUBSET Obj : Owes(K)'
  BY DEF OwedInv
<1>1. /\ Unpaid' \subseteq Unpaid /\ Unpaid \subseteq Obj
      /\ \A o \in Unpaid' : color'[o] # "free"
      /\ \A o \in Unpaid : color[o] # "free"
  BY StepFrees DEF Unpaid, Allocated
<1>2. Collecting /\ calls'[1] = calls[1]
  BY DEF Collecting
<1>3. PICK K \in SUBSET Obj : Owes(K)
  BY <1>1, <1>2 DEF OwedInv
<1>4. Sealed(K) /\ Listed(K) /\ K \intersect Unpaid = {} /\ Within(K)
  BY <1>3, SingleWithin DEF Owes
<1>5. TypeOK /\ Settled /\ Settled' /\ GrayLive
  BY HeapSingleStep DEF HeapInv, Cursor
<1>6. CASE StartCycle
  <2>1. phase = "Pause" /\ phase' = "Propagate" /\ currentWhite' = currentWhite
        /\ \A o \in Obj \ K : color'[o] = color[o]
    BY <1>4, <1>5, <1>6, MarkRootsWithin DEF StartCycle
  <2>2. \A o \in Unpaid' : color'[o] = currentWhite'
    BY <1>1, <1>4, <1>5, <2>1 DEF Settled
  <2>3. calls[1] # "cycle"
    BY <1>3, <2>1 DEF Owes
  <2> QED
    BY <1>1, <1>2, <1>4, <2>1, <2>2, <2>3 DEF Owes, Within
<1>7. CASE PropagateMain \/ \E o \in Obj : PropagateOne(o)
  <2>1. phase' = "Propagate" /\ currentWhite' = currentWhite
        /\ \A o \in Obj \ K : color'[o] = color[o]
    BY <1>4, <1>5, <1>7, PropagateWithin
  <2>2. phase = "Propagate"
    BY <1>7 DEF PropagateMain, PropagateOne
  <2>3. \A o \in Unpaid' : color'[o] = currentWhite'
    BY <1>1, <1>3, <1>4, <2>1, <2>2 DEF Owes
  <2>4. calls'[1] = "cycle" => calls' = calls /\ Len(calls) = 1
    BY <1>2, <1>3, <2>2 DEF Owes
  <2> QED
    BY <1>1, <1>4, <2>1, <2>3, <2>4 DEF Owes, Within, Sweeping
<1>8. CASE Atomic
  <2>1. /\ phase = "Propagate" /\ phase' = "SweepString" /\ currentWhite' = OtherWhite
        /\ \A o \in (Obj \ K) \intersect White : color'[o] = color[o]
    BY <1>4, <1>5, <1>8, AtomicWithin
  <2>2. currentWhite \in Whites /\ OtherWhite' = currentWhite
    BY <1>5, <2>1 DEF OtherWhite, TypeOK, Whites
  <2>3. \A o \in Unpaid' : color'[o] = OtherWhite'
    BY <1>1, <1>3, <1>4, <2>1, <2>2 DEF Owes, White
  <2>4. calls'[1] = "cycle" => calls' = calls /\ Len(calls) = 1
    BY <1>2, <1>3, <2>1 DEF Owes
  <2> QED
    BY <1>1, <1>4, <2>1, <2>3, <2>4 DEF Owes, Within
<1>9. CASE SweepStrings \/ SweepOther
  <2>1. /\ Sweeping /\ phase' \in {"SweepString", "Sweep", "Finalize"}
        /\ currentWhite' = currentWhite
        /\ \A o \in Obj : color[o] = OtherWhite /\ color'[o] # "free"
                            => color'[o] = OtherWhite
    BY <1>4, <1>5, <1>9, SweepWithin
  <2>2. OtherWhite' = OtherWhite /\ OtherWhite # currentWhite
    BY <1>5, <2>1, WhiteFacts DEF OtherWhite
  <2>3. calls[1] = "cycle" => \A o \in Unpaid' : color'[o] = OtherWhite'
    BY <1>1, <1>3, <2>1, <2>2 DEF Owes
  <2>4. calls[1] = "cycle" => phase' # "Finalize"
    BY <1>1, <1>5, <2>1, <2>2, <2>3 DEF Settled
  <2>5. calls'[1] = "cycle" => calls' = calls /\ Len(calls) = 1
    BY <1>2, <1>3 DEF Owes
  <2> QED
    BY <1>1, <1>2, <1>4, <2>1, <2>3, <2>4, <2>5 DEF Owes, Within
<1>10. CASE EndCycle \/ \E d \in Userdata : CallFinalizer(d)
  <2>1. phase = "Finalize" /\ phase' # "Propagate"
    BY <1>4, <1>5, <1>10, FinalizeWithin
  <2>2. calls'[1] # "cycle"
    BY <1>2, <1>3, <2>1 DEF Owes
  <2> QED
    BY <1>1, <1>4, <2>1, <2>2 DEF Owes, Within
<1> QED
  BY <1>6, <1>7, <1>8, <1>9, <1>10 DEF SingleStep

(***************************************************************************)
(* mark_roots of the fresh cycle, from whichever phase: a full_gc at the   *)
(* bottom of the stack is alone on it, or it is in a finalizer of its      *)
(* first loop.                                                             *)
(***************************************************************************)
LEMMA OwedMark ==
  ASSUME HeapInv, OwedInv, phase \in {"Pause", "Propagate"}, MarkRoots, owed' = owed,
         Collecting' => Collecting,
         Collecting' /\ calls[1] = "cycle" => Len(calls) # 1,
         Collecting' /\ calls[1] = "finish" /\ calls'[1] = "cycle" => Len(calls') = 1
  PROVE  OwedInv'
<1> SUFFICES ASSUME Collecting', Unpaid' # {} PROVE \E K \in SUBSET Obj : Owes(K)'
  BY DEF OwedInv
<1>0. TypeOK /\ Settled
  BY DEF HeapInv, Cursor
<1>1. /\ phase' = "Propagate" /\ currentWhite' = currentWhite
      /\ \A o \in Obj : color'[o] = "free" <=> color[o] = "free"
  BY <1>0, AllSealed, MarkRootsWithin
<1>2. Unpaid' = Unpaid /\ Unpaid \subseteq Obj /\ \A o \in Unpaid : color[o] # "free"
  BY <1>1 DEF Unpaid, Allocated
<1>3. PICK K \in SUBSET Obj : Owes(K)
  BY <1>2 DEF OwedInv
<1>4. Sealed(K) /\ Listed(K) /\ K \intersect Unpaid = {}
  BY <1>3 DEF Owes
<1>5. Within(K) /\ \A o \in Obj \ K : color'[o] = color[o]
  BY <1>0, <1>4, MarkRootsWithin
<1>6. \A o \in Unpaid' : color'[o] = currentWhite'
  BY <1>0, <1>1, <1>2, <1>3, <1>4, <1>5 DEF Owes, Settled
<1>7. calls'[1] = "cycle" => Len(calls') = 1
  BY <1>3 DEF Owes, Collecting
<1> QED
  BY <1>1, <1>2, <1>4, <1>5, <1>6, <1>7 DEF Owes, Within, Sweeping

(***************************************************************************)
(* collectgarbage() owes what is garbage when the program calls it; called *)
(* by a finalizer it changes nothing of what is owed already.              *)
(***************************************************************************)
LEMMA OwedBegin ==
  ASSUME LockInv, HeapInv, OwedInv, BeginFull
  PROVE  OwedInv'
<1> SUFFICES ASSUME Collecting', Unpaid' # {} PROVE \E K \in SUBSET Obj : Owes(K)'
  BY DEF OwedInv
<1>1. /\ UNCHANGED <<color, refs, finalized, stack, open, saved, parked, typeMetatables,
                     tmudata>>
      /\ calls' = Append(calls, "finish")
      /\ owed' = IF calls = <<>> THEN Garbage ELSE owed
      /\ calls = <<>> \/ Last(calls) = "gc"
  BY DEF BeginFull, heapVars, rootVars, AtRest, MayCall, ProgramTurn, Loop
<1>2. phase' # "Propagate"
  BY HeapBeginFull
<1>3. Allocated' = Allocated /\ Roots' = Roots /\ Awaiting' = Awaiting
  BY <1>1 DEF Allocated, Roots, Awaiting
<1>4. Nested(calls) /\ "finish" \in Drivers
  BY DEF LockInv, Drivers
<1>5. ASSUME NEW K \in SUBSET Obj, Sealed(K), K \intersect Unpaid' = {},
             calls'[1] = "finish"
      PROVE  Owes(K)'
  <2>1. Sealed(K)'
    BY <1>1, <1>3, <1>5 DEF Sealed
  <2>2. Listed(K)'
    BY <1>2 DEF Listed
  <2> QED
    BY <1>2, <1>5, <2>1, <2>2 DEF Owes
<1>6. CASE calls = <<>>
  <2> DEFINE T == Roots \union Awaiting
             K == Reach(T, Obj)
  <2>1. T \in SUBSET Obj /\ refs \in [Obj -> SUBSET Obj]
    BY GlobalType, KindsApart DEF Roots, Awaiting, Allocated, HeapInv, Cursor, TypeOK
  <2>2. T \subseteq K /\ K \in SUBSET Obj /\ \A p \in K : refs[p] \subseteq K
    BY <2>1, ReachLeast
  <2>3. Unpaid' \subseteq Obj \ K
    BY <1>1, <1>3, <1>6 DEF Unpaid, Garbage, Allocated
  <2> HIDE DEF K
  <2>4. Sealed(K)
    BY <2>2 DEF Sealed
  <2>5. calls'[1] = "finish"
    BY <1>1, <1>6
  <2> QED
    BY <1>5, <2>2, <2>3, <2>4, <2>5
<1>7. CASE calls # <<>>
  <2>1. calls'[1] = calls[1] /\ Unpaid' = Unpaid
    BY <1>1, <1>3, <1>4, <1>7, FirstIs DEF Unpaid
  <2>2. PICK K \in SUBSET Obj : Owes(K)
    BY <1>7, <2>1 DEF OwedInv, Collecting
  <2>3. Len(calls) # 1
    BY <1>1, <1>4, <1>7, TopIs DEF Nested
  <2>4. calls'[1] = "finish"
    BY <2>1, <2>2, <2>3 DEF Owes, Collecting
  <2> QED
    BY <1>5, <2>1, <2>2, <2>4 DEF Owes
<1> QED
  BY <1>6, <1>7

\* The program does not get at what is owed, and has no turn in the fresh cycle
\* before that has finalizers to call.
LEMMA OwedProgram ==
  ASSUME LockInv, HeapInv, OwedInv, Mutate
  PROVE  OwedInv'
<1> SUFFICES ASSUME Collecting', Unpaid' # {} PROVE \E K \in SUBSET Obj : Owes(K)'
  BY DEF OwedInv
<1>1. /\ Program /\ calls' = calls /\ owed' = {o \in owed : color[o] # "free"}
      /\ calls # <<>> /\ Last(calls) = "gc"
  BY DEF Mutate, Collecting, ProgramTurn, AtRest, Loop
<1>2. Unpaid' \subseteq Unpaid /\ Unpaid \subseteq Allocated /\ Allocated \subseteq Obj
  BY <1>1 DEF Unpaid, Allocated
<1>3. PICK K \in SUBSET Obj : Owes(K)
  BY <1>1, <1>2 DEF OwedInv, Collecting
<1>4. Sealed(K) /\ Listed(K) /\ K \intersect Unpaid = {} /\ TypeOK
  BY <1>3 DEF Owes, HeapInv, Cursor
<1>5. PICK L \in SUBSET Obj : Grown(K, L)
  BY <1>1, <1>4, ProgramGrows
<1>6. phase' = phase /\ currentWhite' = currentWhite
  BY <1>1, ProgramRest DEF gcRest
<1>7. Sealed(L)' /\ Listed(L)' /\ L \intersect Unpaid' = {}
  BY <1>2, <1>4, <1>5 DEF Grown, Allocated
<1>8. phase' = "Propagate" => \A o \in Unpaid' : color'[o] = currentWhite'
  BY <1>2, <1>3, <1>5, <1>6, <1>7 DEF Owes, Grown
<1>9. Len(calls) # 1 /\ calls'[1] = calls[1]
  BY <1>1, TopIs DEF LockInv, Nested
<1> QED
  BY <1>3, <1>7, <1>8, <1>9 DEF Owes

\* Every step of the drivers.
LEMMA OwedStep ==
  ASSUME LockInv, HeapInv, OwedInv, [DriverNext]_<<vars, driverVars>>
  PROVE  OwedInv'
<1>0. /\ Nested(calls) /\ Locks(calls, gcRunning) /\ gcRunning \in BOOLEAN
      /\ "step" \in Drivers /\ "cycle" \in Drivers /\ "gc" \notin Drivers
  BY DEF LockInv, Locks, Drivers
<1>1. CASE BeginStep
  <2>1. /\ Drive(Append(calls, "step")) /\ Locks(calls, FALSE)
        /\ calls = <<>> \/ Last(calls) = "gc"
    BY <1>0, <1>1 DEF BeginStep, MayCall, ProgramTurn, AtRest, Loop
  <2>2. /\ SingleStep /\ owed' = owed
        /\ \/ calls' = Append(calls, "step")
           \/ calls' = Append(Append(calls, "step"), "gc")
    BY <2>1, DriveSteps DEF Drive
  <2>3. Nested(Append(calls, "step")) /\ Append(calls, "step") # <<>>
    BY <1>0, <2>1, LockBegin
  <2>4. calls'[1] = Append(calls, "step")[1]
    BY <2>2, <2>3, FirstIs
  <2>5. CASE calls = <<>>
    <3>1. Append(calls, "step")[1] = "step"
      BY <2>5
    <3> QED
      BY <2>4, <3>1 DEF OwedInv, Collecting
  <2>6. CASE calls # <<>>
    <3>1. calls'[1] = calls[1]
      BY <1>0, <2>4, <2>6, FirstIs
    <3>2. Collecting' => Len(calls) # 1
      BY <1>0, <2>1, <2>6, TopIs DEF Nested
    <3> QED
      BY <2>2, <2>6, <3>1, <3>2, OwedWork
  <2> QED
    BY <2>5, <2>6
<1>2. CASE StepMore \/ FinishMore \/ CycleMore
  <2>1. calls # <<>> /\ Drive(calls)
    BY <1>2 DEF StepMore, FinishMore, CycleMore, Loop
  <2>2. /\ SingleStep /\ owed' = owed
        /\ calls' = calls \/ (calls' = Append(calls, "gc") /\ phase = "Finalize")
    BY <2>1, DriveSteps DEF Drive
  <2>3. calls'[1] = calls[1]
    BY <1>0, <2>1, <2>2, FirstIs
  <2> QED
    BY <2>1, <2>2, <2>3, OwedWork
<1>3. CASE StepDone \/ CycleDone \/ FinalizerReturns \/ FinalizerFails
  <2>1. UNCHANGED vars /\ owed' = owed /\ calls # <<>>
        /\ \/ calls' = Front(calls)
           \/ calls' = Front(Front(calls)) /\ Last(calls) = "gc"
    BY <1>3 DEF StepDone, CycleDone, FinalizerReturns, FinalizerFails, Loop
  <2>2. Last(calls) = "gc" => Front(calls) # <<>>
    BY <1>0, <2>1, LockReturn
  <2>3. calls' # <<>> => calls'[1] = calls[1]
    BY <1>0, <2>1, <2>2, FirstIs
  <2>4. Len(calls) = 1 => Front(calls) = <<>>
    BY <1>0, <2>1, FrontIs DEF Nested
  <2>5. calls' # <<>> => Len(calls) # 1
    BY <2>1, <2>2, <2>4
  <2> QED
    BY <2>1, <2>3, <2>5, OwedSame
<1>4. CASE BeginFull
  BY <1>4, OwedBegin
<1>5. CASE FinishDone
  <2>1. /\ calls # <<>> /\ phase \in {"Pause", "Propagate"} /\ MarkRoots /\ owed' = owed
        /\ calls' = Append(Front(calls), "cycle") /\ Last(calls) = "finish"
    BY <1>5 DEF FinishDone, Loop
  <2>2. Nested(Front(calls)) /\ Len(calls) >= 1 /\ Last(calls) = calls[Len(calls)]
        /\ Len(Front(calls)) = Len(calls) - 1 /\ Len(calls) \in Nat
    BY <1>0, <2>1, LockReturn, FrontIs DEF Nested
  <2>3. Front(calls) = <<>> => Len(calls) = 1 /\ Len(calls') = 1
    BY <2>1, <2>2
  <2>4. Front(calls) # <<>> => calls'[1] = calls[1]
    BY <1>0, <2>1, <2>2, FirstIs
  <2>5. Collecting' => Collecting
    BY <2>1, <2>2, <2>3, <2>4 DEF Collecting
  <2> QED
    BY <2>1, <2>2, <2>3, <2>4, <2>5, OwedMark
<1>6. CASE Mutate
  BY <1>6, OwedProgram
<1>7. CASE UNCHANGED <<vars, driverVars>>
  BY <1>7, OwedSame DEF driverVars
<1> QED
  BY <1>1, <1>2, <1>3, <1>4, <1>5, <1>6, <1>7 DEF DriverNext

(***************************************************************************)
(* A collectgarbage() that returns has freed all that was garbage when it  *)
(* was called, whichever phase it interrupted and whatever its finalizers  *)
(* did in between: they run the program, collect, step the collector, fail *)
(* and call one another's collections, and write with or without barriers. *)
(***************************************************************************)
THEOREM FullCollectionComplete == DriverSpec => FullCollects
<1> DEFINE Paid == CycleDone /\ Len(calls) = 1 => owed \intersect Allocated = {}
<1>1. LockInv /\ OwedInv => Paid
  <2> SUFFICES ASSUME LockInv, OwedInv, CycleDone, Len(calls) = 1, Unpaid # {}
               PROVE  FALSE
    BY DEF Unpaid
  <2>1. calls # <<>> /\ Last(calls) = "cycle" /\ phase = "Pause" /\ Nested(calls)
    BY DEF CycleDone, Loop, LockInv
  <2>2. calls[1] = "cycle"
    BY <2>1, TopIs DEF Drivers
  <2>3. PICK K \in SUBSET Obj : Owes(K)
    BY <2>1, <2>2 DEF OwedInv, Collecting
  <2> QED
    BY <2>1, <2>2, <2>3 DEF Owes
<1>2. DriverInit => LockInv /\ HeapInv /\ OwedInv
  BY LockInit, OwedInit
<1>3. LockInv /\ HeapInv /\ OwedInv /\ [DriverNext]_<<vars, driverVars>>
        => LockInv' /\ HeapInv' /\ OwedInv'
  BY LockStep, HeapStep, OwedStep
<1> HIDE DEF Paid
<1>4. DriverSpec => [][Paid]_<<vars, driverVars>>
  BY <1>1, <1>2, <1>3, PTL DEF DriverSpec
<1> QED
  BY <1>4, PTL DEF FullCollects, Paid
=============================================================================
