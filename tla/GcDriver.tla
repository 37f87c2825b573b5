------------------------------ MODULE GcDriver ------------------------------
(***************************************************************************)
(* The drivers of the collector (gc_step, full_gc, collectgarbage) and the *)
(* finalizers they run.  A finalizer is Lua code: while it runs the        *)
(* program continues inside the driver's loop, it may call the collector   *)
(* again, and it may raise an error that unwinds the loop.                 *)
(*                                                                         *)
(* calls is the call stack, as far as the collector is on it:              *)
(*   "step"    the loop of gc_step                                         *)
(*   "finish"  the first loop of full_gc_inner, which ends a pending cycle *)
(*   "cycle"   its second loop, which runs a fresh one                     *)
(*   "gc"      a __gc metamethod called by the loop below it               *)
(* The program runs when calls is empty or ends in "gc".                   *)
(***************************************************************************)
EXTENDS Collector, Sequences, SequencesExt

CONSTANTS
  MaxCalls,       \* bound: length of calls
  FinalizerCalls  \* entry points a finalizer uses: "step", "collect"

ASSUME DriverAssumption ==
  MaxCalls \in Nat /\ FinalizerCalls \subseteq {"step", "collect"}

VARIABLES
  calls,
  gcRunning,      \* gc_running
  owed            \* history: what was garbage when full_gc was entered

driverVars == <<calls, gcRunning, owed>>

Loop(l) == calls # <<>> /\ Last(calls) = l
AtRest  == calls = <<>>

ProgramTurn == AtRest \/ Loop("gc")

MayCall(entry) ==
  /\ ProgramTurn
  /\ ~gcRunning
  /\ AtRest \/ entry \in FinalizerCalls
  /\ Len(calls) < MaxCalls

(***************************************************************************)
(* One gc_singlestep under the stack base; the call of a finalizer hands   *)
(* control to the program.                                                 *)
(***************************************************************************)
Work == \/ StartCycle
        \/ \E o \in Obj : PropagateOne(o)
        \/ PropagateMain
        \/ Atomic
        \/ SweepStrings
        \/ SweepOther
        \/ EndCycle

Drive(base) ==
  /\ \/ Work /\ calls' = base
     \/ /\ \E d \in Userdata : CallFinalizer(d)
        /\ calls' = Append(base, "gc")
        /\ Len(base) < MaxCalls
  /\ UNCHANGED owed

-----------------------------------------------------------------------------
(***************************************************************************)
(* gc_step, from an allocation opcode (gc_check) or collectgarbage("step").*)
(* Called again while it runs it returns at once.  It stops when a cycle   *)
(* is complete or the budget is spent, which is left open.                 *)
(***************************************************************************)
BeginStep ==
  /\ MayCall("step")
  /\ gcRunning' = TRUE
  /\ Drive(Append(calls, "step"))

StepMore ==
  /\ Loop("step")
  /\ phase # "Pause"
  /\ Drive(calls)
  /\ UNCHANGED gcRunning

StepDone ==
  /\ Loop("step")
  /\ calls' = Front(calls)
  /\ gcRunning' = FALSE
  /\ UNCHANGED <<vars, owed>>

(***************************************************************************)
(* full_gc.  A cycle that is still marking is abandoned: the lists are     *)
(* emptied and the heap is swept without a flip, which whitens it and      *)
(* frees nothing.  gc_running is FALSE whenever a finalizer can see it.    *)
(* Slip: a cycle that is marking is kept.                                  *)
(***************************************************************************)
AbandonsNone == phase = "Pause"
Abandons == phase \in {"Pause", "Propagate"}

BeginFull ==
  /\ MayCall("collect")
  /\ calls' = Append(calls, "finish")
  /\ owed' = IF AtRest THEN Garbage ELSE owed
  /\ IF Abandons
       THEN /\ gray' = {} /\ grayagain' = {} /\ mainGray' = FALSE
            /\ phase' = "SweepString"
            /\ arena' = 1
            /\ unswept' = Allocated
            /\ doomed' = {}
       ELSE UNCHANGED <<gray, grayagain, mainGray, phase, arena, unswept, doomed>>
  /\ UNCHANGED <<heapVars, rootVars, currentWhite, tmudata, gcRunning>>

FinishMore ==
  /\ Loop("finish")
  /\ phase \notin {"Pause", "Propagate"}
  /\ Drive(calls)
  /\ UNCHANGED gcRunning

(***************************************************************************)
(* The fresh cycle begins with mark_roots, in whichever of the two phases  *)
(* the first loop was left.                                                *)
(***************************************************************************)
FinishDone ==
  /\ Loop("finish")
  /\ phase \in {"Pause", "Propagate"}
  /\ MarkRoots
  /\ calls' = Append(Front(calls), "cycle")
  /\ UNCHANGED <<gcRunning, owed>>

CycleMore ==
  /\ Loop("cycle")
  /\ phase # "Pause"
  /\ Drive(calls)
  /\ UNCHANGED gcRunning

CycleDone ==
  /\ Loop("cycle")
  /\ phase = "Pause"
  /\ calls' = Front(calls)
  /\ UNCHANGED <<vars, gcRunning, owed>>

(***************************************************************************)
(* A finalizer returns to the loop that called it, or raises an error: the *)
(* ? of the loop leaves gc_step or full_gc, both of which clear gc_running *)
(* on the way, and the phase stays where it is.  Slip: the flag is cleared *)
(* on success only.                                                        *)
(***************************************************************************)
FinalizerReturns ==
  /\ Loop("gc")
  /\ calls' = Front(calls)
  /\ UNCHANGED <<vars, gcRunning, owed>>

UnwindLocked == gcRunning
Unwind == FALSE

FinalizerFails ==
  /\ Loop("gc")
  /\ calls' = Front(Front(calls))
  /\ gcRunning' = Unwind
  /\ UNCHANGED <<vars, owed>>

(***************************************************************************)
(* The program's own operations, at the top level and in a finalizer.      *)
(***************************************************************************)
Mutate ==
  /\ ProgramTurn
  /\ Program
  /\ owed' = {o \in owed : color[o] # "free"}
  /\ UNCHANGED <<calls, gcRunning>>

DriverInit == Init /\ calls = <<>> /\ gcRunning = FALSE /\ owed = {}

DriverNext ==
  \/ BeginStep \/ StepMore \/ StepDone
  \/ BeginFull \/ FinishMore \/ FinishDone \/ CycleMore \/ CycleDone
  \/ FinalizerReturns \/ FinalizerFails
  \/ Mutate

DriverSpec == DriverInit /\ [][DriverNext]_<<vars, driverVars>>

-----------------------------------------------------------------------------
(***************************************************************************)
(* gc_running is set exactly while a gc_step is on the call stack: however *)
(* drivers nest and finalizers fail, the collector is never left locked,   *)
(* and a step in progress never has another driver above it.               *)
(***************************************************************************)
NeverLocked ==
  /\ gcRunning = ("step" \in Range(calls))
  /\ \A i \in 1..Len(calls) :
       calls[i] = "step" => \A j \in (i + 1)..Len(calls) : calls[j] = "gc"

(***************************************************************************)
(* collectgarbage() that returns normally has freed everything that was    *)
(* garbage when it was called, whichever phase it interrupted, and         *)
(* although its finalizers run the program, fail and use the entry points  *)
(* FinalizerCalls of the collector.                                        *)
(***************************************************************************)
FullCollects ==
  [][CycleDone /\ Len(calls) = 1 => owed \intersect Allocated = {}]_<<vars, driverVars>>

(***************************************************************************)
(* The fresh cycle of full_gc marks a heap without left-over marks: what   *)
(* is already marked would not be traversed again.                         *)
(***************************************************************************)
FreshCycle ==
  [][FinishDone => \A o \in Obj : color[o] \in {"free", currentWhite}]_<<vars, driverVars>>
=============================================================================
