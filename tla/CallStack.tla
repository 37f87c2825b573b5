------------------------------ MODULE CallStack ------------------------------
(***************************************************************************)
(* Calls, errors and yields in one thread: the frames of call_stack, which *)
(* survive a yield, and the Rust functions that run them, which do not.    *)
(*                                                                         *)
(* execute() runs Lua frames in a loop; it is entered again for whatever a *)
(* Rust function or an instruction calls, through call_function or by      *)
(* precall and execute directly.  Those entries and what they have left to *)
(* do are the sequence native.  An error or a yield is an Err that unwinds *)
(* it, one entry after another.                                            *)
(***************************************************************************)
EXTENDS Naturals, Sequences, SequencesExt, FiniteSets

CONSTANTS
  MaxCalls,      \* MAXCALLS: frames after which a call fails
  MaxCCalls,     \* MAXCCALLS: nested entries after which a call fails
  LateErrors     \* TRUE: a reader of load fails after its first call

ASSUME CallStackAssumption ==
  MaxCalls \in Nat \ {0} /\ MaxCCalls \in Nat \ {0} /\ LateErrors \in BOOLEAN

VARIABLES
  frames,      \* call_stack[1..ci]
  native,      \* the Rust functions at work on this thread, the last on top
  mode,        \* what the last of them is doing
  top,         \* where the running frame's stack ends
  nCcalls,     \* n_ccalls
  callDepth,   \* call_depth
  ciOverflow,  \* ci_overflow
  coroutine    \* current_thread is not None

vars == <<frames, native, mode, top, nCcalls, callDepth, ciOverflow, coroutine>>

(***************************************************************************)
(* A frame: its function; whether the caller wants a fixed number of       *)
(* results or all of them; of a Lua frame, the operation that waits for    *)
(* its callee; and, as history, whether a yield unwound the execute() that *)
(* was to go on with it.                                                   *)
(***************************************************************************)
RustFunctions == {"pcall", "xpcall", "load", "yield"}
Operators == {"metamethod", "iterator", "comparison"}
Frames == [fn : {"lua"} \union RustFunctions, wanted : {"fixed", "all"},
           waits : {"none"} \union Operators, cut : BOOLEAN]

Frame(fn, wanted) == [fn |-> fn, wanted |-> wanted, waits |-> "none", cut |-> FALSE]

(***************************************************************************)
(* A native entry: execute() with its nexeccalls, or the call made by an   *)
(* operator, by pcall, xpcall or load, or by xpcall to its handler.  An    *)
(* operator remembers top, a function that catches errors its own frame,   *)
(* load whether it calls its reader for the first time.  The ci of the     *)
(* others is history: the frame that they were entered from.               *)
(***************************************************************************)
Catching == {"pcall", "xpcall", "handler", "load"}

Raising == {"metamethod", "pcall", "xpcall", "handler", "load"} \* call_function
Calling == Raising \union {"iterator", "comparison"}

NativeEntries == [k : Calling \union {"execute"}, n : Nat, ci : Nat,
                  top : {"full", "short", "open"}, first : BOOLEAN]

Entry(k, n, ci) ==
  [k |-> k, n |-> n, ci |-> ci, top |-> IF k \in Operators THEN top ELSE "full",
   first |-> TRUE]

Modes == {"run", "enter", "done", "error", "yield", "suspended", "dead"}

Over(e) == Last(native).k = e
Pop(s)  == Front(s)
Replace(s, x) == Append(Front(s), x)

-----------------------------------------------------------------------------
(***************************************************************************)
(* precall's limit on frames, with room for error handlers above it, and   *)
(* check_stack_overflow's on nested entries.                               *)
(***************************************************************************)
TooManyFrames == IF ciOverflow THEN Len(frames) + 1 >= 2 * MaxCalls
                               ELSE Len(frames) + 1 >= MaxCalls

HardLimit == MaxCCalls + MaxCCalls \div 8

TooDeep == callDepth = MaxCCalls \/ callDepth >= HardLimit

Error == mode' = "error" /\ UNCHANGED <<frames, native, top, nCcalls, callDepth>>

FrameOverflow == /\ TooManyFrames
                 /\ ciOverflow' = TRUE
                 /\ Error /\ UNCHANGED coroutine

(***************************************************************************)
(* execute() at an instruction of the Lua frame on top.                    *)
(***************************************************************************)
Running == /\ mode = "run" /\ native # <<>> /\ Over("execute")
           /\ Last(frames).fn = "lua"

EnterLua(wanted) == frames' = Append(frames, Frame("lua", wanted)) /\ top' = "full"

(***************************************************************************)
(* OpCode::Call of a Lua function: execute() goes on with the new frame.   *)
(***************************************************************************)
CallLua(wanted) ==
  /\ Running
  /\ \/ FrameOverflow
     \/ /\ ~TooManyFrames
        /\ EnterLua(wanted)
        /\ native' = Replace(native, [Last(native) EXCEPT !.n = @ + 1])
        /\ UNCHANGED <<mode, nCcalls, callDepth, ciOverflow, coroutine>>

(***************************************************************************)
(* OpCode::TailCall of a Lua function: precall, then the new frame takes   *)
(* the place of the old one and what its caller wants.                     *)
(***************************************************************************)
TailCall ==
  /\ Running
  /\ \/ FrameOverflow
     \/ /\ ~TooManyFrames
        /\ frames' = Replace(frames, Frame("lua", Last(frames).wanted))
        /\ top' = "full"
        /\ UNCHANGED <<native, mode, nCcalls, callDepth, ciOverflow, coroutine>>

(***************************************************************************)
(* The results of a callee in the frame below: as many as it wants, which  *)
(* leaves top just above them, or all, for the next instruction to use.    *)
(***************************************************************************)
Results(wanted) == IF wanted = "fixed" THEN "short" ELSE "open"

(***************************************************************************)
(* ... and the top that OpCode::Call and OpCode::Return restore for an     *)
(* execute() that goes on with the frame.  Slip: it is not restored.       *)
(***************************************************************************)
RestoredNot(wanted) == Results(wanted)
Restored(wanted) == IF wanted = "fixed" THEN "full" ELSE "open"

(***************************************************************************)
(* OpCode::Return and its poscall.  An execute() that has run the function *)
(* it was entered for returns to what entered it.                          *)
(***************************************************************************)
Return ==
  LET wanted == Last(frames).wanted
      n      == Last(native).n - 1
  IN  /\ Running
      /\ frames' = Pop(frames)
      /\ IF n > 0
         THEN /\ native' = Replace(native, [Last(native) EXCEPT !.n = n])
              /\ top' = Restored(wanted)
              /\ mode' = "run"
         ELSE /\ native' = Pop(native)
              /\ top' = Results(wanted)
              /\ mode' = "done"
      /\ UNCHANGED <<nCcalls, callDepth, ciOverflow, coroutine>>

(***************************************************************************)
(* An instruction that uses the open results, and an error.                *)
(***************************************************************************)
SetList == /\ Running /\ top = "open"
           /\ top' = "full"
           /\ UNCHANGED <<frames, native, mode, nCcalls, callDepth, ciOverflow,
                          coroutine>>

Raise == Running /\ Error /\ UNCHANGED <<ciOverflow, coroutine>>

-----------------------------------------------------------------------------
(***************************************************************************)
(* Entering a call: call_function raises n_ccalls and call_depth, an       *)
(* iterator or a comparison call_depth only.                               *)
(***************************************************************************)
Enter(e) ==
  /\ native' = Append(native, e)
  /\ mode' = "enter"
  /\ nCcalls' = IF e.k \in Raising THEN nCcalls + 1 ELSE nCcalls
  /\ callDepth' = callDepth + 1

(***************************************************************************)
(* OpCode::TForLoop, a comparison, or an instruction with a metamethod.    *)
(***************************************************************************)
Operate(op) ==
  /\ Running
  /\ top # "open"
  /\ frames' = Replace(frames, [Last(frames) EXCEPT !.waits = op])
  /\ Enter(Entry(op, 0, Len(frames)))
  /\ UNCHANGED <<top, ciOverflow, coroutine>>

(***************************************************************************)
(* precall of a Rust function, by an instruction or as the callee of an    *)
(* entry.  co_yield refuses in the main thread and inside call_function.   *)
(***************************************************************************)
MayYield == coroutine /\ nCcalls = 0

StartRust(fn, wanted) ==
  /\ frames' = Append(frames, Frame(fn, wanted))
  /\ IF fn = "yield"
     THEN /\ mode' = IF MayYield THEN "yield" ELSE "error"
          /\ UNCHANGED <<native, nCcalls, callDepth>>
     ELSE Enter(Entry(fn, 0, Len(frames) + 1))
  /\ UNCHANGED <<top, ciOverflow, coroutine>>

CallRust(fn, wanted) ==
  /\ Running
  /\ FrameOverflow \/ (~TooManyFrames /\ StartRust(fn, wanted))

(***************************************************************************)
(* The body of the call: the depth is checked, then precall; a Lua callee  *)
(* gets an execute() of its own.                                           *)
(***************************************************************************)
WantedBy(k) == IF k \in {"pcall", "xpcall"} THEN "all" ELSE "fixed"

Call(fn) ==
  LET wanted == WantedBy(Last(native).k)
  IN  /\ mode = "enter"
      /\ \/ TooDeep /\ Error /\ UNCHANGED <<ciOverflow, coroutine>>
         \/ ~TooDeep /\ FrameOverflow
         \/ /\ ~TooDeep /\ ~TooManyFrames
            /\ IF fn = "lua"
               THEN /\ EnterLua(wanted)
                    /\ native' = Append(native, Entry("execute", 1, Len(frames)))
                    /\ mode' = "run"
                    /\ UNCHANGED <<nCcalls, callDepth, ciOverflow, coroutine>>
               ELSE StartRust(fn, wanted)

-----------------------------------------------------------------------------
(***************************************************************************)
(* Leaving a call.  Slip: an operator's call that fails leaves call_depth  *)
(* as it is, the ? coming before the decrement; or pcall lowers it again.  *)
(***************************************************************************)
LoweredTwice(k) == IF k = "pcall" /\ mode = "error" THEN callDepth - 2
                   ELSE callDepth - 1
LoweredUnlessFailed(k) == IF k = "iterator" /\ mode = "error" THEN callDepth
                          ELSE callDepth - 1
Lowered(k) == callDepth - 1

Leave == LET k == Last(native).k
         IN  /\ nCcalls' = IF k \in Raising THEN nCcalls - 1 ELSE nCcalls
             /\ callDepth' = Lowered(k)

(***************************************************************************)
(* The callee of an operator has returned: the result is used, and top is  *)
(* where it was, or for an iterator at the frame's limit.                  *)
(***************************************************************************)
FinishOperator ==
  LET e == Last(native)
  IN  /\ mode = "done" /\ native # <<>>
      /\ e.k \in Operators
      /\ Leave
      /\ native' = Pop(native)
      /\ frames' = Replace(frames, [Last(frames) EXCEPT !.waits = "none"])
      /\ top' = IF e.k = "iterator" THEN "full" ELSE e.top
      /\ mode' = "run"
      /\ UNCHANGED <<ciOverflow, coroutine>>

(***************************************************************************)
(* A Rust function ends with ci at the frame given: poscall pops that one, *)
(* and the instruction or the entry that called the function goes on.      *)
(***************************************************************************)
EndRust(ci) ==
  LET wanted == frames[ci].wanted
      below  == Pop(native)
  IN  /\ frames' = SubSeq(frames, 1, ci - 1)
      /\ native' = below
      /\ IF Last(below).k = "execute"
         THEN mode' = "run" /\ top' = Restored(wanted)
         ELSE mode' = "done" /\ top' = Results(wanted)
      /\ UNCHANGED coroutine

FinishCall ==
  /\ mode = "done" /\ native # <<>>
  /\ Last(native).k \in {"pcall", "xpcall", "load"}
  /\ Leave
  /\ EndRust(Len(frames))
  /\ UNCHANGED ciOverflow

(***************************************************************************)
(* load asks its reader for another chunk.  Unless LateErrors, that call   *)
(* is taken to return.                                                     *)
(***************************************************************************)
ReadAgain ==
  /\ mode = "done" /\ native # <<>> /\ Over("load")
  /\ native' = Replace(native, [Last(native) EXCEPT !.first = FALSE])
  /\ mode' = IF LateErrors THEN "enter" ELSE "done"
  /\ UNCHANGED <<frames, top, nCcalls, callDepth, ciOverflow, coroutine>>

-----------------------------------------------------------------------------
(***************************************************************************)
(* An Err on its way down: through execute() and the operators, ...        *)
(***************************************************************************)
Unwinding == mode \in {"error", "yield"} /\ native # <<>>

Unwind ==
  /\ Unwinding
  /\ native' = Pop(native)
  /\ \/ Over("execute") /\ UNCHANGED <<nCcalls, callDepth>>
     \/ Last(native).k \in Operators /\ Leave
  /\ UNCHANGED <<frames, mode, top, ciOverflow, coroutine>>

(***************************************************************************)
(* ... to a function that catches it and goes back to the ci it has saved. *)
(* Slips: the overflow flag is left as it is; ci is left where the error   *)
(* was raised.                                                             *)
(***************************************************************************)
OverflowKept(ci) == ciOverflow
OverflowAfter(ci) == IF ci < MaxCalls THEN FALSE ELSE ciOverflow

RestoreCountersOnly(ci) ==
  /\ Leave
  /\ EndRust(Len(frames))
  /\ ciOverflow' = OverflowAfter(ci)

Restore(ci) ==
  /\ Leave
  /\ EndRust(ci)
  /\ ciOverflow' = OverflowAfter(ci)

CatchPcall == Unwinding /\ Over("pcall") /\ Restore(Last(native).ci)

(***************************************************************************)
(* xpcall calls its handler on top of the frames that failed, and restores *)
(* ci when that has returned or failed.  Slip: it restores ci first.       *)
(***************************************************************************)
CallHandlerRestored ==
  /\ Unwinding /\ Over("xpcall")
  /\ native' = Replace(native, [Last(native) EXCEPT !.k = "handler"])
  /\ mode' = "enter"
  /\ frames' = SubSeq(frames, 1, Last(native).ci - 1)
  /\ UNCHANGED <<top, nCcalls, callDepth, ciOverflow, coroutine>>

CallHandler ==
  /\ Unwinding /\ Over("xpcall")
  /\ native' = Replace(native, [Last(native) EXCEPT !.k = "handler"])
  /\ mode' = "enter"
  /\ UNCHANGED <<frames, top, nCcalls, callDepth, ciOverflow, coroutine>>

FinishHandler ==
  /\ Unwinding \/ (mode = "done" /\ native # <<>>)
  /\ Over("handler")
  /\ Restore(Last(native).ci)

(***************************************************************************)
(* load catches an error of its reader.  Only the first call to it is      *)
(* followed by restore_state; later ones are made by the lexer, and their  *)
(* error comes back as a failed compilation, which restores nothing.       *)
(***************************************************************************)
CatchLoad ==
  /\ Unwinding /\ Over("load")
  /\ IF Last(native).first
     THEN Restore(Last(native).ci)
     ELSE Leave /\ EndRust(Len(frames)) /\ UNCHANGED ciOverflow

-----------------------------------------------------------------------------
(***************************************************************************)
(* auxresume: a new coroutine, or the Rust API with a new chunk.           *)
(***************************************************************************)
Start ==
  /\ mode = "dead"
  /\ frames' = <<Frame("lua", "all")>>
  /\ native' = <<Entry("execute", 1, 0)>>
  /\ mode' = "run"
  /\ top' = "full"
  /\ IF coroutine THEN nCcalls' = 0 /\ callDepth' = 0
                  ELSE UNCHANGED <<nCcalls, callDepth>>
  /\ ciOverflow' = FALSE
  /\ UNCHANGED coroutine

(***************************************************************************)
(* The thread has unwound to its resumer.                                  *)
(***************************************************************************)
End ==
  /\ native = <<>>
  /\ mode = "error" \/ (mode = "done" /\ frames = <<>>)
  /\ mode' = "dead"
  /\ frames' = <<>>
  /\ UNCHANGED <<native, top, nCcalls, callDepth, ciOverflow, coroutine>>

Suspend ==
  /\ native = <<>> /\ mode = "yield"
  /\ mode' = "suspended"
  /\ UNCHANGED <<frames, native, top, nCcalls, callDepth, ciOverflow, coroutine>>

(***************************************************************************)
(* Resuming completes the call of yield with a poscall, ...                *)
(***************************************************************************)
Cut(s) == [i \in DOMAIN s |->
            [s[i] EXCEPT !.cut = @ \/ i < Len(s) \/ s[i].waits # "none"]]

Resume ==
  /\ mode = "suspended"
  /\ frames' = Cut(Pop(frames))
  /\ top' = Restored(Last(frames).wanted)
  /\ mode' = "done"
  /\ UNCHANGED <<native, nCcalls, callDepth, ciOverflow, coroutine>>

(***************************************************************************)
(* ... then enters execute() for one frame after the other, without the    *)
(* operators that had called them.                                         *)
(***************************************************************************)
ResumeNext ==
  /\ mode = "done" /\ native = <<>> /\ frames # <<>>
  /\ native' = <<Entry("execute", 1, Len(frames) - 1)>>
  /\ mode' = "run"
  /\ UNCHANGED <<frames, top, nCcalls, callDepth, ciOverflow, coroutine>>

-----------------------------------------------------------------------------
Init ==
  /\ frames = <<>> /\ native = <<>>
  /\ mode = "dead"
  /\ top = "full"
  /\ nCcalls = 0 /\ callDepth = 0
  /\ ciOverflow = FALSE
  /\ coroutine \in BOOLEAN

Program ==
  \/ \E wanted \in {"fixed", "all"} :
       CallLua(wanted) \/ \E fn \in RustFunctions : CallRust(fn, wanted)
  \/ \E op \in Operators : Operate(op)
  \/ TailCall \/ Return \/ SetList \/ Raise

Entries == (\E fn \in {"lua"} \union RustFunctions : Call(fn))
             \/ FinishOperator \/ FinishCall \/ ReadAgain

Unwinds == Unwind \/ CatchPcall \/ CallHandler \/ FinishHandler \/ CatchLoad

Next == Program \/ Entries \/ Unwinds
          \/ Start \/ End \/ Suspend \/ Resume \/ ResumeNext

Spec == Init /\ [][Next]_vars

-----------------------------------------------------------------------------
(***************************************************************************)
(* The shape of the state.                                                 *)
(***************************************************************************)
TypeOK ==
  /\ frames \in Seq(Frames)
  /\ native \in Seq(NativeEntries)
  /\ mode \in Modes
  /\ top \in {"full", "short", "open"}
  /\ nCcalls \in Nat /\ callDepth \in Nat
  /\ ciOverflow \in BOOLEAN /\ coroutine \in BOOLEAN

(***************************************************************************)
(* The two counters tell what is on the Rust stack, after any mixture of   *)
(* returns, errors and yields: a count that is too high would refuse       *)
(* yields for ever or use up the depth, one too low would wrap around.     *)
(* And outside an error and the handlers called for it, an overflow of     *)
(* frames is the first one: it can be caught, with room for its handler.   *)
(***************************************************************************)
Entered(K) == Cardinality({i \in DOMAIN native : native[i].k \in K})

Counters ==
  /\ nCcalls = Entered(Raising) /\ callDepth = Entered(Calling)
  /\ ciOverflow => mode \in {"error", "dead"} \/ Entered({"handler"}) > 0

(***************************************************************************)
(* The frame of a function that is to catch errors is where it was when    *)
(* the function was called, below those of its callees, and the frame on   *)
(* top when its call is over.                                              *)
(***************************************************************************)
Owns(e) == /\ e.ci \in DOMAIN frames
           /\ frames[e.ci].fn = IF e.k = "handler" THEN "xpcall" ELSE e.k

CatchersStand ==
  /\ \A i \in DOMAIN native : native[i].k \in Catching => Owns(native[i])
  /\ \A i, j \in DOMAIN native :
       i < j /\ {native[i].k, native[j].k} \subseteq Catching
         => native[i].ci < native[j].ci
  /\ (mode = "done" /\ native # <<>> /\ Last(native).k \in Catching \ {"handler"})
       => Last(native).ci = Len(frames)

(***************************************************************************)
(* execute() goes on with Lua frames, as many as it counts.                *)
(***************************************************************************)
ExecutesLua ==
  mode = "run" =>
    /\ native # <<>> /\ Over("execute")
    /\ \A i \in (Len(frames) - Last(native).n + 1)..Len(frames) :
         i \in DOMAIN frames /\ frames[i].fn = "lua"

(***************************************************************************)
(* A Lua frame that goes on has top at its limit, unless it is about to    *)
(* use open results, and the operation it was in is complete; but not a    *)
(* frame whose execute() was lost to a yield.                              *)
(***************************************************************************)
Settled ==
  Running /\ ~Last(frames).cut => top # "short" /\ Last(frames).waits = "none"

(***************************************************************************)
(* The same of every frame: the loop of auxresume processes all remaining  *)
(* levels as the interpreter does.                                         *)
(***************************************************************************)
TopRestored == Running => top # "short"
=============================================================================
