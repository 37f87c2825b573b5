-------------------------------- MODULE Guards --------------------------------
(***************************************************************************)
(* What the machine keeps about its call stacks beside running them: which *)
(* callers may look at secrets, which are tainted, whom the instructions   *)
(* are charged to, and in which environment a value is at home.  All four  *)
(* have to follow calls, tail calls, errors, yields and resumes.           *)
(***************************************************************************)
EXTENDS Naturals, Sequences, SequencesExt, FiniteSets

CONSTANTS
  Main, Coroutines,   \* the threads
  MaxFrames,          \* bound, by topic: frames of a thread
  Resuming,           \* bound: the topics with more than one thread
  Owners,             \* owners of instruction budgets
  Limit,              \* the limit of each
  Environments        \* the tables that are a function's environment

ASSUME GuardsAssumption == Main \notin Coroutines /\ Limit \in Nat

VARIABLES
  topic,       \* which of the four is looked at
  chain,       \* saved_threads, and the current thread at the end
  stack,       \* call_stack[1..ci] of every thread
  status,      \* of a coroutine: initial, suspended, running or dead
  revoked,     \* SecretAccessContexts.revoked: thread and depth
  resumers,    \* SecretAccessContexts.resumers: index in saved_threads, thread
  stamp,       \* the stamp of a closure
  slot,        \* slot_taint of a table's field
  taintMode,   \* taint_mode
  active,      \* InstructionBudgets.active
  exempt,      \* InstructionBudgets.exempt
  used         \* the budgets' use

guardVars == <<topic, chain, stack, status, revoked, resumers, stamp, slot, taintMode, active, exempt, used>>
secretVars == <<revoked, resumers>>
taintVars == <<stamp, slot, taintMode>>
budgetVars == <<active, exempt, used>>

None == "none"
Threads == {Main} \cup Coroutines
Taints == {None, "addon"}

(***************************************************************************)
(* A frame.  Rust functions that call back stay on the stack: pcall,       *)
(* securecall, secureexecuterange with the entries it has left, and the    *)
(* host's scopes; keep is what they restore.  As history: whether access   *)
(* was revoked for it; and the taint it has been given, suspended or not.  *)
(***************************************************************************)
Callers == {"pcall", "securecall", "range", "owner", "exempt"}

Frame(fn, t, env) ==
  [fn |-> fn, taint |-> t, env |-> env, has |-> env, metered |-> FALSE, keep |-> <<>>, left |-> 0,
   denied |-> FALSE, given |-> t]

current == Last(chain)
frames == stack[current]
ci == Len(frames)
IsLua == ci > 0 /\ frames[ci].fn = "lua"
With(fs) == stack' = [stack EXCEPT ![current] = fs]
Top(f) == With(Append(Front(frames), f))
SameThreads == UNCHANGED <<topic, chain, status>>

-----------------------------------------------------------------------------
(* Revocation.  A thread has one entry, its lowest; entries above ci are     *)
(* dropped when a frame is pushed or popped.  Slip: only when one is popped. *)

Pruned(r, t, depth) == {x \in r : x[1] # t \/ x[2] <= depth}
PrunedOnPop(r) == r
PrunedOnPush(r) == Pruned(r, current, ci)

Lower(r, depth) ==
  LET own == {x \in r : x[1] = current}
  IN IF own = {} THEN r \cup {<<current, depth>>}
     ELSE (r \ own) \cup {<<current, IF x[2] <= depth THEN x[2] ELSE depth>> : x \in own}

ContextRevoked ==
  \E x \in revoked :
    \/ x[1] = current /\ x[2] <= ci
    \/ \E i \in DOMAIN resumers : x[1] = resumers[i][2] /\ x[2] <= Len(stack[chain[resumers[i][1]]])

(* revoke_secret_access by a Rust function that is called and returns: the   *)
(* caller loses its access.                                                  *)
Revoke ==
  /\ topic = "secrets" /\ ci > 0 /\ ci < MaxFrames[topic] /\ frames[ci].fn \in {"lua", "pcall"}
  /\ revoked' = Pruned(Lower(PrunedOnPush(revoked), ci), current, ci)
  /\ Top([frames[ci] EXCEPT !.denied = TRUE])
  /\ SameThreads /\ UNCHANGED <<resumers, taintVars, budgetVars>>

-----------------------------------------------------------------------------
(* Taint.                                                                    *)

NearestTaint(fs) ==
  LET tainted == {i \in DOMAIN fs : fs[i].taint # None}
  IN IF tainted = {} THEN None ELSE fs[CHOOSE i \in tainted : \A j \in tainted : j <= i].taint

StateIsSecure == \A i \in DOMAIN frames : frames[i].taint = None

Suspended(fs, i) == fs[i].fn = "range" \/ \E j \in i .. Len(fs) : fs[j].fn = "securecall"

SetTaint(f, t) == [f EXCEPT !.taint = t, !.given = t]

OnTaint == topic = "taint" /\ IsLua /\ SameThreads /\ UNCHANGED <<secretVars, budgetVars>>

(* debug.setstacktaint taints the caller of the Rust function ...             *)
SetStackTaint(t) == OnTaint /\ Top(SetTaint(frames[ci], t)) /\ UNCHANGED taintVars

(* ... setobjecttaint and settaintmode are about all calls to come; a closure *)
(* that is made takes the nearest taint of its makers.                        *)
SetObjectTaint(t) == OnTaint /\ stamp' = t /\ UNCHANGED <<stack, slot, taintMode>>
SetTaintMode == OnTaint /\ taintMode' = ~taintMode /\ UNCHANGED <<stack, slot, stamp>>
MakeClosure ==
  OnTaint /\ stamp' = NearestTaint(frames) /\ UNCHANGED <<stack, slot, taintMode>>

(* A field read taints the reader, unless it is tainted already; a field      *)
(* written by a tainted frame is tainted, one written by another stays so.    *)
ReadField ==
  /\ OnTaint
  /\ taintMode /\ frames[ci].taint = None /\ slot # None
  /\ Top(SetTaint(frames[ci], slot)) /\ UNCHANGED taintVars
WriteField ==
  /\ OnTaint
  /\ taintMode /\ frames[ci].taint # None
  /\ slot' = frames[ci].taint /\ UNCHANGED <<stack, stamp, taintMode>>

-----------------------------------------------------------------------------
(* Environments.  The hook converts what is at home in the source; a Rust    *)
(* function is no boundary, what it calls or returns to is.                  *)

Nearest(fs, i) ==
  LET lua == {j \in 1 .. i : fs[j].fn = "lua"}
  IN IF lua = {} THEN "global" ELSE fs[CHOOSE j \in lua : \A k \in lua : k <= j].env

Converted(value, source, target) == IF value = source THEN target ELSE value

(* Slip: the environment of the frame below is taken, be it a Rust function's. *)
EnvironmentBelow(fs, i) == IF i = 0 THEN "global" ELSE fs[i].env
TransferFrom(fs, i) == Nearest(fs, i)

Holds(fs) == IF fs = <<>> THEN "global" ELSE Last(fs).has
ToCallee(env) == Converted(Holds(frames), TransferFrom(frames, ci), env)

-----------------------------------------------------------------------------
(* Calls.  execute decides when it is entered whether instructions are        *)
(* charged: for a Lua function called by another it is not entered again.     *)

Callable(t, env) ==
  /\ t \in IF topic = "taint" THEN {None, stamp} ELSE {None}
  /\ env \in IF topic = "transfer" THEN Environments ELSE {"global"}

LuaFrame(t, env) ==
  [Frame("lua", t, env) EXCEPT !.has = ToCallee(env), !.metered = IF IsLua THEN frames[ci].metered ELSE active # None]

(* The host, a Lua function or a Rust function on the stack calls a Lua one.  *)
MayCall(f) == f.fn \in {"lua"} \cup Callers /\ (f.fn = "range" => f.left > 0)
Calls(t, env) ==
  /\ Callable(t, env)
  /\ ci < MaxFrames[topic]
  /\ ci = 0 => current = Main
  /\ ci > 0 => MayCall(frames[ci])
  /\ revoked' = PrunedOnPush(revoked)

Call(t, env) ==
  /\ Calls(t, env)
  /\ With(Append(frames, LuaFrame(t, env)))
  /\ SameThreads /\ UNCHANGED <<resumers, taintVars, budgetVars>>

(* A tail call: the callee's frame takes the place of the caller's, with the  *)
(* callee's taint or else the caller's, and with the caller's loss of access. *)
TailTaint(t, before) == IF t # None THEN t ELSE before
TailCall(t, env) ==
  /\ IsLua
  /\ Calls(t, env)
  /\ With(Append(Front(frames),
                 [LuaFrame(t, env) EXCEPT !.taint = TailTaint(t, frames[ci].taint), !.given = TailTaint(t, frames[ci].given),
                                          !.denied = frames[ci].denied]))
  /\ SameThreads /\ UNCHANGED <<resumers, taintVars, budgetVars>>

(* A Rust function that calls back, up to its first call.                     *)
RustFrame(fn, t) == [Frame(fn, t, "rust") EXCEPT !.has = Holds(frames)]
CallRust(fn, t) ==
  /\ Callable(t, "global") \/ topic = "transfer"
  /\ ci > 0 /\ MayCall(frames[ci]) /\ ci + 1 < MaxFrames[topic]
  /\ revoked' = PrunedOnPush(revoked)
  /\ SameThreads /\ UNCHANGED <<resumers, taintVars>>

Pcall(t) == CallRust("pcall", t) /\ With(Append(frames, RustFrame("pcall", t))) /\ UNCHANGED budgetVars

SecureCall(t) ==
  /\ topic = "taint" /\ CallRust("securecall", t)
  /\ LET all == Append(frames, RustFrame("securecall", t))
     IN With([i \in DOMAIN all |-> [all[i] EXCEPT !.taint = None,
                                                  !.keep = IF i = Len(all) THEN [j \in DOMAIN all |-> all[j].taint] ELSE @]])
  /\ UNCHANGED budgetVars

SecureExecuteRange(t) ==
  /\ topic = "taint" /\ CallRust("range", t)
  /\ \E n \in 0 .. 2 : With(Append(frames, [RustFrame("range", t) EXCEPT !.left = n, !.taint = None]))
  /\ UNCHANGED budgetVars

(* A function of the host's that enters a scope of an owner, or an exemption. *)
WithInstructionOwner(o) ==
  /\ topic = "budget" /\ CallRust("owner", None)
  /\ With(Append(frames, [RustFrame("owner", None) EXCEPT !.keep = <<active, exempt, o>>]))
  /\ active' = IF exempt THEN None ELSE o
  /\ UNCHANGED <<exempt, used>>

WithExemption ==
  /\ topic = "budget" /\ CallRust("exempt", None)
  /\ With(Append(frames, [RustFrame("exempt", None) EXCEPT !.keep = <<active, exempt, None>>]))
  /\ active' = None /\ exempt' = TRUE /\ UNCHANGED used

-----------------------------------------------------------------------------
(* Threads.  A resume keeps its own frame on the resumer's stack; the thread  *)
(* is listed as a resumer only if some access has been revoked before.        *)

Enlisted(t) == IF revoked # {} THEN Append(resumers, <<Len(chain), t>>) ELSE resumers

Resume(co, t) ==
  /\ topic \in Resuming /\ IsLua /\ ci < MaxFrames[topic]
  /\ status[co] \in {"initial", "suspended"}
  /\ Callable(t, "global")
  /\ LET metered == active # None
         body == IF status[co] = "initial" THEN <<[Frame("lua", t, "global") EXCEPT !.metered = metered]>>
                 ELSE [i \in 1 .. (Len(stack[co]) - 1) |-> [stack[co][i] EXCEPT !.metered = metered]]
         pruned == PrunedOnPush(revoked)
     IN /\ stack' = [stack EXCEPT ![current] = Append(@, RustFrame("resume", None)), ![co] = body]
        /\ revoked' = Pruned(pruned, co, Len(body))
  /\ resumers' = Enlisted(current)
  /\ chain' = Append(chain, co)
  /\ status' = [status EXCEPT ![co] = "running"]
  /\ UNCHANGED <<topic, taintVars, budgetVars>>

(* Back to the resumer, whose call of resume returns.  Slip: the revocations  *)
(* of a thread that has ended stay.                                           *)
Forgotten(r, t) == {x \in r : x[1] # t}

SwitchBack(left, after) ==
  LET index == Len(chain) - 1
      resumer == chain[index]
      below == Front(stack[resumer])
      kept == IF after = "dead" THEN Forgotten(revoked, current) ELSE revoked
  IN /\ stack' = [stack EXCEPT ![current] = left, ![resumer] = below]
     /\ revoked' = Pruned(kept, resumer, Len(below))
     /\ resumers' = IF resumers # <<>> /\ Last(resumers)[1] = index THEN Front(resumers) ELSE resumers
     /\ chain' = Front(chain)
     /\ status' = [status EXCEPT ![current] = after]
     /\ UNCHANGED <<topic, taintVars, used>>

(* yield, its own frame left on the stack; not inside a Rust function.        *)
Yield ==
  /\ IsLua /\ ci < MaxFrames[topic] /\ current # Main
  /\ \A i \in DOMAIN frames : frames[i].fn = "lua"
  /\ SwitchBack(Append(frames, RustFrame("yield", None)), "suspended")
  /\ UNCHANGED <<active, exempt>>

-----------------------------------------------------------------------------
(* The frames above one end: securecall puts the taints back, a scope what    *)
(* was before it; the lowest does so last.                                    *)
(* Slip: securecall only if its call was successful.                          *)

PutBack(fs, keep) == [i \in DOMAIN fs |-> [fs[i] EXCEPT !.taint = keep[i]]]
Lowest(S) == CHOOSE i \in S : \A j \in S : i <= j
SecureCalls(fs, to) == {i \in (to + 1) .. Len(fs) : fs[i].fn = "securecall"}

RestoredIfOk(fs, to, ok) ==
  IF SecureCalls(fs, to) = {} \/ ~ok THEN SubSeq(fs, 1, to)
  ELSE PutBack(SubSeq(fs, 1, to), fs[Lowest(SecureCalls(fs, to))].keep)
Restored(fs, to, ok) ==
  IF SecureCalls(fs, to) = {} THEN SubSeq(fs, 1, to)
  ELSE PutBack(SubSeq(fs, 1, to), fs[Lowest(SecureCalls(fs, to))].keep)

IsScope(f) == f.fn \in {"owner", "exempt"}
Scoped(before) == active' = before[1] /\ exempt' = before[2]

Received(f) == [f EXCEPT !.left = IF @ > 0 THEN @ - 1 ELSE 0]

(* poscall: the results go to the frame below, or end the thread.             *)
Return ==
  /\ ci > 0 /\ frames[ci].fn \in {"lua"} \cup Callers
  /\ LET below == Restored(frames, ci - 1, TRUE)
         value == IF IsLua THEN Converted(frames[ci].has, frames[ci].env, TransferFrom(frames, ci - 1)) ELSE frames[ci].has
     IN IF below = <<>> /\ current # Main THEN SwitchBack(<<>>, "dead")
        ELSE /\ With(IF below = <<>> THEN below ELSE Append(Front(below), [Received(Last(below)) EXCEPT !.has = value]))
             /\ revoked' = Pruned(revoked, current, ci - 1)
             /\ SameThreads /\ UNCHANGED <<resumers, taintVars, used>>
  /\ Scoped(IF IsScope(frames[ci]) THEN frames[ci].keep ELSE <<active, exempt>>)

(* An error goes to the nearest frame that catches it: pcall, whose own frame *)
(* is then popped, secureexecuterange, which goes on with the next entry, the *)
(* resumer, or the host.  Neither the host nor the range prunes.              *)
Catcher(fs) ==
  LET catching == {i \in DOMAIN fs : fs[i].fn \in {"pcall", "range"}}
  IN IF catching = {} THEN 0 ELSE CHOOSE i \in catching : \A j \in catching : j <= i

(* What the scopes restore.  Slip: an error passes them by.                   *)
ScopesAbove(fs, to) == {i \in (to + 1) .. Len(fs) : IsScope(fs[i])}
ScopesPassed(fs, to) == <<active, exempt>>
ScopesUnwound(fs, to) ==
  IF ScopesAbove(fs, to) = {} THEN <<active, exempt>> ELSE fs[Lowest(ScopesAbove(fs, to))].keep

Fails ==
  LET to == Catcher(frames)
      rest == Restored(frames, to, FALSE)
      caught == to > 0 /\ rest[to].fn = "pcall"
      below == IF caught THEN Front(rest) ELSE rest
  IN /\ IF to = 0 /\ current # Main THEN SwitchBack(<<>>, "dead")
        ELSE /\ With(IF below = <<>> THEN below ELSE Append(Front(below), Received(Last(below))))
             /\ revoked' = IF caught THEN Pruned(revoked, current, to - 1) ELSE revoked
             /\ SameThreads /\ UNCHANGED <<resumers, taintVars, used>>
     /\ Scoped(ScopesUnwound(frames, to))

(* An error of a function, or of the hook when it refuses what is passed.     *)
Error == ci > 0 /\ frames[ci].fn \in {"lua", "pcall"} /\ Fails

-----------------------------------------------------------------------------
(* An instruction under a budget, charged before it runs.                     *)

Charged == topic = "budget" /\ IsLua /\ frames[ci].metered /\ active # None
Exhausted(o) == used[o] >= Limit

Instruction ==
  /\ Charged /\ ~Exhausted(active)
  /\ used' = [used EXCEPT ![active] = @ + 1]
  /\ SameThreads /\ UNCHANGED <<stack, secretVars, taintVars, active, exempt>>

OutOfBudget == Charged /\ Exhausted(active) /\ Fails

-----------------------------------------------------------------------------
Topics == {"secrets", "taint", "transfer", "budget"}

Begin ==
  /\ chain = <<Main>>
  /\ stack = [t \in Threads |-> <<>>]
  /\ status = [co \in Coroutines |-> "initial"]
  /\ revoked = {} /\ resumers = <<>>
  /\ stamp = None /\ slot = None /\ taintMode = FALSE
  /\ active = None /\ exempt = FALSE
  /\ used = [o \in Owners |-> 0]

Init == topic \in Topics /\ Begin

Next ==
  \/ \E t \in Taints :
       \/ \E env \in Environments \cup {"global"} : Call(t, env) \/ TailCall(t, env)
       \/ Pcall(t) \/ SecureCall(t) \/ SecureExecuteRange(t)
       \/ \E co \in Coroutines : Resume(co, t)
       \/ SetStackTaint(t) \/ SetObjectTaint(t)
  \/ Yield \/ Return \/ Error
  \/ Revoke
  \/ SetTaintMode \/ MakeClosure \/ ReadField \/ WriteField
  \/ (\E o \in Owners : WithInstructionOwner(o)) \/ WithExemption \/ Instruction \/ OutOfBudget

-----------------------------------------------------------------------------
(* Access to secrets is denied exactly as long as a frame that has lost it,   *)
(* or what took its place by a tail call, is on the stack of the running      *)
(* thread or of one that waits for it.                                        *)
Denied == ContextRevoked <=> \E i \in DOMAIN chain : \E j \in DOMAIN stack[chain[i]] : stack[chain[i]][j].denied

(* A frame has the taint it was given, whatever securecall and                *)
(* secureexecuterange did to it while they ran and however they were left;    *)
(* while they run, it is as if those frames were not there.                   *)
TaintKept ==
  /\ \A t \in Threads : \A i \in DOMAIN stack[t] : stack[t][i].taint = IF Suspended(stack[t], i) THEN None ELSE stack[t][i].given
  /\ StateIsSecure <=> \A i \in DOMAIN frames : Suspended(frames, i) \/ frames[i].given = None

(* What a Lua function has in its hands is at home in its environment, what a *)
(* Rust function has in the nearest Lua caller's.                             *)
Fits == topic = "transfer" => \A i \in DOMAIN frames : frames[i].has = Nearest(frames, i)

(* Instructions are charged to the innermost owner around them, also through  *)
(* coroutines, to none under an exemption, and never beyond the limit.  The   *)
(* place of a frame is its thread's index in chain, and its own in the stack. *)
Places == UNION {{i} \X DOMAIN stack[chain[i]] : i \in DOMAIN chain}
At(p) == stack[chain[p[1]]][p[2]]
Around(p, q) == p[1] < q[1] \/ (p[1] = q[1] /\ p[2] < q[2])
Scopes == {p \in Places : IsScope(At(p))}
Metered ==
  topic = "budget" =>
    /\ exempt = \E p \in Scopes : At(p).fn = "exempt"
    /\ \A p \in Scopes : (\A q \in Scopes \ {p} : Around(q, p)) => active = IF exempt THEN None ELSE At(p).keep[3]
    /\ Scopes = {} => active = None
    /\ IsLua => frames[ci].metered = (active # None)
    /\ \A o \in Owners : used[o] <= Limit

Spec == Init /\ [][Next]_guardVars
=============================================================================
