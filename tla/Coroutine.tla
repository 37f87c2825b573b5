------------------------------ MODULE Coroutine ------------------------------
(***************************************************************************)
(* The thread swap of stdlib/coroutine.rs and vm/state.rs: LuaState always *)
(* holds the running thread, the threads waiting for a coroutine they have *)
(* resumed are on saved_threads, every other one is in the arena.          *)
(*                                                                         *)
(* An open upvalue is an index into the running stack.  Before a stack is  *)
(* put away its open upvalues are closed, and the pairs (upvalue, index)   *)
(* are kept to reopen them when the stack comes back: it is this that must *)
(* keep a captured variable one variable.                                  *)
(***************************************************************************)
EXTENDS Naturals, Sequences, SequencesExt, FiniteSets

CONSTANTS Threads, Upvalues, Vars, Vals, None,
          Escapes,   \* TRUE: a failing reader of load has captured variables
          MaxSlots,  \* bound: local variables on one stack
          MaxSaved   \* bound: threads waiting at once

ASSUME CoroutineAssumption ==
  /\ "main" \notin Threads
  /\ None \notin Vals \union Vars
  /\ Escapes \in BOOLEAN
  /\ MaxSlots \in Nat /\ MaxSaved \in Nat

VARIABLES
  slots,     \* the running stack: the value of each local variable
  names,     \* the variable that each slot of the running stack is
  open,      \* open_upvalues, the highest slot first
  at,        \* UpvalueState::Open's stack_index, 0 when closed or free
  own,       \* UpvalueState::Closed's value, None when open or free
  of,        \* history: the variable an upvalue was made for
  arena,     \* the LuaThread of each coroutine in the arena, with its status
  saved,     \* saved_threads, each with the caller's saved_current_thread
  current    \* current_thread

stackVars == <<slots, names, open>>
vars == <<stackVars, at, own, of, arena, saved, current>>

Blank == [slots |-> <<>>, names |-> <<>>, open |-> <<>>, suspended |-> <<>>]

Statuses == {"Unborn", "Initial", "Suspended", "Running", "Dead"}

-----------------------------------------------------------------------------
(***************************************************************************)
(* Upvalue::get and Upvalue::set.                                          *)
(***************************************************************************)
Get(u) == IF at[u] # 0 THEN slots[at[u]] ELSE own[u]

SetUpvalue(u, v) ==
  IF at[u] # 0 THEN slots' = [slots EXCEPT ![at[u]] = v] /\ own' = own
               ELSE own' = [own EXCEPT ![u] = v] /\ slots' = slots

(***************************************************************************)
(* The upvalues at the front of the list, up to the first of a slot below  *)
(* the level: find_upvalue and close_upvalues look no further.             *)
(***************************************************************************)
Leading(level) == {k \in DOMAIN open : \A j \in 1..k : at[open[j]] >= level}

(***************************************************************************)
(* Capturing a variable: OpCode::Closure takes the upvalue of the slot, or *)
(* makes one in its place in the order if there is none.  Slip: only the   *)
(* front of the list is looked at.                                         *)
(***************************************************************************)
FoundFirst(i) == {open[k] : k \in {k \in Leading(i) : k = 1 /\ at[open[k]] = i}}
Found(i) == {open[k] : k \in {k \in Leading(i) : at[open[k]] = i}}

Insert(u, i) == InsertAt(open, Cardinality(Leading(i)) + 1, u)

FindUpvalue(i) ==
  /\ i \in DOMAIN slots
  /\ IF Found(i) # {}
     THEN UNCHANGED vars
     ELSE \E u \in Upvalues :
            /\ at[u] = 0 /\ own[u] = None
            /\ at' = [at EXCEPT ![u] = i]
            /\ of' = [of EXCEPT ![u] = names[i]]
            /\ open' = Insert(u, i)
            /\ UNCHANGED <<slots, names, own, arena, saved, current>>

(***************************************************************************)
(* close_upvalues.                                                         *)
(***************************************************************************)
CloseFrom(level) == {open[k] : k \in Leading(level)}

Closed(U) == [u \in Upvalues |-> IF u \in U THEN slots[at[u]] ELSE own[u]]

(***************************************************************************)
(* A block or function ends: variables from slot level up are left.        *)
(***************************************************************************)
Leave(level) ==
  LET U == CloseFrom(level)
  IN  /\ level \in DOMAIN slots
      /\ own' = Closed(U)
      /\ at' = [u \in Upvalues |-> IF u \in U THEN 0 ELSE at[u]]
      /\ open' = SubSeq(open, Cardinality(Leading(level)) + 1, Len(open))
      /\ slots' = SubSeq(slots, 1, level - 1)
      /\ names' = SubSeq(names, 1, level - 1)
      /\ UNCHANGED <<of, arena, saved, current>>

(***************************************************************************)
(* restore_state, after an error in the reader function of load, and the   *)
(* Rust API's call_function drop the frames above without close_upvalues.  *)
(***************************************************************************)
Abandon(level) ==
  /\ level \in DOMAIN slots
  /\ Escapes \/ CloseFrom(level) = {}
  /\ slots' = SubSeq(slots, 1, level - 1)
  /\ names' = SubSeq(names, 1, level - 1)
  /\ UNCHANGED <<open, at, own, of, arena, saved, current>>

Used == ToSet(names) \union {of[u] : u \in Upvalues}
          \union (UNION {ToSet(saved[k].stack.names) : k \in DOMAIN saved})
          \union (UNION {ToSet(arena[t].stack.names) : t \in Threads})

Declare(x, v) ==
  /\ x \notin Used
  /\ Len(slots) < MaxSlots
  /\ slots' = Append(slots, v)
  /\ names' = Append(names, x)
  /\ UNCHANGED <<open, at, own, of, arena, saved, current>>

SetLocal(i, v) ==
  /\ i \in DOMAIN slots
  /\ slots' = [slots EXCEPT ![i] = v]
  /\ UNCHANGED <<names, open, at, own, of, arena, saved, current>>

(***************************************************************************)
(* A function that has captured a variable may be called in any thread.    *)
(***************************************************************************)
SetUpval(u, v) ==
  /\ at[u] # 0 \/ own[u] # None
  /\ SetUpvalue(u, v)
  /\ UNCHANGED <<names, open, at, of, arena, saved, current>>

(***************************************************************************)
(* co_create and co_wrap.                                                  *)
(***************************************************************************)
Create(t) ==
  /\ arena[t].status = "Unborn"
  /\ arena' = [arena EXCEPT ![t].status = "Initial"]
  /\ UNCHANGED <<stackVars, at, own, of, saved, current>>

-----------------------------------------------------------------------------
(***************************************************************************)
(* The swap.                                                               *)
(***************************************************************************)

(***************************************************************************)
(* close_thread_upvalues: the pairs to reopen.                             *)
(***************************************************************************)
OpenNow == {u \in ToSet(open) : at[u] # 0}
Suspending == [u \in OpenNow |-> at[u]]

PutAway == [slots |-> slots, names |-> names, open |-> open,
            suspended |-> Suspending]

(***************************************************************************)
(* Taking a thread back: the values of its upvalues, which may have been   *)
(* assigned to meanwhile, go to their slots.  Slip: the slots keep what    *)
(* they had when the thread was put away.                                  *)
(***************************************************************************)
TakenSlotsStale(th, held) == th.slots
TakenSlots(th, held) ==
  LET there == {u \in DOMAIN th.suspended : held[u] # None}
      written == {th.suspended[u] : u \in there}
  IN  [i \in DOMAIN th.slots |->
        IF i \in written THEN held[CHOOSE u \in there : th.suspended[u] = i]
        ELSE th.slots[i]]

(***************************************************************************)
(* The upvalues are listed again unless they are, and on a resume the list *)
(* is sorted, the highest slot first.                                      *)
(***************************************************************************)
Relisted(th) ==
  {th.open \o rest : rest \in SetToSeqs(DOMAIN th.suspended \ ToSet(th.open))}

Sorted(th, index) ==
  {list \in SetToSeqs(ToSet(th.open) \union DOMAIN th.suspended) :
     \A i, j \in DOMAIN list : i < j => index[list[i]] >= index[list[j]]}

Swap(th, sorts) ==
  LET held  == Closed(OpenNow)
      index == [u \in Upvalues |->
                 IF u \in DOMAIN th.suspended THEN th.suspended[u]
                 ELSE IF u \in OpenNow THEN 0 ELSE at[u]]
  IN  /\ slots' = TakenSlots(th, held)
      /\ names' = th.names
      /\ at' = index
      /\ own' = [u \in Upvalues |->
                  IF u \in DOMAIN th.suspended THEN None ELSE held[u]]
      /\ open' \in IF sorts THEN Sorted(th, index) ELSE Relisted(th)
      /\ UNCHANGED of

(***************************************************************************)
(* auxresume, up to the first instruction of the coroutine.                *)
(***************************************************************************)
Resumable(t) == arena[t].status \in {"Initial", "Suspended"}

Resume(t) ==
  /\ Resumable(t)
  /\ Len(saved) < MaxSaved
  /\ saved' = Append(saved, [caller |-> current, stack |-> PutAway])
  /\ arena' = [arena EXCEPT ![t] = [status |-> "Running", stack |-> Blank]]
  /\ current' = t
  /\ Swap(arena[t].stack, TRUE)

(***************************************************************************)
(* save_and_restore_by_ref, after the coroutine yielded, returned or       *)
(* failed.  A function that returns has left its variables (OP_RETURN),    *)
(* one that fails leaves its stack as it was.                              *)
(***************************************************************************)
Return(status, left) ==
  /\ current # "main"
  /\ saved' = Front(saved)
  /\ arena' = [arena EXCEPT ![current] = [status |-> status, stack |-> left]]
  /\ current' = Last(saved).caller
  /\ Swap(Last(saved).stack, FALSE)

Yield  == Return("Suspended", PutAway)
Finish == Return("Dead", Blank)
Fail   == Return("Dead", PutAway)

(***************************************************************************)
(* debug.setlocal on a coroutine writes its stack in the arena; a waiting  *)
(* coroutine has no frame there.                                           *)
(***************************************************************************)
DebugSetLocal(t, i, v) ==
  /\ i \in DOMAIN arena[t].stack.slots
  /\ arena' = [arena EXCEPT ![t].stack.slots[i] = v]
  /\ UNCHANGED <<stackVars, at, own, of, saved, current>>

-----------------------------------------------------------------------------
Init ==
  /\ slots = <<>> /\ names = <<>> /\ open = <<>>
  /\ at = [u \in Upvalues |-> 0]
  /\ own = [u \in Upvalues |-> None]
  /\ of = [u \in Upvalues |-> None]
  /\ arena = [t \in Threads |-> [status |-> "Unborn", stack |-> Blank]]
  /\ saved = <<>>
  /\ current = "main"

Next ==
  \/ \E t \in Threads : Create(t) \/ Resume(t)
  \/ Yield \/ Finish \/ Fail
  \/ \E i \in 1..MaxSlots : FindUpvalue(i) \/ Leave(i) \/ Abandon(i)
  \/ \E v \in Vals :
       \/ \E x \in Vars : Declare(x, v)
       \/ \E i \in 1..MaxSlots : SetLocal(i, v)
       \/ \E u \in Upvalues : SetUpval(u, v)
       \/ \E t \in Threads, i \in 1..MaxSlots : DebugSetLocal(t, i, v)

Spec == Init /\ [][Next]_vars

-----------------------------------------------------------------------------
(***************************************************************************)
(* The shape of the state.                                                 *)
(***************************************************************************)
ThreadOK(th) ==
  /\ th.slots \in Seq(Vals) /\ Len(th.slots) <= MaxSlots
  /\ th.names \in Seq(Vars) /\ Len(th.names) = Len(th.slots)
  /\ th.open \in Seq(Upvalues)
  /\ DOMAIN th.suspended \subseteq Upvalues
  /\ \A u \in DOMAIN th.suspended : th.suspended[u] \in DOMAIN th.slots

TypeOK ==
  /\ ThreadOK(PutAway)
  /\ at \in [Upvalues -> 0..MaxSlots]
  /\ own \in [Upvalues -> Vals \union {None}]
  /\ of \in [Upvalues -> Vars \union {None}]
  /\ \A t \in Threads : arena[t].status \in Statuses /\ ThreadOK(arena[t].stack)
  /\ \A k \in DOMAIN saved :
       saved[k].caller \in Threads \union {"main"} /\ ThreadOK(saved[k].stack)
  /\ current \in Threads \union {"main"}

(***************************************************************************)
(* open_upvalues lists exactly the open upvalues, each for a slot of its   *)
(* own of the running stack and the highest first, as find_upvalue and     *)
(* close_upvalues expect of a list that a swap put together again.         *)
(***************************************************************************)
OpenInOrder ==
  /\ ToSet(open) = {u \in Upvalues : at[u] # 0}
  /\ \A i, j \in DOMAIN open : i < j => at[open[i]] > at[open[j]]
  /\ \A u \in ToSet(open) : at[u] \in DOMAIN slots

(***************************************************************************)
(* The value of a variable: what its upvalue has, or what its slot has, in *)
(* whichever thread that is.                                               *)
(***************************************************************************)
Dead == {t \in Threads : arena[t].status = "Dead"}

Stacks == {PutAway} \union {saved[k].stack : k \in DOMAIN saved}
            \union {arena[t].stack : t \in Threads \ Dead}

Shared(x) == {u \in Upvalues : of[u] = x}

SlotValues(x) ==
  UNION {{th.slots[i] : i \in {i \in DOMAIN th.slots : th.names[i] = x}} :
           th \in Stacks}

ValueOf(x) ==
  IF Shared(x) # {} THEN Get(CHOOSE u \in Shared(x) : TRUE)
  ELSE IF SlotValues(x) # {} THEN CHOOSE v \in SlotValues(x) : TRUE
  ELSE None

(***************************************************************************)
(* The function that declared a variable, while it runs, and every         *)
(* function that captured it see the same value, and the list of open      *)
(* upvalues is in the order in which they are looked for and closed.       *)
(***************************************************************************)
OneVariable ==
  /\ OpenInOrder
  /\ \A x \in Vars : \A u \in Shared(x) : Get(u) = ValueOf(x)
  /\ \A i \in DOMAIN slots : slots[i] = ValueOf(names[i])

(***************************************************************************)
(* Threads implement what CoroutineSpec promises.                          *)
(***************************************************************************)
Chain == IF current = "main" THEN <<>>
         ELSE Append(Tail([k \in DOMAIN saved |-> saved[k].caller]), current)

ScopeOf(t) ==
  IF t = current THEN ToSet(names)
  ELSE IF \E k \in DOMAIN saved : saved[k].caller = t
       THEN ToSet(saved[CHOOSE k \in DOMAIN saved : saved[k].caller = t].stack.names)
       ELSE IF t \in Threads /\ t \notin Dead
            THEN ToSet(arena[t].stack.names) ELSE {}

Promise == INSTANCE CoroutineSpec WITH
  chain    <- Chain,
  created  <- {t \in Threads : arena[t].status # "Unborn"},
  dead     <- Dead,
  scope    <- [t \in Threads \union {"main"} |-> ScopeOf(t)],
  captured <- {of[u] : u \in Upvalues} \ {None},
  value    <- [x \in Vars |-> ValueOf(x)]

Implements == Promise!Spec

(***************************************************************************)
(* co_status.  The arena's copy of a thread that waits for a coroutine it  *)
(* has resumed keeps the status Running: save_thread_state gives Normal to *)
(* the copy on saved_threads only.                                         *)
(***************************************************************************)
CoStatus(t) ==
  IF t = current THEN "running"
  ELSE CASE arena[t].status = "Running" -> "running"
         [] arena[t].status \in {"Initial", "Suspended"} -> "suspended"
         [] arena[t].status = "Dead" -> "dead"

=============================================================================
