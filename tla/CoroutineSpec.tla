---------------------------- MODULE CoroutineSpec ----------------------------
(***************************************************************************)
(* What coroutines and captured variables promise to a Lua program.        *)
(*                                                                         *)
(* A variable is one variable, whichever functions have captured it and    *)
(* whichever thread writes it: it has one value, changed by assignments    *)
(* only.  Threads form a chain of resumptions; only its last one runs, a   *)
(* thread is in the chain at most once, and a dead one never returns.      *)
(***************************************************************************)
EXTENDS Sequences, SequencesExt

CONSTANTS Threads,  \* coroutines
          Vars,     \* local variables, one for each time one is declared
          Vals,     \* values
          None      \* of a variable that is not declared

VARIABLES
  chain,    \* the coroutines resumed and not suspended, the running one last
  created,  \* coroutines that exist
  dead,     \* coroutines that have returned or failed
  scope,    \* the variables in scope of each thread
  captured, \* the variables some function has captured
  value     \* the value of each variable

vars == <<chain, created, dead, scope, captured, value>>

Running == IF chain = <<>> THEN "main" ELSE Last(chain)

Suspended == created \ (dead \union ToSet(chain))

(***************************************************************************)
(* The status that coroutine.status gives to the program.                  *)
(***************************************************************************)
Status(t) ==
  CASE t \in dead -> "dead"
    [] t = Running -> "running"
    [] t \in ToSet(chain) \ {Running} -> "normal"
    [] t \in Suspended -> "suspended"

Create(t) ==
  /\ t \notin created
  /\ created' = created \union {t}
  /\ UNCHANGED <<chain, dead, scope, captured, value>>

Resume(t) ==
  /\ t \in Suspended
  /\ chain' = Append(chain, t)
  /\ UNCHANGED <<created, dead, scope, captured, value>>

Yield ==
  /\ chain # <<>>
  /\ chain' = Front(chain)
  /\ UNCHANGED <<created, dead, scope, captured, value>>

(***************************************************************************)
(* Variables that go out of scope live on if a function has captured them. *)
(***************************************************************************)
Drop(X) ==
  value' = [x \in Vars |-> IF x \in X \ captured THEN None ELSE value[x]]

(***************************************************************************)
(* A return or an error ends the coroutine, with all it had in scope.      *)
(***************************************************************************)
End ==
  /\ chain # <<>>
  /\ chain' = Front(chain)
  /\ dead' = dead \union {Running}
  /\ scope' = [scope EXCEPT ![Running] = {}]
  /\ Drop(scope[Running])
  /\ UNCHANGED <<created, captured>>

Declare(x, v) ==
  /\ value[x] = None
  /\ scope' = [scope EXCEPT ![Running] = @ \union {x}]
  /\ value' = [value EXCEPT ![x] = v]
  /\ UNCHANGED <<chain, created, dead, captured>>

Leave(X) ==
  /\ X \subseteq scope[Running]
  /\ scope' = [scope EXCEPT ![Running] = @ \ X]
  /\ Drop(X)
  /\ UNCHANGED <<chain, created, dead, captured>>

Capture(x) ==
  /\ x \in scope[Running]
  /\ captured' = captured \union {x}
  /\ UNCHANGED <<chain, created, dead, scope, value>>

Assign(x, v) ==
  /\ x \in scope[Running] \union captured
  /\ value' = [value EXCEPT ![x] = v]
  /\ UNCHANGED <<chain, created, dead, scope, captured>>

(***************************************************************************)
(* debug.setlocal on a suspended coroutine: it has an effect on variables  *)
(* that no function has captured, and none on the others.                  *)
(***************************************************************************)
DebugAssign(x, v) ==
  /\ \E t \in Suspended : x \in scope[t]
  /\ x \notin captured
  /\ value' = [value EXCEPT ![x] = v]
  /\ UNCHANGED <<chain, created, dead, scope, captured>>

Init ==
  /\ chain = <<>> /\ created = {} /\ dead = {}
  /\ scope = [t \in Threads \union {"main"} |-> {}]
  /\ captured = {}
  /\ value = [x \in Vars |-> None]

Next ==
  \/ \E t \in Threads : Create(t) \/ Resume(t)
  \/ Yield \/ End
  \/ \E X \in SUBSET Vars : Leave(X)
  \/ \E x \in Vars : Capture(x)
  \/ \E x \in Vars, v \in Vals : Declare(x, v) \/ Assign(x, v) \/ DebugAssign(x, v)

Spec == Init /\ [][Next]_vars
=============================================================================
