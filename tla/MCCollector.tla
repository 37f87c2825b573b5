----------------------------- MODULE MCCollector -----------------------------
(***************************************************************************)
(* Instances of Collector for TLC.                                         *)
(***************************************************************************)
EXTENDS CollectorInv, TLC

(***************************************************************************)
(* Objects of one kind are interchangeable, except for the global table.   *)
(***************************************************************************)
Interchangeable == Permutations(Tables \ {Global}) \union Permutations(Closures)

(***************************************************************************)
(* A later starting point: the main program has created a coroutine with   *)
(* a function as its body and resumed it.                                  *)
(***************************************************************************)
InitResumed ==
  \E body \in Closures, co \in Threads :
    /\ color = [o \in Obj |-> IF o \in {Global, body, co} THEN "white0" ELSE "free"]
    /\ refs = [o \in Obj |-> {}]
    /\ stack = {body} /\ open = {} /\ saved = {co} /\ parked = {}
    /\ current = co
    /\ typeMetatables = {}
    /\ phase = "Pause"
    /\ currentWhite = "white0"
    /\ gray = {} /\ grayagain = {} /\ mainGray = FALSE
    /\ arena = 1 /\ unswept = {}
    /\ tmudata = {} /\ finalized = {}
    /\ doomed = {}

SpecResumed == InitResumed /\ [][Next]_vars
=============================================================================
