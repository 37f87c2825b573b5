---------------------------- MODULE CollectorInv ----------------------------
(***************************************************************************)
(* The inductive invariant of the collector: the tri-colour invariant of   *)
(* its header comment, spelt out for the objects that are exempt from it   *)
(* (threads, the upvalues of a waiting resumer) and extended to the sweep. *)
(***************************************************************************)
EXTENDS Collector

Sweeping == phase \in {"SweepString", "Sweep"}

(***************************************************************************)
(* An object the current cycle will not free.                              *)
(***************************************************************************)
Live(o) == color[o] # "free" /\ ~(Sweeping /\ color[o] = OtherWhite)

(***************************************************************************)
(* The program's roots are live and live objects refer to live objects.    *)
(***************************************************************************)
RootsLive == \A o \in Roots : Live(o)
HeapLive  == \A o \in Obj : Live(o) => \A c \in refs[o] : Live(c)

(***************************************************************************)
(* While marking, a black object has no white child.  Threads are exempt   *)
(* because they are traversed again from grayagain, a parked upvalue as    *)
(* far as its value is still in its slot on the resumer's stack.           *)
(***************************************************************************)
BlackClosed ==
  phase = "Propagate" =>
    \A o \in Obj \ Threads :
      color[o] = "black" =>
        refs[o] \intersect White \subseteq IF o \in parked THEN saved ELSE {}

(***************************************************************************)
(* While marking, every gray object and every black thread is on a list    *)
(* the atomic step goes through, and what is listed has been marked.       *)
(***************************************************************************)
GrayListed ==
  phase = "Propagate" =>
    /\ \A o \in Obj : color[o] = "gray" => o \in gray \union grayagain
    /\ \A o \in Threads : color[o] = "black" => o \in grayagain
    /\ \A o \in gray \union grayagain : color[o] \in {"gray", "black"}

(***************************************************************************)
(* While marking, the roots marked by mark_roots alone stay marked, and no *)
(* object has the white of the coming cycle.                               *)
(***************************************************************************)
RootsMarked ==
  phase = "Propagate" =>
    /\ ({Global} \union typeMetatables) \intersect White = {}
    /\ \A o \in Obj : color[o] # OtherWhite

(***************************************************************************)
(* Behind the sweep cursor, and between a sweep and the next marking,      *)
(* every object has the current white; only occupied slots lie ahead of    *)
(* the cursor.                                                             *)
(***************************************************************************)
Settled ==
  /\ phase \in {"Pause", "Finalize"} =>
       \A o \in Obj : color[o] \in {"free", currentWhite}
  /\ Sweeping =>
       /\ unswept \subseteq Allocated
       /\ \A o \in Obj \ unswept : color[o] \in {"free", currentWhite}
       /\ \A i \in 1..6 : i < arena => unswept \intersect Arenas[i] = {}
  /\ phase = "SweepString" => arena = 1

(***************************************************************************)
(* Finalizers are pending only from the atomic step to the end of a cycle; *)
(* a resumer is waiting only while a coroutine runs.                       *)
(***************************************************************************)
Pending ==
  /\ phase \in {"Pause", "Propagate"} => tmudata = {}
  /\ current = "main" => saved = {} /\ parked = {}

(***************************************************************************)
(* The part that holds whatever the program writes, and the part that      *)
(* needs its barriers.                                                     *)
(***************************************************************************)
Cursor   == TypeOK /\ Settled /\ Pending
Tricolor == RootsLive /\ HeapLive /\ BlackClosed /\ GrayListed /\ RootsMarked

IInv == Cursor /\ Tricolor

(***************************************************************************)
(* What was garbage when the cycle began stays out of everyone's reach:    *)
(* nothing else comes to refer to it and it is never marked, however the   *)
(* program writes the heap.                                                *)
(***************************************************************************)
Apart(D) ==
  /\ Roots \intersect D = {}
  /\ \A d \in (Finalizable \ finalized) \intersect D : color[d] = "free"
  /\ \A o \in Obj \ D : color[o] # "free" => refs[o] \intersect D = {}

DoomedApart == Apart(doomed)

DoomedWhite ==
  /\ phase = "Propagate" => doomed \subseteq White
  /\ Sweeping => \A o \in doomed : color[o] \in {"free", OtherWhite}
  /\ phase \in {"Pause", "Finalize"} => \A o \in doomed : color[o] = "free"

GarbageInv == DoomedApart /\ DoomedWhite
=============================================================================
