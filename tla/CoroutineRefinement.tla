------------------------ MODULE CoroutineRefinement ------------------------
(***************************************************************************)
(* Proof that the threads implement what CoroutineSpec promises, step by   *)
(* step, as long as no frame is dropped with its upvalues open (~Escapes). *)
(***************************************************************************)
EXTENDS CoroutineProofs

-----------------------------------------------------------------------------
(***************************************************************************)
(* What the program sees.                                                  *)
(***************************************************************************)
Created == {t \in Threads : arena[t].status # "Unborn"}

Scopes == [t \in Threads \union {"main"} |-> ScopeOf(t)]

Captured == {of[u] : u \in Upvalues} \ {None}

Values == [x \in Vars |-> ValueOf(x)]

(***************************************************************************)
(* The stacks of the threads that are not dead.                            *)
(***************************************************************************)
Live == {p \in Places : \A t \in Threads : p = <<"arena", t>> => t \notin Dead}

(***************************************************************************)
(* The chain of resumptions, from the first coroutine to the running one.  *)
(***************************************************************************)
ChainLaw ==
  /\ Chain \in Seq(Threads) /\ Len(Chain) = Len(saved)
  /\ \A k \in 1 .. Len(saved) :
       Chain[k] = IF k = Len(saved) THEN current ELSE saved[k + 1].caller

(***************************************************************************)
(* The variables in scope of the thread that runs, of those that wait and  *)
(* of the others.                                                          *)
(***************************************************************************)
ScopeLaw ==
  /\ ScopeOf(current) = ToSet(names)
  /\ \A k \in DOMAIN saved : ScopeOf(saved[k].caller) = ToSet(saved[k].stack.names)
  /\ \A t \in Threads : arena[t].status # "Running" =>
       ScopeOf(t) = IF t \in Dead THEN {} ELSE ToSet(arena[t].stack.names)

(***************************************************************************)
(* The value of a variable: of its upvalue, or of the slot that it is in.  *)
(***************************************************************************)
InSlot(x, v) ==
  \E p \in Live : \E i \in DOMAIN Family[p].names :
    Family[p].names[i] = x /\ Family[p].slots[i] = v

ValueLaw ==
  \A x \in Vars :
    /\ \A u \in Upvalues : of[u] = x => ValueOf(x) = Get(u)
    /\ x \notin Captured => /\ \A v : InSlot(x, v) => ValueOf(x) = v
                            /\ (\A v : ~ InSlot(x, v)) => ValueOf(x) = None

-----------------------------------------------------------------------------
\* The chain of resumptions is read off the threads put away.
LEMMA Chained == IInv => ChainLaw
<1> SUFFICES ASSUME IInv PROVE ChainLaw
  OBVIOUS
<1> DEFINE n == Len(saved)
           callers == [k \in DOMAIN saved |-> saved[k].caller]
<1>1. /\ saved \in Seq([caller : Threads \union {"main"}, stack : Stack])
      /\ current \in Threads \union {"main"}
      /\ n \in Nat /\ DOMAIN saved = 1 .. n
  BY LenProperties DEF IInv, Typed
<1>2. n = 0 <=> current = "main"
  <2>1. n = 0 <=> saved = <<>>
    BY <1>1, EmptySeq
  <2> QED BY <2>1 DEF IInv, Lined
<1>3. CASE n = 0
  <2>1. Chain = <<>>
    BY <1>2, <1>3 DEF Chain
  <2> QED BY <1>3, <2>1 DEF ChainLaw
<1>4. CASE n # 0
  <2>1. n \in Nat \ {0} /\ current \in Threads
    BY <1>1, <1>2, <1>4
  <2>2. \A k \in 1 .. n : callers[k] = saved[k].caller /\ callers[k] \in Threads \union {"main"}
    <3>1. \A k \in 1 .. n : saved[k] \in [caller : Threads \union {"main"}, stack : Stack]
      BY <1>1, ElementOfSeq
    <3> QED BY <1>1, <3>1
  <2>3. callers \in [1 .. n -> Threads \union {"main"}]
    BY <1>1, <2>2
  <2>4. callers \in Seq(Threads \union {"main"}) /\ Len(callers) = n
    BY <1>1, <2>3, SeqDef, LenProperties
  <2>5. \A k \in 2 .. n : saved[k].caller \in Threads
    BY <1>1, <2>2 DEF IInv, Lined
  <2>6. Chain = Append(Tail(callers), current)
    BY <1>2, <1>4 DEF Chain
  <2> HIDE DEF callers
  <2>7. /\ Tail(callers) \in Seq(Threads \union {"main"}) /\ Len(Tail(callers)) = n - 1
        /\ \A k \in 1 .. n - 1 : Tail(callers)[k] = callers[k + 1]
    <3>1. callers # <<>>
      BY <2>1, <2>4, EmptySeq
    <3> QED BY <2>4, <3>1, HeadTailProperties
  <2>8. /\ Chain \in Seq(Threads \union {"main"}) /\ Len(Chain) = n
        /\ Chain[n] = current
        /\ \A k \in 1 .. n - 1 : Chain[k] = saved[k + 1].caller
    <3>1. /\ Append(Tail(callers), current) \in Seq(Threads \union {"main"})
          /\ Len(Append(Tail(callers), current)) = n - 1 + 1
          /\ Append(Tail(callers), current)[n - 1 + 1] = current
          /\ \A k \in 1 .. n - 1 : Append(Tail(callers), current)[k] = Tail(callers)[k]
      BY <2>1, <2>7, AppendProperties
    <3>2. \A k \in 1 .. n - 1 : k + 1 \in 1 .. n
      BY <2>1
    <3>3. n - 1 + 1 = n
      BY <2>1
    <3> QED BY <2>2, <2>6, <2>7, <3>1, <3>2, <3>3
  <2>9. \A k \in 1 .. n : Chain[k] = IF k = n THEN current ELSE saved[k + 1].caller
    BY <2>1, <2>8
  <2>10. \A k \in 1 .. n : Chain[k] \in Threads
    BY <2>1, <2>5, <2>9
  <2>11. Chain \in Seq(Threads)
    <3>1. Chain \in [1 .. n -> Threads]
      BY <2>8, <2>10, LenProperties
    <3> QED BY <1>1, <3>1, SeqDef
  <2> QED BY <2>8, <2>9, <2>11 DEF ChainLaw
<1> QED BY <1>3, <1>4

\* What is in scope of a thread is what its stack names, wherever that stack is kept.
LEMMA Scoped == IInv => ScopeLaw
<1> SUFFICES ASSUME IInv PROVE ScopeLaw
  OBVIOUS
<1>1. ScopeOf(current) = ToSet(names)
  BY DEF ScopeOf
<1>2. ASSUME NEW k \in DOMAIN saved
      PROVE  ScopeOf(saved[k].caller) = ToSet(saved[k].stack.names)
  <2> DEFINE c == saved[k].caller
             j == CHOOSE j \in DOMAIN saved : saved[j].caller = c
  <2>1. c # current /\ \E l \in DOMAIN saved : saved[l].caller = c
    BY DEF IInv, Lined
  <2>2. j \in DOMAIN saved /\ saved[j].caller = c
    OBVIOUS
  <2>3. j = k
    <3> HIDE DEF j
    <3> QED BY <2>2 DEF IInv, Lined
  <2>4. ScopeOf(c) = ToSet(saved[j].stack.names)
    BY <2>1 DEF ScopeOf
  <2> HIDE DEF j
  <2> QED BY <2>3, <2>4
<1>3. ASSUME NEW t \in Threads, arena[t].status # "Running"
      PROVE  ScopeOf(t) = IF t \in Dead THEN {} ELSE ToSet(arena[t].stack.names)
  <2>1. t # current /\ \A k \in DOMAIN saved : saved[k].caller # t
    BY <1>3 DEF IInv, Lined
  <2> QED BY <2>1 DEF ScopeOf
<1> QED BY <1>1, <1>2, <1>3 DEF ScopeLaw

\* All upvalues and slots of a variable agree on its value.
LEMMA Valued == IInv => ValueLaw
<1> SUFFICES ASSUME IInv, NEW x \in Vars
             PROVE  /\ \A u \in Upvalues : of[u] = x => ValueOf(x) = Get(u)
                    /\ x \notin Captured => /\ \A v : InSlot(x, v) => ValueOf(x) = v
                                            /\ (\A v : ~ InSlot(x, v)) => ValueOf(x) = None
  BY DEF ValueLaw
<1>1. \A u \in Upvalues : of[u] = x => ValueOf(x) = Get(u)
  <2>1. OneVariable
    BY IInvOne
  <2> QED BY <2>1 DEF OneVariable, Shared
<1>2. \A v : InSlot(x, v) <=> v \in SlotValues(x)
  <2>1. \A p \in Places : /\ Len(Family[p].names) = Len(Family[p].slots)
                          /\ Family[p].names \in Seq(Vars) /\ Family[p].slots \in Seq(Vals)
    BY DEF IInv, Sound, Stack
  <2>2. \A p \in Places : DOMAIN Family[p].names = DOMAIN Family[p].slots
    BY <2>1, LenProperties
  <2>3. ASSUME NEW p \in Live PROVE Family[p] \in Stacks /\ p \in Places
    <3>1. p \in Places /\ \A t \in Threads : p = <<"arena", t>> => t \notin Dead
      BY DEF Live
    <3>2. CASE p = Run /\ Family[p] = PutAway
      BY <3>1, <3>2 DEF Stacks
    <3>3. CASE \E k \in DOMAIN saved : p = <<"saved", k>> /\ Family[p] = saved[k].stack
      BY <3>1, <3>3 DEF Stacks
    <3>4. CASE \E t \in Threads : p = <<"arena", t>> /\ Family[p] = arena[t].stack
      BY <3>1, <3>4 DEF Stacks
    <3> QED BY <3>1, <3>2, <3>3, <3>4, PlaceIs
  <2>4. ASSUME NEW th \in Stacks PROVE \E p \in Live : th = Family[p]
    <3>1. CASE th = PutAway
      <4>1. Run \in Live /\ Family[Run] = PutAway
        BY FamilyIs, PlacesDiffer DEF Live
      <4> QED BY <3>1, <4>1
    <3>2. ASSUME NEW k \in DOMAIN saved, th = saved[k].stack PROVE \E p \in Live : th = Family[p]
      <4>1. <<"saved", k>> \in Live /\ Family[<<"saved", k>>] = saved[k].stack
        BY FamilyIs, PlacesDiffer DEF Live
      <4> QED BY <3>2, <4>1
    <3>3. ASSUME NEW t \in Threads \ Dead, th = arena[t].stack PROVE \E p \in Live : th = Family[p]
      <4>1. <<"arena", t>> \in Live /\ Family[<<"arena", t>>] = arena[t].stack
        BY FamilyIs, PlacesDiffer DEF Live
      <4> QED BY <3>3, <4>1
    <3> QED BY <3>1, <3>2, <3>3 DEF Stacks
  <2>5. ASSUME NEW v, InSlot(x, v) PROVE v \in SlotValues(x)
    <3>1. PICK p \in Live : \E i \in DOMAIN Family[p].names :
            Family[p].names[i] = x /\ Family[p].slots[i] = v
      BY <2>5 DEF InSlot
    <3>2. PICK i \in DOMAIN Family[p].names : Family[p].names[i] = x /\ Family[p].slots[i] = v
      BY <3>1
    <3>3. i \in DOMAIN Family[p].slots /\ Family[p] \in Stacks
      BY <2>2, <2>3
    <3>4. v \in {Family[p].slots[j] : j \in {j \in DOMAIN Family[p].slots : Family[p].names[j] = x}}
      BY <3>2, <3>3
    <3> QED BY <3>3, <3>4 DEF SlotValues
  <2>6. ASSUME NEW v \in SlotValues(x) PROVE InSlot(x, v)
    <3>1. PICK th \in Stacks : \E i \in DOMAIN th.slots : th.names[i] = x /\ v = th.slots[i]
      BY DEF SlotValues
    <3>2. PICK i \in DOMAIN th.slots : th.names[i] = x /\ v = th.slots[i]
      BY <3>1
    <3>3. PICK p \in Live : th = Family[p]
      BY <2>4
    <3>4. i \in DOMAIN Family[p].names
      BY <2>2, <2>3, <3>2, <3>3
    <3> QED BY <3>2, <3>3, <3>4 DEF InSlot
  <2> QED BY <2>5, <2>6
<1>3. \A v, w : InSlot(x, v) /\ InSlot(x, w) => v = w
  <2> SUFFICES ASSUME NEW v, NEW w, InSlot(x, v), InSlot(x, w) PROVE v = w
    OBVIOUS
  <2>1. PICK p \in Live : \E i \in DOMAIN Family[p].names :
          Family[p].names[i] = x /\ Family[p].slots[i] = v
    BY DEF InSlot
  <2>2. PICK i \in DOMAIN Family[p].names : Family[p].names[i] = x /\ Family[p].slots[i] = v
    BY <2>1
  <2>3. PICK q \in Live : \E j \in DOMAIN Family[q].names :
          Family[q].names[j] = x /\ Family[q].slots[j] = w
    BY DEF InSlot
  <2>4. PICK j \in DOMAIN Family[q].names : Family[q].names[j] = x /\ Family[q].slots[j] = w
    BY <2>3
  <2>5. p = q /\ i = j
    BY <2>2, <2>4, FamilyIs DEF IInv, Apart, Live
  <2> QED BY <2>2, <2>4, <2>5
<1>4. ASSUME x \notin Captured
      PROVE  /\ \A v : InSlot(x, v) => ValueOf(x) = v
             /\ (\A v : ~ InSlot(x, v)) => ValueOf(x) = None
  <2>1. Shared(x) = {}
    <3>1. x # None
      BY CoroutineAssumption
    <3> QED BY <1>4, <3>1 DEF Captured, Shared
  <2>2. ValueOf(x) = IF SlotValues(x) # {} THEN CHOOSE v \in SlotValues(x) : TRUE ELSE None
    BY <2>1 DEF ValueOf
  <2>3. ASSUME NEW v, InSlot(x, v) PROVE ValueOf(x) = v
    <3>1. v \in SlotValues(x) /\ \A w \in SlotValues(x) : w = v
      BY <1>2, <1>3, <2>3
    <3> QED BY <2>2, <3>1
  <2>4. ASSUME \A v : ~ InSlot(x, v) PROVE ValueOf(x) = None
    BY <1>2, <2>2, <2>4
  <2> QED BY <2>3, <2>4
<1> QED BY <1>1, <1>4

\* The laws hold of the next state too, when it is one that the invariant allows.
LEMMA LawsNext == IInv' => ChainLaw' /\ ScopeLaw' /\ ValueLaw'
BY Chained, Scoped, Valued, PTL

\* A variable whose upvalues and slots have what they had has the value that it had.
LEMMA SameValue ==
  ASSUME ValueLaw, ValueLaw', Captured' = Captured, NEW x \in Vars,
         x \in Captured => \E u \in Upvalues : of[u] = x /\ of'[u] = x /\ Get(u)' = Get(u),
         x \notin Captured => \A v : InSlot(x, v)' <=> InSlot(x, v)
  PROVE  ValueOf(x)' = ValueOf(x)
<1>1. CASE x \in Captured
  <2>1. PICK u \in Upvalues : of[u] = x /\ of'[u] = x /\ Get(u)' = Get(u)
    BY <1>1
  <2>2. ValueOf(x) = Get(u)
    BY <2>1 DEF ValueLaw
  <2>3. ValueOf(x)' = Get(u)'
    BY <2>1 DEF ValueLaw
  <2> QED BY <2>1, <2>2, <2>3
<1>2. CASE x \notin Captured
  <2>1. /\ \A v : InSlot(x, v) => ValueOf(x) = v
        /\ (\A v : ~ InSlot(x, v)) => ValueOf(x) = None
    BY <1>2 DEF ValueLaw
  <2>2. /\ \A v : InSlot(x, v)' => ValueOf(x)' = v
        /\ (\A v : ~ InSlot(x, v)') => ValueOf(x)' = None
    BY <1>2 DEF ValueLaw
  <2>3. CASE \E v : InSlot(x, v)
    <3>1. PICK v : InSlot(x, v)
      BY <2>3
    <3>2. InSlot(x, v)'
      BY <1>2, <3>1
    <3> QED BY <2>1, <2>2, <3>1, <3>2
  <2>4. CASE \A v : ~ InSlot(x, v)
    BY <1>2, <2>1, <2>2, <2>4
  <2> QED BY <2>3, <2>4
<1> QED BY <1>1, <1>2

\* A captured variable has an upvalue.
LEMMA CapturedIs ==
  ASSUME NEW x \in Vars
  PROVE  x \in Captured <=> \E u \in Upvalues : of[u] = x
BY CoroutineAssumption DEF Captured

-----------------------------------------------------------------------------
(***************************************************************************)
(* Slots of the running stack, and of the others.                          *)
(***************************************************************************)
Here(x, v) == \E i \in DOMAIN names : names[i] = x /\ slots[i] = v

Elsewhere(x, v) ==
  \E p \in Live \ {Run} : \E i \in DOMAIN Family[p].names :
    Family[p].names[i] = x /\ Family[p].slots[i] = v

SlotsSplit == \A x, v : InSlot(x, v) <=> Here(x, v) \/ Elsewhere(x, v)

\* A slot is one of the running stack or of another.
LEMMA Split == SlotsSplit
<1>1. Run \in Live /\ Family[Run] = PutAway /\ PutAway.names = names /\ PutAway.slots = slots
  BY FamilyIs, PlacesDiffer DEF Live, PutAway
<1>2. ASSUME NEW x, NEW v, InSlot(x, v) PROVE Here(x, v) \/ Elsewhere(x, v)
  <2>1. PICK p \in Live : \E i \in DOMAIN Family[p].names :
          Family[p].names[i] = x /\ Family[p].slots[i] = v
    BY <1>2 DEF InSlot
  <2>2. CASE p = Run
    BY <1>1, <2>1, <2>2 DEF Here
  <2>3. CASE p # Run
    BY <2>1, <2>3 DEF Elsewhere
  <2> QED BY <2>2, <2>3
<1>3. ASSUME NEW x, NEW v, Here(x, v) PROVE InSlot(x, v)
  BY <1>1, <1>3 DEF Here, InSlot
<1>4. ASSUME NEW x, NEW v, Elsewhere(x, v) PROVE InSlot(x, v)
  BY <1>4 DEF Elsewhere, InSlot
<1> QED BY <1>2, <1>3, <1>4 DEF SlotsSplit

\* The same of the next state.
LEMMA SplitNext == SlotsSplit'
BY Split, PTL

\* A step of the running thread leaves what is elsewhere.
LEMMA ElsewhereStays ==
  ASSUME UNCHANGED <<arena, saved>>
  PROVE  /\ Live' = Live /\ Dead' = Dead /\ Created' = Created
         /\ \A x, v : Elsewhere(x, v)' <=> Elsewhere(x, v)
<1>1. Places' = Places /\ \A p \in Places \ {Run} : Family'[p] = Family[p]
  BY FamilyStays
<1>2. Dead' = Dead /\ Created' = Created
  BY DEF Dead, Created
<1>3. Live' = Live
  BY <1>1, <1>2 DEF Live
<1>4. \A p \in Live \ {Run} : Family'[p] = Family[p]
  BY <1>1 DEF Live
<1>5. \A x, v : Elsewhere(x, v)' <=> Elsewhere(x, v)
  BY <1>3, <1>4 DEF Elsewhere
<1> QED BY <1>2, <1>3, <1>5

\* The thread that runs is the last of the chain.
LEMMA RunningIs ==
  ASSUME IInv
  PROVE  Promise!Running = current
<1>1. ChainLaw
  BY Chained
<1>2. Len(saved) \in Nat /\ (Len(saved) = 0 <=> current = "main")
  <2>1. saved \in Seq([caller : Threads \union {"main"}, stack : Stack])
    BY DEF IInv, Typed
  <2> QED BY <2>1, LenProperties, EmptySeq DEF IInv, Lined
<1>3. CASE Len(saved) = 0
  <2>1. Chain = <<>> /\ current = "main"
    BY <1>1, <1>2, <1>3, EmptySeq DEF ChainLaw
  <2> QED BY <2>1 DEF Promise!Running
<1>4. CASE Len(saved) # 0
  <2>1. Chain # <<>> /\ Chain[Len(Chain)] = current
    BY <1>1, <1>2, <1>4, EmptySeq DEF ChainLaw
  <2>2. Last(Chain) = current
    BY <2>1 DEF Last
  <2> QED BY <2>1, <2>2 DEF Promise!Running, Promise!Last, Last
<1> QED BY <1>3, <1>4

\* The coroutines that the program sees as suspended are those that can be resumed.
LEMMA SuspendedIs ==
  ASSUME IInv
  PROVE  Promise!Suspended = {t \in Threads : Resumable(t)}
<1>1. ChainLaw /\ Lined
  BY Chained DEF IInv
<1>2. Len(saved) \in Nat /\ DOMAIN saved = 1 .. Len(saved) /\ DOMAIN Chain = 1 .. Len(saved)
  <2>1. saved \in Seq([caller : Threads \union {"main"}, stack : Stack])
    BY DEF IInv, Typed
  <2> QED BY <1>1, <2>1, LenProperties DEF ChainLaw
<1>3. (Len(saved) = 0 <=> current = "main") /\ "main" \notin Threads
  <2>1. saved \in Seq([caller : Threads \union {"main"}, stack : Stack])
    BY DEF IInv, Typed
  <2> QED BY <1>1, <2>1, EmptySeq, CoroutineAssumption DEF Lined
<1>4. ASSUME NEW t \in Threads PROVE t \in ToSet(Chain) <=> arena[t].status = "Running"
  <2>1. arena[t].status = "Running" <=> t = current \/ \E k \in DOMAIN saved : saved[k].caller = t
    BY <1>1 DEF Lined
  <2>2. t \in ToSet(Chain) <=> \E k \in 1 .. Len(saved) : Chain[k] = t
    BY <1>2 DEF ToSet
  <2>3. ASSUME NEW k \in 1 .. Len(saved), Chain[k] = t PROVE arena[t].status = "Running"
    <3>1. k = Len(saved) \/ k + 1 \in DOMAIN saved
      <4>1. ASSUME NEW n \in Nat, NEW j \in 1 .. n PROVE j = n \/ j + 1 \in 1 .. n
        OBVIOUS
      <4> QED BY <1>2, <4>1
    <3> QED BY <1>1, <2>1, <2>3, <3>1 DEF ChainLaw
  <2>4. ASSUME t = current PROVE \E k \in 1 .. Len(saved) : Chain[k] = t
    <3>1. Len(saved) \in 1 .. Len(saved)
      BY <1>2, <1>3, <2>4
    <3> QED BY <1>1, <2>4, <3>1 DEF ChainLaw
  <2>5. ASSUME NEW k \in DOMAIN saved, saved[k].caller = t
        PROVE  \E l \in 1 .. Len(saved) : Chain[l] = t
    <3>1. k # 1
      BY <1>1, <1>3, <2>5 DEF Lined
    <3>2. k - 1 \in 1 .. Len(saved) /\ k - 1 # Len(saved) /\ (k - 1) + 1 = k
      BY <1>2, <3>1
    <3>3. Chain[k - 1] = saved[k].caller
      BY <1>1, <3>2 DEF ChainLaw
    <3> QED BY <2>5, <3>2, <3>3
  <2> QED BY <2>1, <2>2, <2>3, <2>4, <2>5
<1>5. \A t \in Threads : arena[t].status \in Statuses
  BY DEF IInv, Typed
<1>6. \A t \in Threads : Resumable(t) <=>
        arena[t].status # "Unborn" /\ arena[t].status # "Dead" /\ arena[t].status # "Running"
  BY <1>5 DEF Resumable, Statuses
<1> QED BY <1>4, <1>6 DEF Promise!Suspended, Promise!ToSet, ToSet, Dead

-----------------------------------------------------------------------------
(***************************************************************************)
(* Steps of the running thread.                                            *)
(***************************************************************************)
\* At the beginning there is no coroutine and no variable.
LEMMA InitIs ==
  ASSUME Init
  PROVE  Promise!Init
<1>1. IInv
  BY Beginning
<1>2. /\ names = <<>> /\ saved = <<>> /\ current = "main"
      /\ of = [u \in Upvalues |-> None]
      /\ arena = [t \in Threads |-> [status |-> "Unborn", stack |-> Blank]]
  BY DEF Init
<1>3. ScopeLaw /\ ValueLaw
  BY <1>1, Scoped, Valued
<1>4. Chain = <<>> /\ Dead = {} /\ Created = {}
  BY <1>2 DEF Chain, Dead, Created
<1>5. Captured = {}
  BY <1>2 DEF Captured
<1>6. \A t \in Threads \union {"main"} : ScopeOf(t) = {}
  <2>1. \A t \in Threads : arena[t].status # "Running" /\ ToSet(arena[t].stack.names) = {}
    BY <1>2 DEF Blank, ToSet
  <2>2. ToSet(names) = {}
    BY <1>2 DEF ToSet
  <2> QED BY <1>2, <1>3, <2>1, <2>2 DEF ScopeLaw
<1>7. \A x \in Vars : ValueOf(x) = None
  <2>1. ASSUME NEW x \in Vars, NEW v PROVE ~ InSlot(x, v)
    <3>1. \A p \in Places : DOMAIN Family[p].names = {}
      <4>1. DOMAIN PutAway.names = {} /\ DOMAIN saved = {}
        BY <1>2 DEF PutAway
      <4>2. \A t \in Threads : DOMAIN arena[t].stack.names = {}
        BY <1>2 DEF Blank
      <4> QED BY <4>1, <4>2, PlaceIs
    <3> QED BY <3>1 DEF InSlot, Live
  <2> QED BY <1>3, <1>5, <2>1 DEF ValueLaw
<1> QED BY <1>4, <1>5, <1>6, <1>7 DEF Promise!Init, Created, Captured

\* A coroutine is created.
LEMMA CreateIs ==
  ASSUME IInv, NEW t \in Threads, Create(t)
  PROVE  Promise!Create(t)
<1>1. /\ arena[t].status = "Unborn" /\ arena' = [arena EXCEPT ![t].status = "Initial"]
      /\ UNCHANGED <<slots, names, open, at, own, of, saved, current>>
  BY DEF Create, stackVars
<1>2. arena \in [Threads -> [status : Statuses, stack : Stack]]
  BY DEF IInv, Typed
<1>3. \A s \in Threads : /\ arena'[s].stack = arena[s].stack
                         /\ arena'[s].status = IF s = t THEN "Initial" ELSE arena[s].status
  BY <1>1, <1>2
<1>4. t \notin Created /\ Created' = Created \union {t} /\ Dead' = Dead
  BY <1>1, <1>3 DEF Created, Dead
<1>5. Chain' = Chain /\ Captured' = Captured
  BY <1>1 DEF Chain, Captured
<1>6. ASSUME NEW s \in Threads \union {"main"} PROVE ScopeOf(s)' = ScopeOf(s)
  BY <1>1, <1>3, <1>4 DEF ScopeOf
<1>7. ASSUME NEW x \in Vars PROVE ValueOf(x)' = ValueOf(x)
  <2>1. Stacks' = Stacks
    <3>1. PutAway' = PutAway
      BY <1>1 DEF PutAway, Suspending, OpenNow
    <3>2. {arena'[s].stack : s \in Threads \ Dead'} = {arena[s].stack : s \in Threads \ Dead}
      BY <1>3, <1>4
    <3> QED BY <1>1, <3>1, <3>2 DEF Stacks
  <2>2. SlotValues(x)' = SlotValues(x)
    BY <2>1 DEF SlotValues
  <2>3. Shared(x)' = Shared(x)
    BY <1>1 DEF Shared
  <2>4. \A u : Get(u)' = Get(u)
    BY <1>1 DEF Get
  <2> QED BY <2>2, <2>3, <2>4 DEF ValueOf
<1>8. Scopes' = Scopes /\ Values' = Values
  BY <1>6, <1>7 DEF Scopes, Values
<1> QED BY <1>4, <1>5, <1>8 DEF Promise!Create, Created, Captured, Scopes, Values

\* What a step of the running thread leaves as it was.
LEMMA LocalIs ==
  ASSUME IInv, IInv', UNCHANGED <<arena, saved, current>>
  PROVE  /\ Chain' = Chain /\ Created' = Created /\ Dead' = Dead
         /\ Scopes' = [Scopes EXCEPT ![current] = ToSet(names')]
<1>1. Chain' = Chain /\ Created' = Created /\ Dead' = Dead
  BY DEF Chain, Created, Dead
<1>2. current \in Threads \union {"main"}
  BY DEF IInv, Typed
<1>3. ScopeOf(current)' = ToSet(names')
  BY LawsNext DEF ScopeLaw, ToSet
<1>4. \A t \in (Threads \union {"main"}) \ {current} : ScopeOf(t)' = ScopeOf(t)
  BY <1>1 DEF ScopeOf
<1>5. Scopes' = [t \in Threads \union {"main"} |-> ScopeOf(t)']
  BY DEF Scopes
<1>6. \A t \in Threads \union {"main"} :
        ScopeOf(t)' = IF t = current THEN ToSet(names') ELSE ScopeOf(t)
  BY <1>2, <1>3, <1>4
<1> QED BY <1>1, <1>2, <1>5, <1>6 DEF Scopes

\* An assignment: one variable has the new value, all others what they had.
LEMMA Assigned ==
  ASSUME NEW x \in Vars, NEW v, ValueOf(x)' = v,
         \A y \in Vars \ {x} : ValueOf(y)' = ValueOf(y)
  PROVE  Values' = [Values EXCEPT ![x] = v]
<1>1. Values' = [y \in Vars |-> ValueOf(y)']
  BY DEF Values
<1>2. \A y \in Vars : ValueOf(y)' = IF y = x THEN v ELSE ValueOf(y)
  OBVIOUS
<1> QED BY <1>1, <1>2 DEF Values

\* A local variable is assigned to, by its name or by an upvalue of it.
LEMMA SetLocalIs ==
  ASSUME IInv, IInv', NEW i, NEW v \in Vals, SetLocal(i, v)
  PROVE  names[i] \in Vars /\ Promise!Assign(names[i], v)
<1>1. /\ i \in DOMAIN slots /\ slots' = [slots EXCEPT ![i] = v]
      /\ UNCHANGED <<names, open, at, own, of, arena, saved, current>>
  BY DEF SetLocal
<1>0. /\ i \in DOMAIN names /\ DOMAIN names = DOMAIN slots /\ names[i] \in Vars
      /\ names[i] \in ToSet(names)
  BY <1>1, RunIs, ElementOfSeq DEF ToSet
<1>2. PICK x \in Vars : x = names[i]
  BY <1>0
<1>3. \A j \in DOMAIN names : slots'[j] = IF j = i THEN v ELSE slots[j]
  BY <1>0, <1>1
<1>4. ValueLaw /\ ValueLaw' /\ ScopeLaw
  BY LawsNext, Valued, Scoped
<1>5. Captured' = Captured
  BY <1>1 DEF Captured
<1>6. ASSUME NEW u \in Upvalues PROVE Get(u)' = IF of[u] = x THEN v ELSE Get(u)
  <2>1. CASE of[u] = x
    <3>1. at[u] = i /\ i # 0
      BY <1>0, <1>2, <2>1, RunIs
    <3>2. at'[u] = i
      BY <1>1, <3>1
    <3> QED BY <1>0, <1>3, <2>1, <3>1, <3>2 DEF Get
  <2>2. CASE of[u] # x /\ at[u] # 0
    <3>1. at[u] \in DOMAIN names /\ at[u] # i
      BY <1>2, <2>2, RunIs
    <3> QED BY <1>1, <1>3, <2>2, <3>1 DEF Get
  <2>3. CASE of[u] # x /\ at[u] = 0
    BY <1>1, <2>3 DEF Get
  <2> QED BY <2>1, <2>2, <2>3
<1>7. ValueOf(x)' = v
  <2>1. CASE x \in Captured
    <3>1. PICK u \in Upvalues : of[u] = x
      BY <1>2, <2>1, CapturedIs
    <3>2. of'[u] = x
      BY <1>1, <3>1
    <3> QED BY <1>2, <1>4, <1>6, <3>1, <3>2 DEF ValueLaw
  <2>2. CASE x \notin Captured
    <3>1. Here(x, v)'
      BY <1>0, <1>1, <1>2, <1>3 DEF Here
    <3>2. InSlot(x, v)'
      BY <3>1, SplitNext DEF SlotsSplit
    <3> QED BY <1>2, <1>4, <1>5, <2>2, <3>2 DEF ValueLaw
  <2> QED BY <2>1, <2>2
<1>8. ASSUME NEW y \in Vars \ {x} PROVE ValueOf(y)' = ValueOf(y)
  <2>1. ASSUME NEW w PROVE InSlot(y, w)' <=> InSlot(y, w)
    <3>1. \A j \in DOMAIN names : names[j] = y => slots'[j] = slots[j]
      BY <1>2, <1>3
    <3>2. Here(y, w)' <=> Here(y, w)
      BY <1>1, <3>1 DEF Here
    <3> QED BY <1>1, <3>2, Split, SplitNext, ElsewhereStays DEF SlotsSplit
  <2>2. y \in Captured => \E u \in Upvalues : of[u] = y /\ of'[u] = y /\ Get(u)' = Get(u)
    BY <1>1, <1>6, CapturedIs
  <2> QED BY <1>4, <1>5, <2>1, <2>2, SameValue
<1>9. Values' = [Values EXCEPT ![x] = v]
  BY <1>2, <1>7, <1>8, Assigned
<1>10. Scopes[current] = ToSet(names) /\ Scopes' = Scopes
  <2>1. current \in Threads \union {"main"}
    BY DEF IInv, Typed
  <2>2. Scopes[current] = ToSet(names)
    BY <1>4, <2>1 DEF Scopes, ScopeLaw
  <2>3. Scopes' = [Scopes EXCEPT ![current] = ToSet(names)]
    BY <1>1, LocalIs
  <2> QED BY <2>1, <2>2, <2>3 DEF Scopes
<1>11. Chain' = Chain /\ Created' = Created /\ Dead' = Dead
  BY <1>1, LocalIs
<1>12. x \in Scopes[Promise!Running] \union Captured
  BY <1>0, <1>2, <1>10, RunningIs
<1> QED BY <1>2, <1>5, <1>9, <1>10, <1>11, <1>12 DEF Promise!Assign, Created, Captured, Scopes, Values

\* An assignment in the running stack or to a closed upvalue is to a captured variable.
LEMMA SetUpvalIs ==
  ASSUME IInv, IInv', NEW u \in Upvalues, NEW v \in Vals, SetUpval(u, v)
  PROVE  \E x \in Vars : Promise!Assign(x, v)
<1>1. CASE at[u] # 0
  <2>1. /\ slots' = [slots EXCEPT ![at[u]] = v]
        /\ UNCHANGED <<names, open, at, own, of, arena, saved, current>>
    BY <1>1 DEF SetUpval, SetUpvalue
  <2>2. at[u] \in DOMAIN slots
    BY <1>1, RunIs
  <2>3. SetLocal(at[u], v)
    BY <2>1, <2>2 DEF SetLocal
  <2> QED BY <2>3, SetLocalIs
<1>2. CASE at[u] = 0
  <2>1. /\ own[u] # None /\ own' = [own EXCEPT ![u] = v]
        /\ UNCHANGED <<slots, names, open, at, of, arena, saved, current>>
    BY <1>2 DEF SetUpval, SetUpvalue
  <2>2. own \in [Upvalues -> Vals \union {None}] /\ of \in [Upvalues -> Vars \union {None}]
    BY DEF IInv, Typed
  <2>3. of[u] # None
    BY <1>2, <2>1 DEF IInv, Kept
  <2>4. PICK x \in Vars : x = of[u]
    BY <2>2, <2>3
  <2>5. ValueLaw /\ ValueLaw' /\ ScopeLaw
    BY LawsNext, Valued, Scoped
  <2>6. Captured' = Captured /\ x \in Captured
    BY <2>1, <2>3, <2>4 DEF Captured
  <2>7. ASSUME NEW w \in Upvalues PROVE Get(w)' = IF w = u THEN v ELSE Get(w)
    BY <1>2, <2>1, <2>2 DEF Get
  <2>8. ValueOf(x)' = v
    <3>1. of'[u] = x
      BY <2>1, <2>4
    <3>2. ValueOf(x)' = Get(u)'
      BY <2>5, <3>1 DEF ValueLaw
    <3> QED BY <2>7, <3>2
  <2>9. ASSUME NEW y \in Vars \ {x} PROVE ValueOf(y)' = ValueOf(y)
    <3>1. ASSUME NEW w PROVE InSlot(y, w)' <=> InSlot(y, w)
      <4>1. Here(y, w)' <=> Here(y, w)
        BY <2>1 DEF Here
      <4> QED BY <2>1, <4>1, Split, SplitNext, ElsewhereStays DEF SlotsSplit
    <3>2. y \in Captured => \E w \in Upvalues : of[w] = y /\ of'[w] = y /\ Get(w)' = Get(w)
      BY <2>1, <2>4, <2>7, CapturedIs
    <3> QED BY <2>5, <2>6, <3>1, <3>2, SameValue
  <2>10. Values' = [Values EXCEPT ![x] = v]
    BY <2>8, <2>9, Assigned
  <2>11. Scopes' = Scopes
    <3>1. current \in Threads \union {"main"} /\ ScopeOf(current) = ToSet(names)
      BY <2>5 DEF IInv, Typed, ScopeLaw
    <3>2. Scopes' = [Scopes EXCEPT ![current] = ToSet(names)]
      BY <2>1, LocalIs
    <3> QED BY <3>1, <3>2 DEF Scopes
  <2>12. Chain' = Chain /\ Created' = Created /\ Dead' = Dead
    BY <2>1, LocalIs
  <2>13. Promise!Assign(x, v)
    BY <2>6, <2>10, <2>11, <2>12 DEF Promise!Assign, Created, Captured, Scopes, Values
  <2> QED BY <2>13
<1> QED BY <1>1, <1>2

\* A variable that is nowhere has no value.
LEMMA Unused ==
  ASSUME IInv, NEW x \in Vars, x \notin Used
  PROVE  /\ x \notin Captured /\ ValueOf(x) = None
         /\ \A v : ~ Here(x, v) /\ ~ Elsewhere(x, v)
<1>1. \A i \in DOMAIN names : names[i] # x
  BY DEF Used, ToSet
<1>2. x \notin Captured
  BY CapturedIs DEF Used
<1>3. \A k \in DOMAIN saved : \A j \in DOMAIN saved[k].stack.names : saved[k].stack.names[j] # x
  <2>1. \A k \in DOMAIN saved : x \notin ToSet(saved[k].stack.names)
    BY DEF Used
  <2> QED BY <2>1 DEF ToSet
<1>4. \A t \in Threads : \A j \in DOMAIN arena[t].stack.names : arena[t].stack.names[j] # x
  <2>1. \A t \in Threads : x \notin ToSet(arena[t].stack.names)
    BY DEF Used
  <2> QED BY <2>1 DEF ToSet
<1>5. ASSUME NEW p \in Live \ {Run}, NEW j \in DOMAIN Family[p].names
      PROVE  Family[p].names[j] # x
  <2>1. p \in Places /\ p # Run
    BY DEF Live
  <2> QED BY <1>3, <1>4, <2>1, PlaceIs
<1>6. \A v : ~ Here(x, v) /\ ~ Elsewhere(x, v)
  BY <1>1, <1>5 DEF Here, Elsewhere
<1>7. \A v : ~ InSlot(x, v)
  BY <1>6, Split DEF SlotsSplit
<1>8. ValueOf(x) = None
  BY <1>2, <1>7, Valued DEF ValueLaw
<1> QED BY <1>2, <1>6, <1>8

\* A variable is declared.
LEMMA DeclareIs ==
  ASSUME IInv, IInv', NEW x \in Vars, NEW v \in Vals, Declare(x, v)
  PROVE  Promise!Declare(x, v)
<1>1. /\ x \notin Used
      /\ slots' = Append(slots, v) /\ names' = Append(names, x)
      /\ UNCHANGED <<open, at, own, of, arena, saved, current>>
  BY DEF Declare
<1>2. /\ DOMAIN names = 1 .. Len(slots) /\ Len(slots) \in Nat
      /\ DOMAIN names' = 1 .. Len(slots) + 1
      /\ names'[Len(slots) + 1] = x /\ \A i \in 1 .. Len(slots) : names'[i] = names[i]
      /\ slots'[Len(slots) + 1] = v /\ \A i \in 1 .. Len(slots) : slots'[i] = slots[i]
  BY <1>1, RunIs, AppendProperties
<1>3. ValueLaw /\ ValueLaw' /\ ScopeLaw
  BY LawsNext, Valued, Scoped
<1>4. Captured' = Captured /\ x \notin Captured
  BY <1>1, Unused DEF Captured
<1>5. Len(slots) + 1 \in DOMAIN names' /\ \A i \in DOMAIN names' : i \in DOMAIN names \/ i = Len(slots) + 1
  BY <1>2
<1>6. \A i \in DOMAIN names : i \in DOMAIN names'
  BY <1>2
<1>7. ValueOf(x)' = v
  <2>1. Here(x, v)'
    BY <1>2, <1>5 DEF Here
  <2>2. InSlot(x, v)'
    BY <2>1, SplitNext DEF SlotsSplit
  <2> QED BY <1>3, <1>4, <2>2 DEF ValueLaw
<1>8. ASSUME NEW y \in Vars \ {x} PROVE ValueOf(y)' = ValueOf(y)
  <2>1. ASSUME NEW w PROVE InSlot(y, w)' <=> InSlot(y, w)
    <3>1. ASSUME Here(y, w)' PROVE Here(y, w)
      <4>1. PICK i \in DOMAIN names' : names'[i] = y /\ slots'[i] = w
        BY <3>1 DEF Here
      <4>2. i \in DOMAIN names
        BY <1>2, <1>5, <4>1
      <4> QED BY <1>2, <4>1, <4>2 DEF Here
    <3>2. ASSUME Here(y, w) PROVE Here(y, w)'
      <4>1. PICK i \in DOMAIN names : names[i] = y /\ slots[i] = w
        BY <3>2 DEF Here
      <4>2. i \in DOMAIN names' /\ names'[i] = y /\ slots'[i] = w
        BY <1>2, <1>6, <4>1
      <4> QED BY <4>2 DEF Here
    <3> QED BY <1>1, <3>1, <3>2, Split, SplitNext, ElsewhereStays DEF SlotsSplit
  <2>2. \A u \in Upvalues : of'[u] = of[u] /\ Get(u)' = Get(u)
    <3>1. \A u \in Upvalues : at[u] # 0 => slots'[at[u]] = slots[at[u]]
      BY <1>2, RunIs
    <3> QED BY <1>1, <3>1 DEF Get
  <2> QED BY <1>3, <1>4, <2>1, <2>2, CapturedIs, SameValue
<1>9. Values' = [Values EXCEPT ![x] = v]
  BY <1>7, <1>8, Assigned
<1>10. Values[x] = None
  BY <1>1, Unused DEF Values
<1>11. Scopes' = [Scopes EXCEPT ![current] = @ \union {x}]
  <2>1. current \in Threads \union {"main"} /\ ScopeOf(current) = ToSet(names)
    BY <1>3 DEF IInv, Typed, ScopeLaw
  <2>2. Scopes' = [Scopes EXCEPT ![current] = ToSet(names')]
    BY <1>1, LocalIs
  <2>3. ToSet(names') = ToSet(names) \union {x}
    <3>1. ASSUME NEW i \in DOMAIN names' PROVE names'[i] \in ToSet(names) \union {x}
      <4>1. CASE i \in DOMAIN names
        BY <1>2, <4>1 DEF ToSet
      <4>2. CASE i = Len(slots) + 1
        BY <1>2, <4>2
      <4> QED BY <1>5, <4>1, <4>2
    <3>2. x \in ToSet(names')
      BY <1>2, <1>5 DEF ToSet
    <3>3. ASSUME NEW i \in DOMAIN names PROVE names[i] \in ToSet(names')
      <4>1. names'[i] = names[i]
        BY <1>2
      <4> QED BY <1>6, <4>1 DEF ToSet
    <3> QED BY <3>1, <3>2, <3>3 DEF ToSet
  <2> QED BY <2>1, <2>2, <2>3 DEF Scopes
<1>12. Chain' = Chain /\ Created' = Created /\ Dead' = Dead
  BY <1>1, LocalIs
<1>13. Promise!Running = current
  BY RunningIs
<1> QED BY <1>4, <1>9, <1>10, <1>11, <1>12, <1>13
        DEF Promise!Declare, Created, Captured, Scopes, Values

\* The slots from a level up are left: their variables go out of scope, and those that
\* no function has captured have no value any more.
LEMMA CutIs ==
  ASSUME IInv, IInv', NEW level, level \in DOMAIN slots,
         slots' = SubSeq(slots, 1, level - 1), names' = SubSeq(names, 1, level - 1),
         UNCHANGED <<of, arena, saved, current>>,
         \A u \in Upvalues : of[u] # None => Get(u)' = Get(u)
  PROVE  \E X \in SUBSET Vars : Promise!Leave(X)
<1>1. /\ level \in 1 .. Len(slots) /\ level \in 1 .. Len(names) /\ Len(slots) \in Nat
      /\ slots \in Seq(Vals) /\ names \in Seq(Vars) /\ DOMAIN names = 1 .. Len(slots)
  BY RunIs
<1>2. /\ DOMAIN names' = 1 .. level - 1 /\ \A k \in 1 .. level - 1 : names'[k] = names[k]
      /\ \A k \in 1 .. level - 1 : slots'[k] = slots[k]
  BY <1>1, Before
<1>3. \A k \in DOMAIN names : k >= level \/ k \in DOMAIN names'
  BY <1>1, <1>2
<1>4. \A k \in DOMAIN names' : k \in DOMAIN names /\ ~ (k >= level)
  BY <1>1, <1>2
<1>5. PICK X \in SUBSET Vars : X = {names[k] : k \in {k \in DOMAIN names : k >= level}}
  <2>1. \A k \in DOMAIN names : names[k] \in Vars
    BY <1>1, ElementOfSeq
  <2> QED BY <2>1
<1>6. ValueLaw /\ ValueLaw' /\ ScopeLaw
  BY LawsNext, Valued, Scoped
<1>7. Captured' = Captured
  BY DEF Captured
<1>8. ASSUME NEW x \in X \ Captured PROVE ValueOf(x)' = None
  <2>1. PICK k \in DOMAIN names : k >= level /\ x = names[k]
    BY <1>5
  <2>2. ASSUME NEW v PROVE ~ Here(x, v)'
    <3>1. \A j \in DOMAIN names' : names'[j] # x
      <4> SUFFICES ASSUME NEW j \in DOMAIN names', names'[j] = x PROVE FALSE
        OBVIOUS
      <4>1. j \in DOMAIN names /\ names[j] = names[k] /\ ~ (j >= level)
        BY <1>2, <1>4, <2>1
      <4>2. j = k
        BY <4>1, RunIs
      <4> QED BY <2>1, <4>1, <4>2
    <3> QED BY <3>1 DEF Here
  <2>3. ASSUME NEW v PROVE ~ Elsewhere(x, v)'
    <3>1. ~ Elsewhere(x, v)
      <4>1. \A p \in Live \ {Run} : \A j \in DOMAIN Family[p].names : Family[p].names[j] # x
        BY <2>1, OthersApart DEF Live
      <4> QED BY <4>1 DEF Elsewhere
    <3> QED BY <3>1, ElsewhereStays
  <2>4. \A v : ~ InSlot(x, v)'
    BY <2>2, <2>3, SplitNext DEF SlotsSplit
  <2> QED BY <1>5, <1>6, <1>7, <2>4 DEF ValueLaw
<1>9. ASSUME NEW x \in Vars, x \notin X \ Captured PROVE ValueOf(x)' = ValueOf(x)
  <2>1. ASSUME NEW v, x \notin Captured PROVE InSlot(x, v)' <=> InSlot(x, v)
    <3>0. \A k \in DOMAIN names : names[k] = x => k \in DOMAIN names'
      BY <1>3, <1>5, <1>9, <2>1
    <3>1. ASSUME Here(x, v)' PROVE Here(x, v)
      <4>1. PICK k \in DOMAIN names' : names'[k] = x /\ slots'[k] = v
        BY <3>1 DEF Here
      <4>2. k \in DOMAIN names /\ names[k] = x /\ slots[k] = v
        BY <1>2, <1>4, <4>1
      <4> QED BY <4>2 DEF Here
    <3>2. ASSUME Here(x, v) PROVE Here(x, v)'
      <4>1. PICK k \in DOMAIN names : names[k] = x /\ slots[k] = v
        BY <3>2 DEF Here
      <4>2. k \in DOMAIN names' /\ names'[k] = x /\ slots'[k] = v
        BY <1>2, <3>0, <4>1
      <4> QED BY <4>2 DEF Here
    <3> QED BY <3>1, <3>2, Split, SplitNext, ElsewhereStays DEF SlotsSplit
  <2>2. x \in Captured => \E u \in Upvalues : of[u] = x /\ of'[u] = x /\ Get(u)' = Get(u)
    <3>1. x # None
      BY <1>9, CoroutineAssumption
    <3> QED BY <1>9, <3>1, CapturedIs
  <2> QED BY <1>6, <1>7, <1>9, <2>1, <2>2, SameValue
<1>10. Values' = [x \in Vars |-> IF x \in X \ Captured THEN None ELSE Values[x]]
  <2>1. \A x \in Vars : ValueOf(x)' = IF x \in X \ Captured THEN None ELSE ValueOf(x)
    BY <1>8, <1>9
  <2> QED BY <2>1 DEF Values
<1>11. /\ X \subseteq Scopes[current]
       /\ Scopes' = [Scopes EXCEPT ![current] = @ \ X]
  <2>1. current \in Threads \union {"main"} /\ ScopeOf(current) = ToSet(names)
    BY <1>6 DEF IInv, Typed, ScopeLaw
  <2>2. Scopes' = [Scopes EXCEPT ![current] = ToSet(names')]
    BY LocalIs
  <2>3. ToSet(names') = ToSet(names) \ X
    <3>1. ASSUME NEW k \in DOMAIN names' PROVE names'[k] \in ToSet(names) \ X
      <4>1. names'[k] = names[k] /\ k \in DOMAIN names /\ ~ (k >= level)
        BY <1>2, <1>4
      <4>2. names[k] \notin X
        BY <1>5, <4>1, RunIs
      <4> QED BY <4>1, <4>2 DEF ToSet
    <3>2. ASSUME NEW k \in DOMAIN names, names[k] \notin X PROVE names[k] \in ToSet(names')
      <4>1. k \in DOMAIN names'
        BY <1>3, <1>5, <3>2
      <4>2. names'[k] = names[k]
        BY <1>2, <4>1
      <4> QED BY <4>1, <4>2 DEF ToSet
    <3>3. ASSUME NEW y \in ToSet(names') PROVE y \in ToSet(names) \ X
      <4>1. PICK k \in DOMAIN names' : y = names'[k]
        BY <3>3 DEF ToSet
      <4> QED BY <3>1, <4>1
    <3>4. ASSUME NEW y \in ToSet(names) \ X PROVE y \in ToSet(names')
      <4>1. PICK k \in DOMAIN names : y = names[k]
        BY <3>4 DEF ToSet
      <4> QED BY <3>2, <3>4, <4>1
    <3> QED BY <3>3, <3>4
  <2>4. X \subseteq ToSet(names)
    BY <1>5 DEF ToSet
  <2> QED BY <2>1, <2>2, <2>3, <2>4 DEF Scopes
<1>12. Chain' = Chain /\ Created' = Created /\ Dead' = Dead
  BY LocalIs
<1>13. Promise!Running = current
  BY RunningIs
<1>14. Promise!Leave(X)
  BY <1>7, <1>10, <1>11, <1>12, <1>13
     DEF Promise!Leave, Promise!Drop, Created, Captured, Scopes, Values
<1> QED BY <1>14

\* A block or function ends, and its upvalues are closed.
LEMMA LeaveIs ==
  ASSUME IInv, IInv', NEW level \in 1 .. MaxSlots, Leave(level)
  PROVE  \E X \in SUBSET Vars : Promise!Leave(X)
<1> DEFINE U == CloseFrom(level)
<1>1. /\ level \in DOMAIN slots /\ own' = Closed(U)
      /\ at' = [u \in Upvalues |-> IF u \in U THEN 0 ELSE at[u]]
      /\ slots' = SubSeq(slots, 1, level - 1) /\ names' = SubSeq(names, 1, level - 1)
      /\ UNCHANGED <<of, arena, saved, current>>
  BY DEF Leave
<1>2. level \in Nat \ {0}
  BY CoroutineAssumption
<1>3. U = {u \in Upvalues : at[u] >= level}
  BY <1>2, ClosedAre
<1>4. at \in [Upvalues -> Nat]
  BY DEF IInv, Typed
<1>5. /\ level \in 1 .. Len(slots) /\ Len(slots) \in Nat /\ slots \in Seq(Vals)
      /\ DOMAIN names = 1 .. Len(slots)
  BY <1>1, RunIs
<1>6. \A k \in 1 .. level - 1 : slots'[k] = slots[k]
  BY <1>1, <1>5, Before
<1> HIDE DEF U
<1>7. ASSUME NEW u \in Upvalues PROVE Get(u)' = Get(u)
  <2>1. CASE u \in U
    <3>1. at[u] # 0 /\ at'[u] = 0 /\ own'[u] = slots[at[u]]
      BY <1>1, <1>2, <1>3, <1>4, <2>1 DEF Closed
    <3> QED BY <3>1 DEF Get
  <2>2. CASE u \notin U /\ at[u] # 0
    <3>1. at'[u] = at[u] /\ at[u] \in 1 .. level - 1
      BY <1>1, <1>2, <1>3, <1>4, <2>2
    <3> QED BY <1>6, <2>2, <3>1 DEF Get
  <2>3. CASE u \notin U /\ at[u] = 0
    <3>1. at'[u] = 0 /\ own'[u] = own[u]
      BY <1>1, <2>3 DEF Closed
    <3> QED BY <2>3, <3>1 DEF Get
  <2> QED BY <2>1, <2>2, <2>3
<1> QED BY <1>1, <1>7, CutIs

\* Frames are dropped when nothing captured is left open above them.
LEMMA AbandonIs ==
  ASSUME IInv, IInv', ~ Escapes, NEW level \in 1 .. MaxSlots, Abandon(level)
  PROVE  \E X \in SUBSET Vars : Promise!Leave(X)
<1>1. /\ level \in DOMAIN slots /\ CloseFrom(level) = {}
      /\ slots' = SubSeq(slots, 1, level - 1) /\ names' = SubSeq(names, 1, level - 1)
      /\ UNCHANGED <<open, at, own, of, arena, saved, current>>
  BY DEF Abandon
<1>2. level \in Nat \ {0}
  BY CoroutineAssumption
<1>3. \A u \in Upvalues : ~ (at[u] >= level) /\ at[u] \in Nat
  BY <1>1, <1>2, ClosedAre DEF IInv, Typed
<1>5. /\ level \in 1 .. Len(slots) /\ Len(slots) \in Nat /\ slots \in Seq(Vals)
  BY <1>1, RunIs
<1>6. \A k \in 1 .. level - 1 : slots'[k] = slots[k]
  BY <1>1, <1>5, Before
<1>7. ASSUME NEW u \in Upvalues PROVE Get(u)' = Get(u)
  <2>1. at[u] # 0 => at[u] \in 1 .. level - 1
    BY <1>2, <1>3
  <2> QED BY <1>1, <1>6, <2>1 DEF Get
<1> QED BY <1>1, <1>7, CutIs

\* A function captures a variable, for the first time or again.
LEMMA FindUpvalueIs ==
  ASSUME IInv, IInv', NEW i \in 1 .. MaxSlots, FindUpvalue(i)
  PROVE  UNCHANGED vars \/ \E x \in Vars : Promise!Capture(x)
<1>1. CASE Found(i) = {}
  <2>1. PICK u \in Upvalues :
          /\ at[u] = 0 /\ own[u] = None
          /\ at' = [at EXCEPT ![u] = i] /\ of' = [of EXCEPT ![u] = names[i]]
          /\ UNCHANGED <<slots, names, own, arena, saved, current>>
    BY <1>1 DEF FindUpvalue
  <2>2. /\ i \in DOMAIN names /\ names[i] \in Vars /\ i # 0
    BY RunIs, ElementOfSeq DEF FindUpvalue
  <2>3. PICK x \in Vars : x = names[i]
    BY <2>2
  <2>4. at \in [Upvalues -> Nat] /\ of \in [Upvalues -> Vars \union {None}]
    BY DEF IInv, Typed
  <2>5. /\ of'[u] = x /\ at'[u] = i /\ of[u] = None
        /\ \A w \in Upvalues \ {u} : of'[w] = of[w] /\ at'[w] = at[w]
    BY <2>1, <2>3, <2>4 DEF IInv, Kept
  <2>6. x # None
    BY CoroutineAssumption
  <2>7. x \notin Captured
    <3>1. \A w \in Upvalues : of'[w] = x => w = u
      BY <2>5, <2>6 DEF IInv, Kept
    <3> QED BY <2>5, <2>6, <3>1, CapturedIs
  <2>8. Captured' = Captured \union {x}
    <3>1. Captured' = {of'[w] : w \in Upvalues} \ {None}
      BY DEF Captured
    <3> QED BY <2>5, <2>6, <3>1 DEF Captured
  <2>9. ValueLaw /\ ValueLaw' /\ ScopeLaw
    BY LawsNext, Valued, Scoped
  <2>10. \A w \in Upvalues \ {u} : Get(w)' = Get(w)
    BY <2>1, <2>5 DEF Get
  <2>11. \A y, v : InSlot(y, v)' <=> InSlot(y, v)
    <3>1. \A y, v : Here(y, v)' <=> Here(y, v)
      BY <2>1 DEF Here
    <3> QED BY <2>1, <3>1, Split, SplitNext, ElsewhereStays DEF SlotsSplit
  <2>12. ValueOf(x)' = ValueOf(x)
    <3>1. ValueOf(x)' = Get(u)'
      BY <2>5, <2>9 DEF ValueLaw
    <3>2. Get(u)' = slots[i]
      BY <2>1, <2>2, <2>5 DEF Get
    <3>3. Here(x, slots[i])
      BY <2>2, <2>3 DEF Here
    <3>4. ValueOf(x) = slots[i]
      BY <2>7, <2>9, <3>3, Split DEF ValueLaw, SlotsSplit
    <3> QED BY <3>1, <3>2, <3>4
  <2>13. ASSUME NEW y \in Vars \ {x} PROVE ValueOf(y)' = ValueOf(y)
    <3>1. CASE y \in Captured
      <4>1. PICK w \in Upvalues : of[w] = y
        BY <3>1, CapturedIs
      <4>2. w # u /\ of'[w] = y
        BY <2>5, <4>1, CoroutineAssumption
      <4>3. ValueOf(y) = Get(w) /\ ValueOf(y)' = Get(w)'
        BY <2>9, <4>1, <4>2 DEF ValueLaw
      <4> QED BY <2>10, <4>2, <4>3
    <3>2. CASE y \notin Captured
      <4>1. y \notin Captured'
        BY <2>8, <3>2
      <4>2. /\ \A v : InSlot(y, v) => ValueOf(y) = v
            /\ (\A v : ~ InSlot(y, v)) => ValueOf(y) = None
        BY <2>9, <3>2 DEF ValueLaw
      <4>3. /\ \A v : InSlot(y, v)' => ValueOf(y)' = v
            /\ (\A v : ~ InSlot(y, v)') => ValueOf(y)' = None
        BY <2>9, <4>1 DEF ValueLaw
      <4>4. CASE \E v : InSlot(y, v)
        BY <2>11, <4>2, <4>3, <4>4
      <4>5. CASE \A v : ~ InSlot(y, v)
        BY <2>11, <4>2, <4>3, <4>5
      <4> QED BY <4>4, <4>5
    <3> QED BY <3>1, <3>2
  <2>14. Values' = Values
    BY <2>12, <2>13 DEF Values
  <2>15. x \in Scopes[current] /\ Scopes' = Scopes
    <3>1. current \in Threads \union {"main"} /\ ScopeOf(current) = ToSet(names)
      BY <2>9 DEF IInv, Typed, ScopeLaw
    <3>2. Scopes' = [Scopes EXCEPT ![current] = ToSet(names)]
      BY <2>1, LocalIs
    <3>3. x \in ToSet(names)
      BY <2>2, <2>3 DEF ToSet
    <3> QED BY <3>1, <3>2, <3>3 DEF Scopes
  <2>16. Chain' = Chain /\ Created' = Created /\ Dead' = Dead
    BY <2>1, LocalIs
  <2>17. Promise!Running = current
    BY RunningIs
  <2>18. Promise!Capture(x)
    BY <2>8, <2>14, <2>15, <2>16, <2>17 DEF Promise!Capture, Created, Captured, Scopes, Values
  <2> QED BY <2>18
<1>2. CASE Found(i) # {}
  BY <1>2 DEF FindUpvalue
<1> QED BY <1>1, <1>2

\* A slot of a coroutine that does not run is written: the variable in it is assigned to,
\* unless a function has captured it or the coroutine is dead.
LEMMA DebugSetLocalIs ==
  ASSUME IInv, IInv', NEW t \in Threads, NEW i \in 1 .. MaxSlots, NEW v \in Vals,
         DebugSetLocal(t, i, v)
  PROVE  (\E x \in Vars : Promise!DebugAssign(x, v)) \/ UNCHANGED Promise!vars
<1> DEFINE s == arena[t].stack
           r == arena'[t].stack
<1>1. /\ i \in DOMAIN s.slots /\ arena' = [arena EXCEPT ![t].stack.slots[i] = v]
      /\ UNCHANGED <<slots, names, open, at, own, of, saved, current>>
  BY DEF DebugSetLocal, stackVars
<1>2. arena \in [Threads -> [status : Statuses, stack : Stack]] /\ Sound(s, of)
  BY FamilyIs DEF IInv, Typed
<1>3. /\ r.names = s.names /\ r.slots = [s.slots EXCEPT ![i] = v]
      /\ \A q \in Threads \ {t} : arena'[q] = arena[q]
      /\ \A q \in Threads : arena'[q].status = arena[q].status
  <2>1. s \in Stack /\ arena[t] \in [status : Statuses, stack : Stack]
    BY <1>2
  <2>2. arena'[t] = [arena[t] EXCEPT !.stack.slots[i] = v]
    BY <1>1, <1>2
  <2>3. r = [s EXCEPT !.slots[i] = v] /\ arena'[t].status = arena[t].status
    BY <2>1, <2>2
  <2>4. \A q \in Threads \ {t} : arena'[q] = arena[q]
    BY <1>1, <1>2
  <2> HIDE DEF s, r
  <2>5. r.names = s.names /\ r.slots = [s.slots EXCEPT ![i] = v]
    BY <2>1, <2>3 DEF Stack
  <2> QED BY <2>3, <2>4, <2>5
<1>4. /\ s.slots \in Seq(Vals) /\ s.names \in Seq(Vars) /\ Len(s.names) = Len(s.slots)
      /\ DOMAIN s.names = DOMAIN s.slots
  BY <1>2, LenProperties DEF Sound, Stack
<1>5. PICK x \in Vars : x = s.names[i]
  BY <1>1, <1>4, ElementOfSeq
<1>6. /\ Dead' = Dead /\ Created' = Created /\ Places' = Places /\ Live' = Live
      /\ Chain' = Chain /\ Captured' = Captured
  BY <1>1, <1>3 DEF Dead, Created, Places, Live, Chain, Captured
<1>7. \A p \in Places \ {<<"arena", t>>} : Family'[p] = Family[p]
  <2> SUFFICES ASSUME NEW p \in Places, p # <<"arena", t>> PROVE Family'[p] = Family[p]
    OBVIOUS
  <2>1. \/ p = Run /\ Family[p] = PutAway
        \/ \E k \in DOMAIN saved : p = <<"saved", k>> /\ Family[p] = saved[k].stack
        \/ \E q \in Threads : p = <<"arena", q>> /\ Family[p] = arena[q].stack
    BY PlaceIs
  <2>2. \/ p = Run /\ Family'[p] = PutAway'
        \/ \E k \in DOMAIN saved : p = <<"saved", k>> /\ Family'[p] = saved[k].stack
        \/ \E q \in Threads : p = <<"arena", q>> /\ Family'[p] = arena'[q].stack
    BY <1>1, <1>6, PlaceIsNext
  <2>3. PutAway' = PutAway
    BY <1>1 DEF PutAway, Suspending, OpenNow
  <2>4. \A q \in Threads : p = <<"arena", q>> => arena'[q] = arena[q]
    BY <1>3
  <2> QED BY <2>1, <2>2, <2>3, <2>4, PlacesDiffer
<1>8. <<"arena", t>> \in Places /\ Family[<<"arena", t>>] = s /\ Family'[<<"arena", t>>] = r
  <2>1. <<"arena", t>> \in Places'
    BY <1>6, FamilyIs
  <2>2. \E q \in Threads : <<"arena", t>> = <<"arena", q>>
                             /\ Family'[<<"arena", t>>] = arena'[q].stack
    BY <2>1, PlaceIsNext, PlacesDiffer, Zenon
  <2> QED BY <2>2, FamilyIs, PlacesDiffer
<1> HIDE DEF r
<1>9. \A u \in Upvalues : Get(u)' = Get(u) /\ of'[u] = of[u]
  BY <1>1 DEF Get
<1>10. ASSUME NEW y \in Vars, y # x \/ t \in Dead, NEW w PROVE InSlot(y, w)' <=> InSlot(y, w)
  <2>1. ASSUME NEW p \in Live
        PROVE  /\ Family'[p].names = Family[p].names
               /\ \A j \in DOMAIN Family[p].names :
                    Family[p].names[j] = y => Family'[p].slots[j] = Family[p].slots[j]
    <3>1. CASE p = <<"arena", t>>
      <4>1. t \notin Dead
        BY <3>1 DEF Live
      <4>2. \A j \in DOMAIN s.names : s.names[j] = y => r.slots[j] = s.slots[j]
        <5>1. \A j \in DOMAIN s.slots : j # i => r.slots[j] = s.slots[j]
          <6> HIDE DEF s
          <6> QED BY <1>3
        <5>2. y # x
          BY <1>10, <4>1
        <5> HIDE DEF s
        <5> QED BY <1>4, <1>5, <5>1, <5>2
      <4>3. Family[p] = s /\ Family'[p] = r
        BY <1>8, <3>1
      <4>4. r.names = s.names
        BY <1>3
      <4> HIDE DEF s
      <4> QED BY <4>2, <4>3, <4>4
    <3>2. CASE p # <<"arena", t>>
      BY <1>7, <3>2 DEF Live
    <3> QED BY <3>1, <3>2
  <2> QED BY <1>6, <2>1 DEF InSlot
<1>11. ValueLaw /\ ValueLaw' /\ ScopeLaw
  BY LawsNext, Valued, Scoped
<1>12. ASSUME NEW y \in Vars, y # x \/ t \in Dead \/ x \in Captured
       PROVE  ValueOf(y)' = ValueOf(y)
  <2>1. y \in Captured => \E u \in Upvalues : of[u] = y /\ of'[u] = y /\ Get(u)' = Get(u)
    BY <1>9, CapturedIs
  <2>2. y \notin Captured => \A w : InSlot(y, w)' <=> InSlot(y, w)
    BY <1>10, <1>12
  <2> QED BY <1>6, <1>11, <2>1, <2>2, SameValue
<1>13. Scopes' = Scopes
  <2>1. \A q \in Threads : arena'[q].stack.names = arena[q].stack.names
    BY <1>3 DEF r
  <2>2. \A q \in Threads \union {"main"} : ScopeOf(q)' = ScopeOf(q)
    BY <1>1, <1>6, <2>1 DEF ScopeOf
  <2> QED BY <2>2 DEF Scopes
<1>14. CASE t \in Dead \/ x \in Captured
  <2>1. Values' = Values
    BY <1>12, <1>14 DEF Values
  <2> QED BY <1>6, <1>13, <2>1 DEF Promise!vars, Created, Captured, Scopes, Values
<1>15. CASE t \notin Dead /\ x \notin Captured
  <2>1. ValueOf(x)' = v
    <3>1. <<"arena", t>> \in Live
      BY <1>8, <1>15, PlacesDiffer DEF Live
    <3>2. r.slots[i] = v /\ i \in DOMAIN r.names /\ r.names[i] = x
      BY <1>1, <1>3, <1>4, <1>5
    <3>3. InSlot(x, v)'
      BY <1>6, <1>8, <3>1, <3>2 DEF InSlot
    <3> QED BY <1>6, <1>11, <1>15, <3>3 DEF ValueLaw
  <2>2. Values' = [Values EXCEPT ![x] = v]
    BY <1>12, <2>1, Assigned
  <2>3. t \in Promise!Suspended /\ x \in Scopes[t]
    <3>1. arena[t].status \notin {"Unborn", "Running"}
      <4>1. s # Blank
        BY <1>1 DEF Blank
      <4> QED BY <4>1 DEF IInv, Lined
    <3>2. arena[t].status \in Statuses /\ arena[t].status # "Dead"
      BY <1>2, <1>15 DEF Dead
    <3>3. Resumable(t)
      BY <3>1, <3>2 DEF Resumable, Statuses
    <3>4. ScopeOf(t) = ToSet(s.names)
      BY <1>11, <1>15, <3>1 DEF ScopeLaw
    <3>5. x \in ToSet(s.names)
      BY <1>1, <1>4, <1>5 DEF ToSet
    <3> QED BY <3>3, <3>4, <3>5, SuspendedIs DEF Scopes
  <2>4. Promise!DebugAssign(x, v)
    BY <1>6, <1>13, <1>15, <2>2, <2>3 DEF Promise!DebugAssign, Created, Captured, Scopes, Values
  <2> QED BY <2>4
<1> QED BY <1>14, <1>15

-----------------------------------------------------------------------------
(***************************************************************************)
(* The swap.                                                               *)
(***************************************************************************)
\* Upvalues have the values that they had, and so have the slots without one.
LEMMA SwapKeeps ==
  ASSUME IInv, NEW th, Sound(th, of), NEW sorts \in BOOLEAN, Swap(th, sorts)
  PROVE  /\ of' = of /\ Captured' = Captured /\ names' = th.names
         /\ \A u \in Upvalues : Get(u)' = Get(u)
         /\ \A i \in DOMAIN th.names : th.names[i] \notin Captured => slots'[i] = th.slots[i]
<1> DEFINE D == DOMAIN th.suspended
           held == Closed(OpenNow)
           there == {u \in D : held[u] # None}
           written == {th.suspended[u] : u \in there}
<1>1. /\ slots' = TakenSlots(th, held) /\ names' = th.names /\ of' = of
      /\ at' = [u \in Upvalues |-> IF u \in D THEN th.suspended[u]
                                   ELSE IF u \in OpenNow THEN 0 ELSE at[u]]
      /\ own' = [u \in Upvalues |-> IF u \in D THEN None ELSE held[u]]
  BY DEF Swap
<1>2. /\ D \subseteq Upvalues /\ th.names \in Seq(Vars) /\ th.slots \in Seq(Vals)
      /\ Len(th.names) = Len(th.slots) /\ DOMAIN th.names = DOMAIN th.slots
      /\ DOMAIN th.names \subseteq Nat \ {0}
  BY LenProperties DEF Sound, Stack
<1>3. \A u \in Upvalues : /\ held[u] = Get(u) /\ (held[u] = None <=> of[u] = None)
                          /\ u \in OpenNow <=> at[u] # 0
  <2>1. \A u \in Upvalues : u \in OpenNow <=> at[u] # 0
    BY HeldAre
  <2>2. \A u \in Upvalues : held[u] = Get(u)
    BY <2>1 DEF Closed, Get
  <2> QED BY <2>1, <2>2, HeldAre
<1>4. slots' = [i \in DOMAIN th.slots |->
                 IF i \in written THEN held[CHOOSE u \in there : th.suspended[u] = i]
                 ELSE th.slots[i]]
  BY <1>1 DEF TakenSlots
<1> HIDE DEF held
<1>5. ASSUME NEW u \in D
      PROVE  /\ th.suspended[u] \in DOMAIN th.names /\ th.names[th.suspended[u]] = of[u]
             /\ of[u] \in Vars /\ of[u] # None /\ u \in there
  <2>1. th.suspended[u] \in DOMAIN th.names /\ th.names[th.suspended[u]] = of[u]
    BY DEF Sound, Fits
  <2>2. of[u] \in Vars /\ of[u] # None
    BY <1>2, <2>1, ElementOfSeq, CoroutineAssumption
  <2> QED BY <1>2, <1>3, <2>1, <2>2
<1>6. ASSUME NEW u \in D PROVE slots'[th.suspended[u]] = held[u]
  <2> DEFINE i == th.suspended[u]
             w == CHOOSE w \in there : th.suspended[w] = i
  <2>1. u \in there /\ i \in written /\ i \in DOMAIN th.slots
    BY <1>2, <1>5
  <2>2. w \in there /\ th.suspended[w] = i
    BY <2>1
  <2>3. slots'[i] = held[w]
    BY <1>4, <2>1
  <2> HIDE DEF w
  <2>4. of[w] = of[u] /\ of[u] # None
    BY <1>5, <2>2
  <2>5. w = u
    BY <1>2, <2>2, <2>4 DEF IInv, Kept
  <2> QED BY <2>3, <2>5
<1>7. ASSUME NEW u \in Upvalues PROVE Get(u)' = Get(u)
  <2>1. CASE u \in D
    <3>1. at'[u] = th.suspended[u] /\ at'[u] # 0
      BY <1>1, <1>2, <1>5, <2>1
    <3> QED BY <1>3, <1>6, <2>1, <3>1 DEF Get
  <2>2. CASE u \notin D
    <3>1. at'[u] = 0 /\ own'[u] = held[u]
      BY <1>1, <1>3, <2>2
    <3> QED BY <1>3, <3>1 DEF Get
  <2> QED BY <2>1, <2>2
<1>8. ASSUME NEW i \in DOMAIN th.names, th.names[i] \notin Captured
      PROVE  slots'[i] = th.slots[i]
  <2>1. i \notin written
    <3> SUFFICES ASSUME NEW u \in D, th.suspended[u] = i PROVE FALSE
      OBVIOUS
    <3>1. th.names[i] = of[u] /\ of[u] # None /\ u \in Upvalues
      BY <1>2, <1>5
    <3> QED BY <1>8, <3>1 DEF Captured
  <2> HIDE DEF written
  <2> QED BY <1>2, <1>4, <2>1
<1>9. Captured' = Captured
  BY <1>1 DEF Captured
<1> QED BY <1>1, <1>7, <1>8, <1>9

\* A thread runs, waits for one that it resumed, or neither.
LEMMA WhoIs ==
  ASSUME IInv, NEW q \in Threads \union {"main"}
  PROVE  \/ q = current
         \/ \E k \in DOMAIN saved : saved[k].caller = q
         \/ q \in Threads /\ arena[q].status # "Running"
<1>1. CASE q \in Threads
  BY <1>1 DEF IInv, Lined
<1>2. CASE q = "main" /\ current # "main"
  <2>1. saved # <<>>
    BY <1>2 DEF IInv, Lined
  <2>2. 1 \in DOMAIN saved
    BY <2>1, LenProperties, EmptySeq DEF IInv, Typed
  <2> QED BY <1>2, <2>2 DEF IInv, Lined
<1> QED BY <1>1, <1>2

(***************************************************************************)
(* A stack has a slot of a variable with a value.                          *)
(***************************************************************************)
Holds(s, x, v) == \E i \in DOMAIN s.names : s.names[i] = x /\ s.slots[i] = v

SlotsListed ==
  \A x, v : InSlot(x, v) <=> \/ Here(x, v)
                             \/ \E k \in DOMAIN saved : Holds(saved[k].stack, x, v)
                             \/ \E q \in Threads \ Dead : Holds(arena[q].stack, x, v)

\* Where the slots are: in the running stack, in those that wait and in the arena.
LEMMA Listed == SlotsListed
<1>1. ASSUME NEW x, NEW v, Elsewhere(x, v)
      PROVE  \/ \E k \in DOMAIN saved : Holds(saved[k].stack, x, v)
             \/ \E q \in Threads \ Dead : Holds(arena[q].stack, x, v)
  <2>1. PICK p \in Live \ {Run} : Holds(Family[p], x, v)
    BY <1>1 DEF Elsewhere, Holds
  <2>2. p \in Places /\ p # Run /\ \A t \in Threads : p = <<"arena", t>> => t \notin Dead
    BY DEF Live
  <2> QED BY <2>1, <2>2, PlaceIs
<1>2. ASSUME NEW x, NEW v, NEW k \in DOMAIN saved, Holds(saved[k].stack, x, v)
      PROVE  Elsewhere(x, v)
  <2>1. <<"saved", k>> \in Live \ {Run} /\ Family[<<"saved", k>>] = saved[k].stack
    BY FamilyIs, PlacesDiffer DEF Live
  <2> QED BY <1>2, <2>1 DEF Elsewhere, Holds
<1>3. ASSUME NEW x, NEW v, NEW q \in Threads \ Dead, Holds(arena[q].stack, x, v)
      PROVE  Elsewhere(x, v)
  <2>1. <<"arena", q>> \in Live \ {Run} /\ Family[<<"arena", q>>] = arena[q].stack
    BY FamilyIs, PlacesDiffer DEF Live
  <2> QED BY <1>3, <2>1 DEF Elsewhere, Holds
<1> QED BY <1>1, <1>2, <1>3, Split DEF SlotsSplit, SlotsListed

\* The same of the next state.
LEMMA ListedNext == SlotsListed'
BY Listed, PTL

\* A coroutine is resumed.
LEMMA ResumeIs ==
  ASSUME IInv, IInv', NEW t \in Threads, Resume(t)
  PROVE  Promise!Resume(t)
<1> DEFINE n == Len(saved)
           th == arena[t].stack
<1>1. /\ Resumable(t) /\ saved' = Append(saved, [caller |-> current, stack |-> PutAway])
      /\ arena' = [arena EXCEPT ![t] = [status |-> "Running", stack |-> Blank]]
      /\ current' = t /\ Swap(th, TRUE)
  BY DEF Resume
<1>2. /\ arena \in [Threads -> [status : Statuses, stack : Stack]]
      /\ saved \in Seq([caller : Threads \union {"main"}, stack : Stack])
      /\ current \in Threads \union {"main"}
  BY DEF IInv, Typed
<1>3. /\ n \in Nat /\ DOMAIN saved = 1 .. n /\ DOMAIN saved' = 1 .. n + 1 /\ Len(saved') = n + 1
      /\ saved'[n + 1].caller = current /\ saved'[n + 1].stack = PutAway
      /\ \A k \in 1 .. n : saved'[k] = saved[k]
  <2>1. PutAway \in Stack
    BY RunIs DEF Sound
  <2>2. PICK new \in [caller : Threads \union {"main"}, stack : Stack] :
          new = [caller |-> current, stack |-> PutAway]
    BY <1>2, <2>1
  <2>3. saved' = Append(saved, new) /\ new.caller = current /\ new.stack = PutAway
    BY <1>1, <2>2
  <2>4. /\ n \in Nat /\ DOMAIN saved = 1 .. n /\ DOMAIN saved' = 1 .. n + 1 /\ Len(saved') = n + 1
        /\ saved'[n + 1] = new /\ \A k \in 1 .. n : saved'[k] = saved[k]
    BY <1>2, <2>3, OneMore, AppendProperties
  <2> QED BY <2>3, <2>4
<1>4. /\ arena'[t].status = "Running" /\ arena'[t].stack = Blank
      /\ \A q \in Threads \ {t} : arena'[q] = arena[q]
  BY <1>1, <1>2
<1>5. arena[t].status \in {"Initial", "Suspended"}
  BY <1>1 DEF Resumable
<1>6. Dead' = Dead /\ Created' = Created /\ t \notin Dead
  BY <1>4, <1>5 DEF Dead, Created
<1>7. /\ of' = of /\ Captured' = Captured /\ names' = th.names
      /\ \A u \in Upvalues : Get(u)' = Get(u)
      /\ \A i \in DOMAIN th.names : th.names[i] \notin Captured => slots'[i] = th.slots[i]
  <2>1. Sound(th, of) /\ TRUE \in BOOLEAN
    BY FamilyIs DEF IInv
  <2> HIDE DEF th
  <2> QED BY <1>1, <2>1, SwapKeeps
<1> HIDE DEF n
<1>8. ChainLaw /\ ChainLaw' /\ ScopeLaw /\ ScopeLaw' /\ ValueLaw /\ ValueLaw'
  BY LawsNext, Chained, Scoped, Valued
<1>9. Chain' = Append(Chain, t)
  <2>1. /\ Chain \in Seq(Threads) /\ Len(Chain) = n
        /\ Chain' \in Seq(Threads) /\ Len(Chain') = n + 1
    BY <1>3, <1>8 DEF ChainLaw, n
  <2>2. /\ \A k \in 1 .. n : Chain[k] = IF k = n THEN current ELSE saved[k + 1].caller
        /\ \A k \in 1 .. n + 1 : Chain'[k] = IF k = n + 1 THEN t ELSE saved'[k + 1].caller
    BY <1>1, <1>3, <1>8 DEF ChainLaw, n
  <2>3. /\ Append(Chain, t) \in Seq(Threads) /\ Len(Append(Chain, t)) = n + 1
        /\ Append(Chain, t)[n + 1] = t /\ \A k \in 1 .. n : Append(Chain, t)[k] = Chain[k]
    BY <2>1, AppendProperties
  <2>4. ASSUME NEW k \in 1 .. n + 1 PROVE Chain'[k] = Append(Chain, t)[k]
    <3>1. CASE k = n + 1
      BY <2>2, <2>3, <3>1
    <3>2. CASE k = n
      <4>1. k \in 1 .. n /\ k # n + 1
        BY <1>3, <3>2
      <4> QED BY <1>3, <2>2, <2>3, <3>2, <4>1
    <3>3. CASE k \in 1 .. n - 1
      <4>1. k \in 1 .. n /\ k + 1 \in 1 .. n /\ k # n /\ k # n + 1
        BY <1>3, <3>3
      <4> QED BY <1>3, <2>2, <2>3, <4>1
    <3>4. ASSUME NEW m \in Nat, NEW j \in 1 .. m + 1
          PROVE  j = m + 1 \/ j = m \/ j \in 1 .. m - 1
      OBVIOUS
    <3>5. k = n + 1 \/ k = n \/ k \in 1 .. n - 1
      BY <1>3, <3>4
    <3> QED BY <3>1, <3>2, <3>3, <3>5
  <2> QED BY <2>1, <2>3, <2>4, SeqEqual
<1>10. ASSUME NEW q \in Threads \union {"main"} PROVE ScopeOf(q)' = ScopeOf(q)
  <2>1. CASE q = t
    <3>1. ScopeOf(q)' = ToSet(names')
      BY <1>1, <1>8, <2>1 DEF ScopeLaw, ToSet
    <3>2. ScopeOf(q) = ToSet(th.names)
      BY <1>5, <1>6, <1>8, <2>1 DEF ScopeLaw
    <3> QED BY <1>7, <3>1, <3>2
  <2>2. CASE q = current
    <3>1. ScopeOf(q)' = ToSet(PutAway.names)
      <4>1. n + 1 \in DOMAIN saved'
        BY <1>3
      <4>2. ASSUME NEW k \in DOMAIN saved', saved'[k].caller = q
            PROVE  ScopeOf(q)' = ToSet(saved'[k].stack.names)
        BY <1>8, <4>2 DEF ScopeLaw, ToSet
      <4> QED BY <1>3, <2>2, <4>1, <4>2
    <3> QED BY <1>3, <1>8, <2>2, <3>1 DEF ScopeLaw, PutAway
  <2>3. ASSUME NEW k \in DOMAIN saved, saved[k].caller = q PROVE ScopeOf(q)' = ScopeOf(q)
    <3>1. k \in DOMAIN saved' /\ saved'[k] = saved[k]
      BY <1>3
    <3>2. ScopeOf(q)' = ToSet(saved'[k].stack.names)
      BY <1>8, <2>3, <3>1 DEF ScopeLaw, ToSet
    <3> QED BY <1>8, <2>3, <3>1, <3>2 DEF ScopeLaw
  <2>4. CASE q \in Threads /\ arena[q].status # "Running" /\ q # t
    <3>1. ScopeOf(q)' = IF q \in Dead' THEN {} ELSE ToSet(arena'[q].stack.names)
      BY <1>4, <1>8, <2>4 DEF ScopeLaw, ToSet
    <3> QED BY <1>4, <1>6, <1>8, <2>4, <3>1 DEF ScopeLaw
  <2> QED BY <2>1, <2>2, <2>3, <2>4, WhoIs
<1>11. Scopes' = Scopes
  BY <1>10 DEF Scopes
<1>12. ASSUME NEW x \in Vars PROVE ValueOf(x)' = ValueOf(x)
  <2>1. x \in Captured => \E u \in Upvalues : of[u] = x /\ of'[u] = x /\ Get(u)' = Get(u)
    BY <1>7, CapturedIs
  <2>2. ASSUME x \notin Captured, NEW v PROVE InSlot(x, v)' <=> InSlot(x, v)
    <3>1. Here(x, v)' <=> Holds(arena[t].stack, x, v)
      BY <1>7, <2>2 DEF Here, Holds
    <3>2. Holds(saved'[n + 1].stack, x, v) <=> Here(x, v)
      BY <1>3 DEF Here, Holds, PutAway
    <3>3. (\E k \in DOMAIN saved' : Holds(saved'[k].stack, x, v))
            <=> Here(x, v) \/ \E k \in DOMAIN saved : Holds(saved[k].stack, x, v)
      <4>1. \A k \in DOMAIN saved' : k = n + 1 \/ k \in DOMAIN saved
        BY <1>3
      <4>2. n + 1 \in DOMAIN saved' /\ \A k \in DOMAIN saved : k \in DOMAIN saved'
        BY <1>3
      <4>3. \A k \in DOMAIN saved : saved'[k] = saved[k]
        BY <1>3
      <4> QED BY <3>2, <4>1, <4>2, <4>3
    <3>4. (\E q \in Threads \ Dead' : Holds(arena'[q].stack, x, v))
            \/ Holds(arena[t].stack, x, v)
            <=> \E q \in Threads \ Dead : Holds(arena[q].stack, x, v)
      <4>1. ~ Holds(arena'[t].stack, x, v)
        BY <1>4, BlankSound DEF Holds
      <4> QED BY <1>4, <1>6, <4>1
    <3>5. InSlot(x, v) <=> \/ Here(x, v)
                           \/ \E k \in DOMAIN saved : Holds(saved[k].stack, x, v)
                           \/ \E q \in Threads \ Dead : Holds(arena[q].stack, x, v)
      BY Listed DEF SlotsListed
    <3>6. InSlot(x, v)' <=> \/ Here(x, v)'
                            \/ \E k \in DOMAIN saved' : Holds(saved'[k].stack, x, v)
                            \/ \E q \in Threads \ Dead' : Holds(arena'[q].stack, x, v)
      BY ListedNext DEF SlotsListed, Holds
    <3> QED BY <3>1, <3>3, <3>4, <3>5, <3>6
  <2> QED BY <1>7, <1>8, <2>1, <2>2, SameValue
<1>13. Values' = Values
  BY <1>12 DEF Values
<1> HIDE DEF th
<1>14. t \in Promise!Suspended
  BY <1>1, SuspendedIs
<1> QED BY <1>6, <1>7, <1>9, <1>11, <1>13, <1>14
        DEF Promise!Resume, Created, Captured, Scopes, Values

\* What the return of a coroutine to its resumer leaves, whether it yields or ends.
LEMMA ReturnIs ==
  ASSUME IInv, IInv', NEW status \in {"Suspended", "Dead"}, NEW left \in {PutAway, Blank},
         status = "Suspended" => left = PutAway, Return(status, left)
  PROVE  /\ Chain # <<>> /\ Chain' = Front(Chain)
         /\ current \in Threads /\ Created' = Created /\ Captured' = Captured
         /\ Dead' = IF status = "Dead" THEN Dead \union {current} ELSE Dead
         /\ \A q \in Threads \union {"main"} :
              ScopeOf(q)' = IF status = "Dead" /\ q = current THEN {} ELSE ScopeOf(q)
         /\ ScopeOf(current) = ToSet(names)
         /\ \A x \in Vars :
              ValueOf(x)' = IF status = "Dead" /\ x \in ToSet(names) \ Captured THEN None
                            ELSE ValueOf(x)
<1> DEFINE n == Len(saved)
           th == saved[n].stack
<1>1. /\ current # "main" /\ saved' = Front(saved)
      /\ arena' = [arena EXCEPT ![current] = [status |-> status, stack |-> left]]
      /\ current' = Last(saved).caller /\ Swap(Last(saved).stack, FALSE)
  BY DEF Return
<1>2. /\ arena \in [Threads -> [status : Statuses, stack : Stack]]
      /\ saved \in Seq([caller : Threads \union {"main"}, stack : Stack])
      /\ current \in Threads
  BY <1>1 DEF IInv, Typed
<1>3. /\ n \in Nat \ {0} /\ DOMAIN saved = 1 .. n /\ n \in DOMAIN saved
      /\ DOMAIN saved' = 1 .. n - 1 /\ Len(saved') = n - 1
      /\ Last(saved) = saved[n] /\ \A k \in 1 .. n - 1 : saved'[k] = saved[k]
  <2>1. saved # <<>>
    BY <1>1 DEF IInv, Lined
  <2>2. /\ n \in Nat \ {0} /\ DOMAIN saved = 1 .. n /\ DOMAIN saved' = 1 .. n - 1
        /\ Last(saved) = saved[n] /\ \A k \in 1 .. n - 1 : saved'[k] = saved[k]
        /\ saved' \in Seq([caller : Threads \union {"main"}, stack : Stack])
    BY <1>1, <1>2, <2>1, OneFewer
  <2>3. Len(saved') = n - 1
    <3>1. Len(saved') \in Nat /\ DOMAIN saved' = 1 .. Len(saved')
      BY <2>2, LenProperties
    <3>2. ASSUME NEW i \in Nat, NEW j \in Nat, 1 .. i = 1 .. j PROVE i = j
      BY <3>2
    <3>3. n - 1 \in Nat
      BY <2>2
    <3> QED BY <2>2, <3>1, <3>2, <3>3
  <2> HIDE DEF n
  <2> QED BY <2>2, <2>3
<1>4. /\ arena'[current].status = status /\ arena'[current].stack = left
      /\ \A q \in Threads \ {current} : arena'[q] = arena[q]
  BY <1>1, <1>2
<1>5. current' = saved[n].caller /\ saved[n].caller # current /\ arena[current].status = "Running"
  BY <1>1, <1>2, <1>3 DEF IInv, Lined
<1>6. /\ Dead' = IF status = "Dead" THEN Dead \union {current} ELSE Dead
      /\ Created' = Created /\ current \notin Dead
  BY <1>2, <1>4, <1>5 DEF Dead, Created
<1>7. /\ of' = of /\ Captured' = Captured /\ names' = th.names
      /\ \A u \in Upvalues : Get(u)' = Get(u)
      /\ \A i \in DOMAIN th.names : th.names[i] \notin Captured => slots'[i] = th.slots[i]
  <2>1. Sound(th, of) /\ FALSE \in BOOLEAN /\ Swap(th, FALSE)
    BY <1>1, <1>3, FamilyIs DEF IInv
  <2> HIDE DEF th
  <2> QED BY <2>1, SwapKeeps
<1> HIDE DEF n
<1>8. ChainLaw /\ ChainLaw' /\ ScopeLaw /\ ScopeLaw' /\ ValueLaw /\ ValueLaw'
  BY LawsNext, Chained, Scoped, Valued
<1>9. Chain # <<>> /\ Chain' = Front(Chain)
  <2>1. /\ Chain \in Seq(Threads) /\ Len(Chain) = n
        /\ Chain' \in Seq(Threads) /\ Len(Chain') = n - 1
    BY <1>3, <1>8 DEF ChainLaw, n
  <2>2. /\ \A k \in 1 .. n : Chain[k] = IF k = n THEN current ELSE saved[k + 1].caller
        /\ \A k \in 1 .. n - 1 : Chain'[k] = IF k = n - 1 THEN saved[n].caller
                                             ELSE saved'[k + 1].caller
    BY <1>3, <1>5, <1>8 DEF ChainLaw, n
  <2>3. Chain # <<>>
    BY <1>3, <2>1, EmptySeq
  <2>4. /\ Front(Chain) \in Seq(Threads) /\ Len(Front(Chain)) = n - 1
        /\ \A k \in 1 .. n - 1 : Front(Chain)[k] = Chain[k]
    <3>1. Len(Chain) \in 1 .. Len(Chain)
      BY <1>3, <2>1
    <3> QED BY <2>1, <3>1, Before DEF Front
  <2>5. ASSUME NEW k \in 1 .. n - 1 PROVE Chain'[k] = Front(Chain)[k]
    <3>1. k \in 1 .. n /\ k # n
      BY <1>3
    <3>2. CASE k = n - 1
      <4>1. k + 1 = n
        BY <1>3, <3>2
      <4> QED BY <2>2, <2>4, <3>1, <3>2, <4>1
    <3>3. CASE k # n - 1
      <4>1. k + 1 \in 1 .. n - 1
        BY <1>3, <3>3
      <4> QED BY <1>3, <2>2, <2>4, <3>1, <3>3, <4>1
    <3> QED BY <3>2, <3>3
  <2> QED BY <2>1, <2>3, <2>4, <2>5, SeqEqual
<1>10. ASSUME NEW q \in Threads \union {"main"}
       PROVE  ScopeOf(q)' = IF status = "Dead" /\ q = current THEN {} ELSE ScopeOf(q)
  <2>1. CASE q = current
    <3>1. ScopeOf(q)' = IF q \in Dead' THEN {} ELSE ToSet(arena'[q].stack.names)
      BY <1>2, <1>4, <1>8, <2>1 DEF ScopeLaw, ToSet
    <3>2. ScopeOf(q) = ToSet(names)
      BY <1>8, <2>1 DEF ScopeLaw
    <3>3. status = "Suspended" => arena'[q].stack.names = names
      BY <1>4, <2>1 DEF PutAway
    <3> QED BY <1>6, <2>1, <3>1, <3>2, <3>3
  <2>2. ASSUME NEW k \in DOMAIN saved, saved[k].caller = q PROVE ScopeOf(q)' = ScopeOf(q)
    <3>1. ScopeOf(q) = ToSet(saved[k].stack.names)
      BY <1>8, <2>2 DEF ScopeLaw
    <3>2. CASE k = n
      <4>1. current' = q
        BY <1>5, <2>2, <3>2
      <4>2. ScopeOf(q)' = ToSet(names')
        BY <1>8, <4>1 DEF ScopeLaw, ToSet
      <4> QED BY <1>7, <3>1, <3>2, <4>2
    <3>3. CASE k # n
      <4>1. k \in DOMAIN saved' /\ saved'[k] = saved[k]
        BY <1>3, <3>3
      <4>2. ScopeOf(q)' = ToSet(saved'[k].stack.names)
        BY <1>8, <2>2, <4>1 DEF ScopeLaw, ToSet
      <4> QED BY <3>1, <4>1, <4>2
    <3> QED BY <3>2, <3>3
  <2>3. CASE q \in Threads /\ arena[q].status # "Running" /\ q # current
    <3>1. ScopeOf(q)' = IF q \in Dead' THEN {} ELSE ToSet(arena'[q].stack.names)
      BY <1>4, <1>8, <2>3 DEF ScopeLaw, ToSet
    <3> QED BY <1>4, <1>6, <1>8, <2>3, <3>1 DEF ScopeLaw
  <2>4. \A k \in DOMAIN saved : saved[k].caller # current
    BY DEF IInv, Lined
  <2> QED BY <2>1, <2>2, <2>3, <2>4, WhoIs
<1>11. ASSUME NEW x \in Vars, x \notin Captured, status = "Suspended" \/ x \notin ToSet(names),
              NEW v
       PROVE  InSlot(x, v)' <=> InSlot(x, v)
  <2>1. Here(x, v)' <=> Holds(saved[n].stack, x, v)
    BY <1>7, <1>11 DEF Here, Holds
  <2>2. (\E k \in DOMAIN saved : Holds(saved[k].stack, x, v))
          <=> Here(x, v)' \/ \E k \in DOMAIN saved' : Holds(saved'[k].stack, x, v)
    <3>1. \A k \in DOMAIN saved : k = n \/ k \in DOMAIN saved'
      BY <1>3
    <3>2. \A k \in DOMAIN saved' : k \in DOMAIN saved /\ saved'[k] = saved[k]
      BY <1>3
    <3> QED BY <1>3, <2>1, <3>1, <3>2
  <2>3. (\E q \in Threads \ Dead' : Holds(arena'[q].stack, x, v))
          <=> Here(x, v) \/ \E q \in Threads \ Dead : Holds(arena[q].stack, x, v)
    <3>1. ~ Holds(arena[current].stack, x, v)
      <4>1. arena[current].stack = Blank
        BY <1>2, <1>5 DEF IInv, Lined
      <4> QED BY <4>1, BlankSound DEF Holds
    <3>2. CASE status = "Suspended"
      <4>1. Holds(arena'[current].stack, x, v) <=> Here(x, v)
        BY <1>4, <3>2 DEF Holds, Here, PutAway
      <4> QED BY <1>2, <1>4, <1>6, <3>1, <3>2, <4>1
    <3>3. CASE status = "Dead"
      <4>1. ~ Here(x, v)
        BY <1>11, <3>3 DEF Here, ToSet
      <4> QED BY <1>2, <1>4, <1>6, <3>1, <3>3, <4>1
    <3> QED BY <3>2, <3>3
  <2>4. InSlot(x, v) <=> \/ Here(x, v)
                         \/ \E k \in DOMAIN saved : Holds(saved[k].stack, x, v)
                         \/ \E q \in Threads \ Dead : Holds(arena[q].stack, x, v)
    BY Listed DEF SlotsListed
  <2>5. InSlot(x, v)' <=> \/ Here(x, v)'
                          \/ \E k \in DOMAIN saved' : Holds(saved'[k].stack, x, v)
                          \/ \E q \in Threads \ Dead' : Holds(arena'[q].stack, x, v)
    BY ListedNext DEF SlotsListed, Holds
  <2> QED BY <2>2, <2>3, <2>4, <2>5
<1>12. ASSUME NEW x \in Vars, x \in Captured \/ status = "Suspended" \/ x \notin ToSet(names)
       PROVE  ValueOf(x)' = ValueOf(x)
  <2>1. x \in Captured => \E u \in Upvalues : of[u] = x /\ of'[u] = x /\ Get(u)' = Get(u)
    BY <1>7, CapturedIs
  <2>2. x \notin Captured => \A v : InSlot(x, v)' <=> InSlot(x, v)
    BY <1>11, <1>12
  <2> QED BY <1>7, <1>8, <2>1, <2>2, SameValue
<1>13. ASSUME NEW x \in Vars, status = "Dead", x \in ToSet(names), x \notin Captured
       PROVE  ValueOf(x)' = None
  <2>0. PICK i \in DOMAIN names : names[i] = x
    BY <1>13 DEF ToSet
  <2>1. \A p \in Places \ {Run} : \A j \in DOMAIN Family[p].names : Family[p].names[j] # x
    BY <2>0, OthersApart
  <2>2. \A k \in DOMAIN saved : \A v : ~ Holds(saved[k].stack, x, v)
    <3>1. \A k \in DOMAIN saved : <<"saved", k>> \in Places \ {Run}
                                    /\ Family[<<"saved", k>>] = saved[k].stack
      BY FamilyIs
    <3> QED BY <2>1, <3>1 DEF Holds
  <2>3. \A q \in Threads : \A v : ~ Holds(arena[q].stack, x, v)
    <3>1. \A q \in Threads : <<"arena", q>> \in Places \ {Run}
                               /\ Family[<<"arena", q>>] = arena[q].stack
      BY FamilyIs
    <3> QED BY <2>1, <3>1 DEF Holds
  <2>4. ASSUME NEW v PROVE ~ InSlot(x, v)'
    <3>1. ~ Here(x, v)'
      <4>1. Here(x, v)' => Holds(saved[n].stack, x, v)
        BY <1>7, <1>13 DEF Here, Holds
      <4> QED BY <1>3, <2>2, <4>1
    <3>2. \A k \in DOMAIN saved' : ~ Holds(saved'[k].stack, x, v)
      <4>1. \A k \in DOMAIN saved' : k \in DOMAIN saved /\ saved'[k] = saved[k]
        BY <1>3
      <4> QED BY <2>2, <4>1
    <3>3. \A q \in Threads \ Dead' : ~ Holds(arena'[q].stack, x, v)
      BY <1>4, <1>6, <1>13, <2>3
    <3> QED BY <3>1, <3>2, <3>3, ListedNext DEF SlotsListed, Holds
  <2> QED BY <1>7, <1>8, <1>13, <2>4 DEF ValueLaw
<1>14. ScopeOf(current) = ToSet(names)
  BY <1>8 DEF ScopeLaw
<1>15. ASSUME NEW x \in Vars
       PROVE  ValueOf(x)' = IF status = "Dead" /\ x \in ToSet(names) \ Captured THEN None
                            ELSE ValueOf(x)
  BY <1>12, <1>13
<1> HIDE DEF th
<1> QED BY <1>2, <1>6, <1>7, <1>9, <1>10, <1>14, <1>15

\* A coroutine yields.
LEMMA YieldIs ==
  ASSUME IInv, IInv', Yield
  PROVE  Promise!Yield
<1>1. Return("Suspended", PutAway)
  BY DEF Yield
<1>2. /\ Chain # <<>> /\ Chain' = Front(Chain)
      /\ Created' = Created /\ Captured' = Captured /\ Dead' = Dead
      /\ \A q \in Threads \union {"main"} : ScopeOf(q)' = ScopeOf(q)
      /\ \A x \in Vars : ValueOf(x)' = ValueOf(x)
  BY <1>1, ReturnIs
<1>3. Scopes' = Scopes /\ Values' = Values
  BY <1>2 DEF Scopes, Values
<1> QED BY <1>2, <1>3 DEF Promise!Yield, Promise!Front, Front, Created, Captured, Scopes, Values

\* A coroutine returns or fails.
LEMMA EndIs ==
  ASSUME IInv, IInv', Finish \/ Fail
  PROVE  Promise!End
<1>1. PICK left \in {PutAway, Blank} : Return("Dead", left)
  BY DEF Finish, Fail
<1>2. /\ Chain # <<>> /\ Chain' = Front(Chain)
      /\ current \in Threads /\ Created' = Created /\ Captured' = Captured
      /\ Dead' = Dead \union {current}
      /\ \A q \in Threads \union {"main"} :
           ScopeOf(q)' = IF q = current THEN {} ELSE ScopeOf(q)
      /\ ScopeOf(current) = ToSet(names)
      /\ \A x \in Vars :
           ValueOf(x)' = IF x \in ToSet(names) \ Captured THEN None ELSE ValueOf(x)
  BY <1>1, ReturnIs
<1>3. Scopes' = [Scopes EXCEPT ![current] = {}] /\ Scopes[current] = ToSet(names)
  BY <1>2 DEF Scopes
<1>4. Values' = [x \in Vars |-> IF x \in ToSet(names) \ Captured THEN None ELSE Values[x]]
  BY <1>2 DEF Values
<1>5. Promise!Running = current
  BY RunningIs
<1> QED BY <1>2, <1>3, <1>4, <1>5
        DEF Promise!End, Promise!Drop, Promise!Front, Front, Created, Captured, Scopes, Values

\* A step that changes nothing changes nothing of what the program sees.
LEMMA StutterIs ==
  ASSUME UNCHANGED vars
  PROVE  UNCHANGED Promise!vars
<1>1. UNCHANGED <<slots, names, open, at, own, of, arena, saved, current>>
  BY DEF vars, stackVars
<1>2. Chain' = Chain /\ Dead' = Dead /\ \A q : ScopeOf(q)' = ScopeOf(q)
  BY <1>1 DEF Chain, Dead, ScopeOf
<1>3. Stacks' = Stacks
  <2>1. PutAway' = PutAway
    BY <1>1 DEF PutAway, Suspending, OpenNow
  <2> QED BY <1>1, <1>2, <2>1 DEF Stacks
<1>4. \A x : ValueOf(x)' = ValueOf(x)
  BY <1>1, <1>3 DEF ValueOf, SlotValues, Shared, Get
<1> QED BY <1>1, <1>2, <1>4 DEF Promise!vars

\* Every step of the threads is a step of the promise, or nothing that the program sees.
LEMMA StepIs ==
  ASSUME ~ Escapes, IInv, IInv', [Next]_vars
  PROVE  [Promise!Next]_Promise!vars
<1> USE DEF Promise!Next
<1>1. CASE UNCHANGED vars
  BY <1>1, StutterIs
<1>2. ASSUME NEW t \in Threads, Create(t) PROVE Promise!Next
  BY <1>2, CreateIs
<1>3. ASSUME NEW t \in Threads, Resume(t) PROVE Promise!Next
  BY <1>3, ResumeIs
<1>4. CASE Yield
  BY <1>4, YieldIs
<1>5. CASE Finish \/ Fail
  BY <1>5, EndIs
<1>6. ASSUME NEW i \in 1 .. MaxSlots, FindUpvalue(i) PROVE [Promise!Next]_Promise!vars
  BY <1>6, FindUpvalueIs, StutterIs
<1>7. ASSUME NEW i \in 1 .. MaxSlots, Leave(i) PROVE Promise!Next
  BY <1>7, LeaveIs
<1>8. ASSUME NEW i \in 1 .. MaxSlots, Abandon(i) PROVE Promise!Next
  BY <1>8, AbandonIs
<1>9. ASSUME NEW v \in Vals, NEW x \in Vars, Declare(x, v) PROVE Promise!Next
  BY <1>9, DeclareIs
<1>10. ASSUME NEW v \in Vals, NEW i \in 1 .. MaxSlots, SetLocal(i, v) PROVE Promise!Next
  BY <1>10, SetLocalIs
<1>11. ASSUME NEW v \in Vals, NEW u \in Upvalues, SetUpval(u, v) PROVE Promise!Next
  BY <1>11, SetUpvalIs
<1>12. ASSUME NEW v \in Vals, NEW t \in Threads, NEW i \in 1 .. MaxSlots, DebugSetLocal(t, i, v)
       PROVE  [Promise!Next]_Promise!vars
  BY <1>12, DebugSetLocalIs
<1> HIDE DEF Promise!Next
<1> QED BY <1>1, <1>2, <1>3, <1>4, <1>5, <1>6, <1>7, <1>8, <1>9, <1>10, <1>11, <1>12 DEF Next

\* Swapping threads, closing upvalues and reopening them is invisible to the program: it
\* sees threads in a chain, and variables with one value that only assignments change.
THEOREM Refinement ==
  ASSUME ~ Escapes
  PROVE  Spec => Implements
<1>1. Init => Promise!Init
  BY InitIs
<1>2. IInv /\ IInv' /\ [Next]_vars => [Promise!Next]_Promise!vars
  BY StepIs
<1>3. Spec => []IInv
  BY Invariance
<1> QED BY <1>1, <1>2, <1>3, PTL DEF Spec, Implements, Promise!Spec
=============================================================================
