-------------------------- MODULE CoroutineProofs --------------------------
(***************************************************************************)
(* Proofs about the thread swap: a captured variable stays one variable,   *)
(* as long as no frame is dropped with its upvalues open (~Escapes).       *)
(***************************************************************************)
EXTENDS Coroutine, FiniteSetTheorems, SequenceTheorems, WellFoundedInduction, TLAPS

-----------------------------------------------------------------------------
(***************************************************************************)
(* Every stack there is: the running one, those on saved_threads and those *)
(* in the arena.                                                           *)
(***************************************************************************)
Run == <<"run", 0>>

Places == {Run} \union {<<"saved", k>> : k \in DOMAIN saved}
            \union {<<"arena", t>> : t \in Threads}

Family == [p \in Places |-> CASE p[1] = "run" -> PutAway
                              [] p[1] = "saved" -> saved[p[2]].stack
                              [] p[1] = "arena" -> arena[p[2]].stack]

Stack == [slots : Seq(Vals), names : Seq(Vars), open : Seq(Upvalues),
          suspended : UNION {[U -> Nat] : U \in SUBSET Upvalues}]

(***************************************************************************)
(* The upvalues of a stack: each is one of the variable in its slot, every *)
(* upvalue of such a variable is among them, and they are listed once, the *)
(* highest slot first.                                                     *)
(***************************************************************************)
Fits(s, o) ==
  \A u \in DOMAIN s.suspended :
    s.suspended[u] \in DOMAIN s.names /\ s.names[s.suspended[u]] = o[u]

Bound(s, o) ==
  \A u \in Upvalues, i \in DOMAIN s.names :
    o[u] = s.names[i] => u \in DOMAIN s.suspended /\ s.suspended[u] = i

Ordered(s) ==
  /\ ToSet(s.open) = DOMAIN s.suspended
  /\ \A i, j \in DOMAIN s.open : i < j => s.suspended[s.open[i]] > s.suspended[s.open[j]]

Sound(s, o) ==
  s \in Stack /\ Len(s.names) = Len(s.slots) /\ Len(s.slots) <= MaxSlots
    /\ Fits(s, o) /\ Bound(s, o) /\ Ordered(s)

(***************************************************************************)
(* No variable is in two slots.                                            *)
(***************************************************************************)
Apart(F) ==
  \A p, q \in DOMAIN F : \A i \in DOMAIN F[p].names, j \in DOMAIN F[q].names :
    F[p].names[i] = F[q].names[j] => p = q /\ i = j

(***************************************************************************)
(* An upvalue is free, open or closed, and no variable has two.            *)
(***************************************************************************)
Kept ==
  /\ \A u \in Upvalues : /\ at[u] # 0 => u \in ToSet(open) /\ own[u] = None
                         /\ of[u] = None <=> at[u] = 0 /\ own[u] = None
  /\ \A u, v \in Upvalues : of[u] = of[v] /\ of[u] # None => u = v

(***************************************************************************)
(* The threads that wait, from the main thread on, and the one that runs.  *)
(***************************************************************************)
Lined ==
  /\ saved = <<>> <=> current = "main"
  /\ \A k \in DOMAIN saved : saved[k].caller = "main" <=> k = 1
  /\ \A k \in DOMAIN saved : saved[k].caller # current
  /\ \A j, k \in DOMAIN saved : saved[j].caller = saved[k].caller => j = k
  /\ \A t \in Threads : arena[t].status = "Running" <=>
                           t = current \/ \E k \in DOMAIN saved : saved[k].caller = t
  /\ \A t \in Threads : arena[t].status \in {"Unborn", "Running"} => arena[t].stack = Blank

Typed ==
  /\ at \in [Upvalues -> Nat] /\ own \in [Upvalues -> Vals \union {None}]
  /\ of \in [Upvalues -> Vars \union {None}]
  /\ arena \in [Threads -> [status : Statuses, stack : Stack]]
  /\ saved \in Seq([caller : Threads \union {"main"}, stack : Stack])
  /\ current \in Threads \union {"main"}

IInv ==
  /\ Typed
  /\ \A p \in Places : Sound(Family[p], of)
  /\ Apart(Family)
  /\ Kept
  /\ Lined

-----------------------------------------------------------------------------
(***************************************************************************)
(* Sets and lists.                                                         *)
(***************************************************************************)
\* A set of numbers that has a member has a least one.
LEMMA LeastExists ==
  ASSUME NEW S \in SUBSET Nat, S # {}
  PROVE  \E x \in S : \A y \in S : x <= y
<1> DEFINE R == OpToRel(<, Nat)
<1>1. IsWellFoundedOn(R, Nat)
  BY NatLessThanWellFounded, Zenon
<1>2. \A x, y \in Nat : <<y, x>> \in R <=> y < x
  BY DEF OpToRel
<1> HIDE DEF R
<1>3. \E x \in S : \A y \in S : ~ (<<y, x>> \in R)
  BY <1>1, WFMin, Zenon
<1>4. \E x \in S : \A y \in S : x \in Nat /\ y \in Nat /\ ~ (y < x)
  BY <1>2, <1>3, Zenon
<1> QED BY <1>4

\* The upvalues at the front of a list in order are those of the slots from a level up.
LEMMA Leads ==
  ASSUME NEW level \in Nat, open \in Seq(Upvalues), at \in [Upvalues -> Nat],
         \A i, j \in DOMAIN open : i < j => at[open[i]] > at[open[j]]
  PROVE  \E m \in 0 .. Len(open) :
           /\ Leading(level) = 1 .. m /\ Cardinality(Leading(level)) = m
           /\ \A k \in DOMAIN open : k <= m <=> at[open[k]] >= level
<1>1. Len(open) \in Nat /\ DOMAIN open = 1 .. Len(open)
  BY LenProperties
<1>2. \A k \in DOMAIN open : open[k] \in Upvalues /\ at[open[k]] \in Nat
  BY <1>1, ElementOfSeq
<1> DEFINE low == {k \in 1 .. Len(open) + 1 : k = Len(open) + 1 \/ at[open[k]] < level}
<1>3. low \in SUBSET Nat /\ Len(open) + 1 \in low
  BY <1>1
<1>4. PICK l \in low : \A k \in low : l <= k
  <2> HIDE DEF low
  <2> QED BY <1>3, LeastExists
<1> DEFINE m == l - 1
<1>5. m \in 0 .. Len(open)
  BY <1>1
<1>6. \A k \in DOMAIN open : k <= m <=> at[open[k]] >= level
  <2> SUFFICES ASSUME NEW k \in DOMAIN open PROVE k <= m <=> at[open[k]] >= level
    OBVIOUS
  <2>1. CASE k <= m
    <3>1. k \notin low
      BY <1>1, <1>3, <1>4, <2>1
    <3> QED BY <1>1, <1>2, <2>1, <3>1
  <2>2. CASE k = l
    BY <1>1, <1>2, <2>2
  <2>3. CASE k > l
    <3>1. l \in DOMAIN open
      BY <1>1, <2>3
    <3>2. at[open[l]] < level
      BY <1>1, <2>3
    <3>3. at[open[l]] > at[open[k]]
      BY <2>3, <3>1
    <3>4. at[open[l]] \in Nat /\ at[open[k]] \in Nat
      BY <1>2, <3>1
    <3> QED BY <1>1, <1>3, <2>3, <3>2, <3>3, <3>4
  <2> QED BY <1>1, <1>3, <2>1, <2>2, <2>3
<1>7. Leading(level) = 1 .. m
  <2> HIDE DEF m, low
  <2>1. ASSUME NEW k \in Leading(level) PROVE k \in 1 .. m
    BY <1>1, <1>5, <1>6, <2>1 DEF Leading
  <2>2. ASSUME NEW k \in 1 .. m PROVE k \in Leading(level)
    <3>1. \A j \in 1 .. k : j \in DOMAIN open /\ j <= m
      BY <1>1, <1>5
    <3> QED BY <1>1, <1>5, <1>6, <3>1 DEF Leading
  <2> QED BY <2>1, <2>2
<1>8. Cardinality(Leading(level)) = m
  <2> HIDE DEF m, low
  <2>1. 1 \in Int /\ m \in Int /\ (1 > m => m = 0) /\ m - 1 + 1 = m
    BY <1>5
  <2> QED BY <1>7, <2>1, FS_Interval
<1> HIDE DEF m, low
<1> QED BY <1>5, <1>6, <1>7, <1>8

\* A list of all members of a finite set that has none twice.
LEMMA ListsAll ==
  ASSUME NEW S, IsFiniteSet(S), NEW list \in SetToSeqs(S)
  PROVE  /\ list \in Seq(S) /\ ToSet(list) = S
         /\ \A i, j \in DOMAIN list : i # j => list[i] # list[j]
<1> DEFINE n == Cardinality(S)
<1>1. n \in Nat
  BY FS_CardinalityType
<1>2. list \in [1 .. n -> S] /\ \A i, j \in 1 .. n : i # j => list[i] # list[j]
  BY DEF SetToSeqs
<1>3. list \in Seq(S)
  <2> HIDE DEF n
  <2> QED BY <1>1, <1>2, SeqDef
<1>4. list \in Injection(1 .. n, S)
  BY <1>2 DEF Injection, IsInjective
<1>5. Cardinality(1 .. n) = n
  <2> HIDE DEF n
  <2>1. 1 \in Int /\ n \in Int /\ (1 > n => n = 0) /\ n - 1 + 1 = n
    BY <1>1
  <2> QED BY <2>1, FS_Interval
<1>6. list \in Surjection(1 .. n, S)
  BY <1>4, <1>5, FS_Injection
<1>7. ToSet(list) = S
  <2>1. \A x \in S : \E i \in 1 .. n : list[i] = x
    BY <1>6 DEF Surjection
  <2> QED BY <1>2, <2>1 DEF ToSet
<1> QED BY <1>2, <1>3, <1>7

-----------------------------------------------------------------------------
(***************************************************************************)
(* The family of stacks.                                                   *)
(***************************************************************************)
\* Which stack is at which place.
LEMMA FamilyIs ==
  /\ DOMAIN Family = Places /\ Run \in Places /\ Family[Run] = PutAway
  /\ \A k \in DOMAIN saved : /\ <<"saved", k>> \in Places /\ <<"saved", k>> # Run
                             /\ Family[<<"saved", k>>] = saved[k].stack
  /\ \A t \in Threads : /\ <<"arena", t>> \in Places /\ <<"arena", t>> # Run
                        /\ Family[<<"arena", t>>] = arena[t].stack
<1>1. /\ Run[1] = "run" /\ \A k : <<"saved", k>>[1] = "saved" /\ <<"saved", k>>[2] = k
      /\ \A t : <<"arena", t>>[1] = "arena" /\ <<"arena", t>>[2] = t
  BY DEF Run
<1>2. DOMAIN Family = Places /\ Run \in Places
  BY DEF Family, Places
<1>3. Family[Run] = PutAway
  BY <1>1, <1>2 DEF Family
<1>4. ASSUME NEW k \in DOMAIN saved
      PROVE  /\ <<"saved", k>> \in Places /\ <<"saved", k>> # Run
             /\ Family[<<"saved", k>>] = saved[k].stack
  <2>1. <<"saved", k>> \in Places
    BY DEF Places
  <2>2. <<"saved", k>> # Run
    BY <1>1
  <2> QED BY <1>1, <2>1, <2>2 DEF Family
<1>5. ASSUME NEW t \in Threads
      PROVE  /\ <<"arena", t>> \in Places /\ <<"arena", t>> # Run
             /\ Family[<<"arena", t>>] = arena[t].stack
  <2>1. <<"arena", t>> \in Places
    BY DEF Places
  <2>2. <<"arena", t>> # Run
    BY <1>1
  <2> QED BY <1>1, <2>1, <2>2 DEF Family
<1> QED BY <1>2, <1>3, <1>4, <1>5

\* A place is the running stack, one on saved_threads or one in the arena.
LEMMA PlaceIs ==
  ASSUME NEW p \in Places
  PROVE  \/ p = Run /\ Family[p] = PutAway
         \/ \E k \in DOMAIN saved : p = <<"saved", k>> /\ Family[p] = saved[k].stack
         \/ \E t \in Threads : p = <<"arena", t>> /\ Family[p] = arena[t].stack
BY FamilyIs DEF Places

\* Places are told apart by their names.
LEMMA PlacesDiffer ==
  /\ \A j, k : <<"saved", j>> = <<"saved", k>> => j = k
  /\ \A s, t : <<"arena", s>> = <<"arena", t>> => s = t
  /\ \A k, t : <<"saved", k>> # <<"arena", t>> /\ <<"saved", k>> # Run /\ <<"arena", t>> # Run
BY DEF Run

\* While nothing is put away or taken back, the other stacks stay where they are.
LEMMA FamilyStays ==
  ASSUME UNCHANGED <<arena, saved>>
  PROVE  /\ Places' = Places /\ DOMAIN Family' = Places
         /\ Family'[Run] = PutAway' /\ \A p \in Places \ {Run} : Family'[p] = Family[p]
<1>1. Places' = Places
  BY DEF Places, Run
<1>2. DOMAIN Family' = Places
  BY <1>1 DEF Family
<1>3. Run[1] = "run" /\ Run \in Places
  BY DEF Run, Places
<1>4. Family'[Run] = PutAway'
  BY <1>1, <1>3 DEF Family
<1>5. ASSUME NEW p \in Places \ {Run} PROVE Family'[p] = Family[p]
  <2>1. (p[1] = "saved" \/ p[1] = "arena") /\ p \in Places
    BY DEF Places, Run
  <2>2. CASE p[1] = "saved"
    BY <1>1, <2>1, <2>2 DEF Family
  <2>3. CASE p[1] = "arena"
    BY <1>1, <2>1, <2>3 DEF Family
  <2> QED BY <2>1, <2>2, <2>3
<1> QED BY <1>1, <1>2, <1>4, <1>5

\* Moving stacks about keeps variables apart.
LEMMA ApartMoved ==
  ASSUME NEW F, NEW G, Apart(F), NEW from,
         \A p \in DOMAIN G : \/ DOMAIN G[p].names = {}
                             \/ from[p] \in DOMAIN F /\ G[p].names = F[from[p]].names,
         \A p, q \in DOMAIN G : DOMAIN G[p].names # {} /\ DOMAIN G[q].names # {}
                                  /\ from[p] = from[q] => p = q
  PROVE  Apart(G)
<1> SUFFICES ASSUME NEW p \in DOMAIN G, NEW q \in DOMAIN G,
                    NEW i \in DOMAIN G[p].names, NEW j \in DOMAIN G[q].names,
                    G[p].names[i] = G[q].names[j]
             PROVE  p = q /\ i = j
  BY DEF Apart
<1>1. DOMAIN G[p].names # {} /\ DOMAIN G[q].names # {}
  OBVIOUS
<1>2. /\ from[p] \in DOMAIN F /\ G[p].names = F[from[p]].names
      /\ from[q] \in DOMAIN F /\ G[q].names = F[from[q]].names
  BY <1>1
<1>3. from[p] = from[q] /\ i = j
  BY <1>2 DEF Apart
<1> QED BY <1>1, <1>3

\* The running stack: what it is sound for, in terms of the state.
LEMMA RunIs ==
  ASSUME IInv
  PROVE  /\ slots \in Seq(Vals) /\ names \in Seq(Vars) /\ open \in Seq(Upvalues)
         /\ Len(names) = Len(slots) /\ Len(slots) <= MaxSlots /\ Len(slots) \in Nat
         /\ DOMAIN slots = 1 .. Len(slots) /\ DOMAIN names = 1 .. Len(slots)
         /\ ToSet(open) = {u \in Upvalues : at[u] # 0}
         /\ OpenNow = ToSet(open)
         /\ \A u \in Upvalues : at[u] # 0 => at[u] \in DOMAIN names /\ names[at[u]] = of[u]
         /\ \A u \in Upvalues, i \in DOMAIN names : of[u] = names[i] => at[u] = i
         /\ \A i, j \in DOMAIN open : i < j => at[open[i]] > at[open[j]]
         /\ \A i, j \in DOMAIN names : names[i] = names[j] => i = j
         /\ Sound(PutAway, of)
<1>1. Sound(PutAway, of)
  BY FamilyIs DEF IInv
<1>2. /\ PutAway.slots = slots /\ PutAway.names = names /\ PutAway.open = open
      /\ PutAway.suspended = Suspending
  BY DEF PutAway
<1>3. slots \in Seq(Vals) /\ names \in Seq(Vars) /\ open \in Seq(Upvalues)
  BY <1>1, <1>2 DEF Sound, Stack
<1>4. Len(names) = Len(slots) /\ Len(slots) <= MaxSlots
  BY <1>1, <1>2 DEF Sound
<1>5. /\ Len(slots) \in Nat /\ DOMAIN slots = 1 .. Len(slots)
      /\ DOMAIN names = 1 .. Len(slots)
  BY <1>3, <1>4, LenProperties
<1>6. DOMAIN Suspending = OpenNow /\ \A u \in OpenNow : Suspending[u] = at[u] /\ u \in Upvalues
  BY <1>3 DEF Suspending, OpenNow, ToSet
<1>7. OpenNow = ToSet(open)
  BY <1>1, <1>2, <1>6 DEF Sound, Ordered
<1>8. ToSet(open) = {u \in Upvalues : at[u] # 0}
  <2>1. ToSet(open) \subseteq Upvalues
    BY <1>3 DEF ToSet
  <2> QED BY <1>7, <2>1 DEF OpenNow, IInv, Kept
<1>9. \A u \in Upvalues : at[u] # 0 => at[u] \in DOMAIN names /\ names[at[u]] = of[u]
  BY <1>1, <1>2, <1>6, <1>7, <1>8 DEF Sound, Fits
<1>10. \A u \in Upvalues, i \in DOMAIN names : of[u] = names[i] => at[u] = i
  BY <1>1, <1>2, <1>6 DEF Sound, Bound
<1>11. \A i, j \in DOMAIN open : i < j => at[open[i]] > at[open[j]]
  <2>1. \A i \in DOMAIN open : open[i] \in OpenNow
    BY <1>7 DEF ToSet
  <2>2. \A i, j \in DOMAIN open : i < j => Suspending[open[i]] > Suspending[open[j]]
    BY <1>1, <1>2 DEF Sound, Ordered
  <2> QED BY <1>6, <2>1, <2>2
<1>12. \A i, j \in DOMAIN names : names[i] = names[j] => i = j
  BY <1>2, FamilyIs DEF IInv, Apart
<1> QED BY <1>1, <1>3, <1>4, <1>5, <1>7, <1>8, <1>9, <1>10, <1>11, <1>12

-----------------------------------------------------------------------------
(***************************************************************************)
(* Steps of the running thread.                                            *)
(***************************************************************************)
StackOf(sl, na, op, a) ==
  [slots |-> sl, names |-> na, open |-> op,
   suspended |-> [u \in {u \in ToSet(op) : a[u] # 0} |-> a[u]]]

WellMade(sl, na, op, a, o) ==
  /\ sl \in Seq(Vals) /\ na \in Seq(Vars) /\ op \in Seq(Upvalues) /\ a \in [Upvalues -> Nat]
  /\ Len(na) = Len(sl) /\ Len(sl) <= MaxSlots
  /\ ToSet(op) = {u \in Upvalues : a[u] # 0}
  /\ \A u \in Upvalues : a[u] # 0 => a[u] \in DOMAIN na /\ na[a[u]] = o[u]
  /\ \A u \in Upvalues, i \in DOMAIN na : o[u] = na[i] => a[u] = i
  /\ \A i, j \in DOMAIN op : i < j => a[op[i]] > a[op[j]]

\* What makes a stack sound.
LEMMA SoundStack ==
  ASSUME NEW sl, NEW na, NEW op, NEW a, NEW o, WellMade(sl, na, op, a, o)
  PROVE  Sound(StackOf(sl, na, op, a), o)
<1> USE DEF WellMade
<1> DEFINE U == {u \in ToSet(op) : a[u] # 0}
           f == [u \in U |-> a[u]]
           s == [slots |-> sl, names |-> na, open |-> op, suspended |-> f]
<1>1. U = ToSet(op) /\ U \subseteq Upvalues
  OBVIOUS
<1>2. f \in [U -> Nat] /\ DOMAIN f = U /\ \A u \in U : f[u] = a[u]
  BY <1>1
<1>3. s.slots = sl /\ s.names = na /\ s.open = op /\ s.suspended = f
  OBVIOUS
<1>4. \A i \in DOMAIN na : i # 0
  BY LenProperties
<1> HIDE DEF U, f
<1>5. s \in Stack
  <2>2. sl \in Seq(Vals) /\ na \in Seq(Vars) /\ op \in Seq(Upvalues)
    OBVIOUS
  <2> HIDE DEF WellMade, s
  <2>1. f \in UNION {[V -> Nat] : V \in SUBSET Upvalues}
    <3>1. U \in SUBSET Upvalues /\ f \in [U -> Nat]
      BY <1>1, <1>2
    <3>2. [U -> Nat] \in {[V -> Nat] : V \in SUBSET Upvalues}
      BY <3>1
    <3> QED BY <3>1, <3>2
  <2> USE DEF s
  <2> QED BY <2>1, <2>2 DEF Stack
<1> HIDE DEF s
<1>6. Fits(s, o)
  BY <1>1, <1>2, <1>3 DEF Fits, U
<1>7. Bound(s, o)
  <2> SUFFICES ASSUME NEW u \in Upvalues, NEW i \in DOMAIN na, o[u] = na[i]
               PROVE  u \in U /\ a[u] = i
    BY <1>2, <1>3 DEF Bound
  <2>1. a[u] = i /\ i # 0
    BY <1>4
  <2>2. u \in ToSet(op)
    BY <2>1
  <2> QED BY <2>1, <2>2 DEF U
<1>8. Ordered(s)
  <2>1. \A i \in DOMAIN op : op[i] \in U
    BY <1>1 DEF ToSet
  <2> QED BY <1>1, <1>2, <1>3, <2>1 DEF Ordered
<1>9. Sound(s, o)
  BY <1>3, <1>5, <1>6, <1>7, <1>8 DEF Sound
<1> QED BY <1>9 DEF s, f, U, StackOf

\* The running stack after a step is sound if it is well made.
LEMMA SoundNext ==
  ASSUME WellMade(slots', names', open', at', of')
  PROVE  Sound(PutAway', of')
<1>1. Sound(StackOf(slots', names', open', at'), of')
  BY SoundStack
<1> QED BY <1>1 DEF PutAway, Suspending, OpenNow, StackOf

\* A step that leaves the other stacks alone.
LEMMA Local ==
  ASSUME IInv, UNCHANGED <<arena, saved, current>>, Typed', Kept',
         Sound(PutAway', of'), \A p \in Places \ {Run} : Sound(Family[p], of'),
         \A i \in DOMAIN names', p \in Places \ {Run} : \A j \in DOMAIN Family[p].names :
           names'[i] # Family[p].names[j],
         \A i, j \in DOMAIN names' : names'[i] = names'[j] => i = j
  PROVE  IInv'
<1>1. /\ Places' = Places /\ DOMAIN Family' = Places
      /\ Family'[Run] = PutAway' /\ \A p \in Places \ {Run} : Family'[p] = Family[p]
  BY FamilyStays
<1>2. PutAway'.names = names'
  BY DEF PutAway
<1>3. \A p \in Places' : Sound(Family'[p], of')
  BY <1>1
<1>4. Apart(Family')
  <2> SUFFICES ASSUME NEW p \in Places, NEW q \in Places,
                      NEW i \in DOMAIN Family'[p].names, NEW j \in DOMAIN Family'[q].names,
                      Family'[p].names[i] = Family'[q].names[j]
               PROVE  p = q /\ i = j
    BY <1>1 DEF Apart
  <2>1. CASE p = Run /\ q = Run
    BY <1>1, <1>2, <2>1
  <2>2. CASE p = Run /\ q # Run
    BY <1>1, <1>2, <2>2
  <2>3. CASE p # Run /\ q = Run
    BY <1>1, <1>2, <2>3
  <2>4. CASE p # Run /\ q # Run
    BY <1>1, <2>4, FamilyIs DEF IInv, Apart
  <2> QED BY <2>1, <2>2, <2>3, <2>4
<1>5. Lined'
  BY DEF IInv, Lined
<1> QED BY <1>1, <1>3, <1>4, <1>5 DEF IInv

\* What the other stacks have to do with the running one.
LEMMA OthersApart ==
  ASSUME IInv
  PROVE  /\ \A p \in Places \ {Run} : Sound(Family[p], of)
         /\ \A i \in DOMAIN names, p \in Places \ {Run} : \A j \in DOMAIN Family[p].names :
              names[i] # Family[p].names[j]
<1>1. \A p \in Places : Sound(Family[p], of)
  BY DEF IInv
<1>2. DOMAIN Family = Places /\ Run \in Places /\ Family[Run].names = names
  BY FamilyIs DEF PutAway
<1> QED BY <1>1, <1>2 DEF IInv, Apart

\* Writing a local variable.
LEMMA SetLocalStep ==
  ASSUME IInv, NEW i \in 1 .. MaxSlots, NEW v \in Vals, SetLocal(i, v)
  PROVE  IInv'
<1>1. /\ i \in DOMAIN slots /\ slots' = [slots EXCEPT ![i] = v]
      /\ UNCHANGED <<names, open, at, own, of, arena, saved, current>>
  BY DEF SetLocal
<1>2. slots' \in Seq(Vals) /\ Len(slots') = Len(slots)
  BY <1>1, RunIs, ExceptSeq
<1>3. Typed' /\ Kept'
  BY <1>1 DEF IInv, Typed, Kept
<1>4. Sound(PutAway', of')
  <2>1. WellMade(slots', names', open', at', of')
    BY <1>1, <1>2, <1>3, RunIs DEF Typed, WellMade
  <2> QED BY <2>1, SoundNext
<1> QED BY <1>1, <1>3, <1>4, RunIs, OthersApart, Local

\* Writing an upvalue, open or closed.
LEMMA SetUpvalStep ==
  ASSUME IInv, NEW w \in Upvalues, NEW v \in Vals, SetUpval(w, v)
  PROVE  IInv'
<1>1. UNCHANGED <<names, open, at, of, arena, saved, current>>
  BY DEF SetUpval
<1>2. slots' \in Seq(Vals) /\ Len(slots') = Len(slots)
  <2>1. CASE at[w] # 0
    <3>1. slots' = [slots EXCEPT ![at[w]] = v] /\ slots \in Seq(Vals) /\ at[w] \in 1 .. Len(slots)
      BY <2>1, RunIs DEF SetUpval, SetUpvalue
    <3> QED BY <3>1, ExceptSeq
  <2>2. CASE at[w] = 0
    BY <2>2, RunIs DEF SetUpval, SetUpvalue
  <2> QED BY <2>1, <2>2
<1>3. /\ own' \in [Upvalues -> Vals \union {None}]
      /\ \A u \in Upvalues : own'[u] = None <=> own[u] = None
  <2>1. own \in [Upvalues -> Vals \union {None}]
    BY DEF IInv, Typed
  <2>2. CASE at[w] # 0
    BY <2>1, <2>2 DEF SetUpval, SetUpvalue
  <2>3. CASE at[w] = 0
    <3>1. own[w] # None /\ own' = [own EXCEPT ![w] = v] /\ v # None
      BY <2>3, CoroutineAssumption DEF SetUpval, SetUpvalue
    <3> QED BY <2>1, <3>1
  <2> QED BY <2>2, <2>3
<1>4. Typed' /\ Kept'
  BY <1>1, <1>3 DEF IInv, Typed, Kept
<1>5. Sound(PutAway', of')
  <2>1. WellMade(slots', names', open', at', of')
    BY <1>1, <1>2, <1>4, RunIs DEF Typed, WellMade
  <2> QED BY <2>1, SoundNext
<1> QED BY <1>1, <1>4, <1>5, RunIs, OthersApart, Local

\* A variable that is nowhere is declared.
LEMMA DeclareStep ==
  ASSUME IInv, NEW x \in Vars, NEW v \in Vals, Declare(x, v)
  PROVE  IInv'
<1>1. /\ x \notin Used /\ Len(slots) < MaxSlots
      /\ slots' = Append(slots, v) /\ names' = Append(names, x)
      /\ UNCHANGED <<open, at, own, of, arena, saved, current>>
  BY DEF Declare
<1>2. /\ slots' \in Seq(Vals) /\ Len(slots') = Len(slots) + 1
      /\ names' \in Seq(Vars) /\ Len(names') = Len(slots) + 1
      /\ DOMAIN names' = 1 .. Len(slots) + 1
      /\ names'[Len(slots) + 1] = x /\ \A i \in 1 .. Len(slots) : names'[i] = names[i]
  BY <1>1, RunIs, AppendProperties
<1>3. /\ \A i \in DOMAIN names : names[i] # x
      /\ \A u \in Upvalues : of[u] # x
      /\ \A p \in Places \ {Run} : \A j \in DOMAIN Family[p].names : Family[p].names[j] # x
  <2>1. \A i \in DOMAIN names : names[i] # x
    BY <1>1 DEF Used, ToSet
  <2>2. \A u \in Upvalues : of[u] # x
    BY <1>1 DEF Used
  <2>3. \A k \in DOMAIN saved : \A j \in DOMAIN saved[k].stack.names : saved[k].stack.names[j] # x
    <3>1. \A k \in DOMAIN saved : x \notin ToSet(saved[k].stack.names)
      BY <1>1 DEF Used
    <3> QED BY <3>1 DEF ToSet
  <2>4. \A t \in Threads : \A j \in DOMAIN arena[t].stack.names : arena[t].stack.names[j] # x
    <3>1. \A t \in Threads : x \notin ToSet(arena[t].stack.names)
      BY <1>1 DEF Used
    <3> QED BY <3>1 DEF ToSet
  <2>5. ASSUME NEW p \in Places \ {Run}, NEW j \in DOMAIN Family[p].names
        PROVE  Family[p].names[j] # x
    BY <2>3, <2>4, PlaceIs
  <2> QED BY <2>1, <2>2, <2>5
<1>4. Typed' /\ Kept'
  BY <1>1 DEF IInv, Typed, Kept
<1>5. WellMade(slots', names', open', at', of')
  <2>1. \A u \in Upvalues : at[u] # 0 => at[u] \in DOMAIN names' /\ names'[at[u]] = of[u]
    BY <1>2, RunIs
  <2>2. \A u \in Upvalues, i \in DOMAIN names' : of[u] = names'[i] => at[u] = i
    BY <1>2, <1>3, RunIs, SMTT(60)
  <2>3. at \in [Upvalues -> Nat]
    BY DEF IInv, Typed
  <2>4. Len(names') = Len(slots') /\ Len(slots') <= MaxSlots
    BY <1>1, <1>2, RunIs, CoroutineAssumption
  <2>5. /\ open \in Seq(Upvalues) /\ ToSet(open) = {u \in Upvalues : at[u] # 0}
        /\ \A i, j \in DOMAIN open : i < j => at[open[i]] > at[open[j]]
    BY RunIs
  <2> QED BY <1>1, <1>2, <2>1, <2>2, <2>3, <2>4, <2>5 DEF WellMade
<1>6. Sound(PutAway', of')
  BY <1>5, SoundNext
<1>7. \A i, j \in DOMAIN names' : names'[i] = names'[j] => i = j
  BY <1>2, <1>3, RunIs
<1>8. \A i \in DOMAIN names', p \in Places \ {Run} : \A j \in DOMAIN Family[p].names :
        names'[i] # Family[p].names[j]
  <2> SUFFICES ASSUME NEW i \in DOMAIN names', NEW p \in Places \ {Run},
                      NEW j \in DOMAIN Family[p].names
               PROVE  names'[i] # Family[p].names[j]
    OBVIOUS
  <2>1. CASE i = Len(slots) + 1
    BY <1>2, <1>3, <2>1
  <2>2. CASE i # Len(slots) + 1
    BY <1>2, <2>2, RunIs, OthersApart
  <2> QED BY <2>1, <2>2
<1> QED BY <1>1, <1>4, <1>6, <1>7, <1>8, OthersApart, Local

(***************************************************************************)
(* A list with one more member, after the first m.                         *)
(***************************************************************************)
Inserts(S, s, m, u, t) ==
  /\ t \in Seq(S) /\ Len(t) = Len(s) + 1 /\ DOMAIN t = 1 .. Len(s) + 1
  /\ \A k \in 1 .. Len(s) + 1 :
       t[k] = IF k <= m THEN s[k] ELSE IF k = m + 1 THEN u ELSE s[k - 1]

\* InsertAt makes such a list.
LEMMA InsertAtIs ==
  ASSUME NEW S, NEW s \in Seq(S), NEW u \in S, NEW m \in 0 .. Len(s)
  PROVE  Inserts(S, s, m, u, InsertAt(s, m + 1, u))
<1> DEFINE a == SubSeq(s, 1, m)
           b == a \o <<u>>
           c == SubSeq(s, m + 1, Len(s))
           t == InsertAt(s, m + 1, u)
<1>0. (m + 1) - 1 = m /\ m \in Nat /\ Len(s) \in Nat /\ \A k \in 1 .. Len(s) : s[k] \in S
  BY ElementOfSeq, LenProperties
<1>1. t = b \o c
  BY <1>0 DEF InsertAt
<1>2. a \in Seq(S) /\ Len(a) = m /\ \A k \in 1 .. m : a[k] = s[k]
  <2>1. \A k \in 1 .. m : s[k] \in S
    BY <1>0
  <2>2. /\ a \in Seq(S) /\ Len(a) = IF 1 <= m THEN m - 1 + 1 ELSE 0
        /\ \A k \in 1 .. m - 1 + 1 : a[k] = s[1 + k - 1]
    BY <1>0, <2>1, SubSeqProperties
  <2> QED BY <1>0, <2>2
<1>3. c \in Seq(S) /\ Len(c) = Len(s) - m /\ \A k \in 1 .. Len(s) - m : c[k] = s[m + k]
  <2>1. \A k \in m + 1 .. Len(s) : s[k] \in S
    BY <1>0
  <2>2. /\ c \in Seq(S) /\ Len(c) = IF m + 1 <= Len(s) THEN Len(s) - (m + 1) + 1 ELSE 0
        /\ \A k \in 1 .. Len(s) - (m + 1) + 1 : c[k] = s[m + 1 + k - 1]
    BY <1>0, <2>1, SubSeqProperties
  <2> QED BY <1>0, <2>2
<1>4. <<u>> \in Seq(S) /\ Len(<<u>>) = 1 /\ <<u>>[1] = u
  OBVIOUS
<1> HIDE DEF a, c
<1>5. b \in Seq(S) /\ Len(b) = m + 1 /\ \A k \in 1 .. m + 1 : b[k] = IF k <= m THEN s[k] ELSE u
  BY <1>2, <1>4, ConcatProperties
<1> HIDE DEF b
<1>6. /\ b \o c \in Seq(S) /\ Len(b \o c) = Len(b) + Len(c)
      /\ \A k \in 1 .. Len(b) + Len(c) : (b \o c)[k] = IF k <= Len(b) THEN b[k] ELSE c[k - Len(b)]
  BY <1>3, <1>5, ConcatProperties
<1>7. Len(t) = Len(s) + 1 /\ t \in Seq(S)
  <2>1. Len(b) + Len(c) = Len(s) + 1
    BY <1>0, <1>3, <1>5
  <2>2. t \in Seq(S)
    BY <1>1, <1>6, Zenon
  <2>3. Len(t) = Len(b) + Len(c)
    BY <1>1, <1>6, Zenon
  <2> HIDE DEF t
  <2> QED BY <2>1, <2>2, <2>3
<1>8. ASSUME NEW k \in 1 .. Len(s) + 1
      PROVE  t[k] = IF k <= m THEN s[k] ELSE IF k = m + 1 THEN u ELSE s[k - 1]
  <2>0. t[k] = IF k <= m + 1 THEN b[k] ELSE c[k - (m + 1)]
    <3>1. Len(b) + Len(c) = Len(s) + 1
      BY <1>0, <1>3, <1>5
    <3> QED BY <1>1, <1>5, <1>6, <3>1
  <2>1. CASE k <= m + 1
    BY <1>0, <1>5, <2>0, <2>1
  <2>2. CASE k > m + 1
    <3>1. k - (m + 1) \in 1 .. Len(s) - m /\ m + (k - (m + 1)) = k - 1
      BY <1>0, <2>2
    <3>2. t[k] = c[k - (m + 1)]
      BY <1>0, <2>0, <2>2
    <3> QED BY <1>0, <1>3, <2>2, <3>1, <3>2, SMTT(60)
  <2> QED BY <1>0, <2>1, <2>2
<1>9. DOMAIN t = 1 .. Len(s) + 1
  BY <1>7, LenProperties
<1> HIDE DEF t
<1>10. Inserts(S, s, m, u, t)
  BY <1>7, <1>8, <1>9 DEF Inserts
<1> QED BY <1>10 DEF t

\* Nothing happens.
LEMMA Unchanged ==
  ASSUME IInv, UNCHANGED vars
  PROVE  IInv'
<1>1. UNCHANGED <<slots, names, open, at, own, of, arena, saved, current>>
  BY DEF vars, stackVars
<1>2. Typed' /\ Kept' /\ WellMade(slots', names', open', at', of')
  BY <1>1, RunIs DEF IInv, Typed, Kept, WellMade
<1> QED BY <1>1, <1>2, RunIs, OthersApart, SoundNext, Local

\* A function that captures a variable: its upvalue is found, or made in its place.
LEMMA FindUpvalueStep ==
  ASSUME IInv, NEW i \in 1 .. MaxSlots, FindUpvalue(i)
  PROVE  IInv'
<1>1. CASE UNCHANGED vars
  BY <1>1, Unchanged
<1>2. CASE Found(i) = {}
  <2>1. i \in DOMAIN slots /\ i \in Nat \ {0}
    BY DEF FindUpvalue
  <2>2. PICK u \in Upvalues :
          /\ at[u] = 0 /\ own[u] = None
          /\ at' = [at EXCEPT ![u] = i] /\ of' = [of EXCEPT ![u] = names[i]]
          /\ open' = Insert(u, i)
          /\ UNCHANGED <<slots, names, own, arena, saved, current>>
    BY <1>2 DEF FindUpvalue
  <2>3. /\ at \in [Upvalues -> Nat] /\ of \in [Upvalues -> Vars \union {None}]
        /\ open \in Seq(Upvalues) /\ Len(open) \in Nat /\ DOMAIN open = 1 .. Len(open)
    BY RunIs, LenProperties DEF IInv, Typed
  <2>4. names[i] \in Vars /\ names[i] # None /\ i \in DOMAIN names
    BY <2>1, RunIs, ElementOfSeq, CoroutineAssumption
  <2>5. PICK m \in 0 .. Len(open) :
          /\ Leading(i) = 1 .. m /\ Cardinality(Leading(i)) = m
          /\ \A k \in DOMAIN open : k <= m <=> at[open[k]] >= i
    BY <2>1, <2>3, RunIs, Leads
  <2>6. ASSUME NEW k \in DOMAIN open PROVE at[open[k]] # i
    <3> SUFFICES ASSUME at[open[k]] = i PROVE FALSE
      OBVIOUS
    <3>1. at[open[k]] >= i
      BY <2>1
    <3>2. k \in Leading(i)
      BY <2>3, <2>5, <3>1
    <3> QED BY <1>2, <3>2 DEF Found
  <2>7. \A w \in Upvalues : at[w] # i
    <3>1. \A w \in Upvalues : at[w] # 0 => \E k \in DOMAIN open : open[k] = w
      BY RunIs DEF ToSet
    <3> QED BY <2>1, <2>6, <3>1
  <2>8. \A w \in Upvalues : of[w] # names[i]
    BY <2>4, <2>7, RunIs
  <2>9. of[u] = None
    BY <2>2 DEF IInv, Kept
  <2>10. /\ open' \in Seq(Upvalues) /\ Len(open') = Len(open) + 1
         /\ DOMAIN open' = 1 .. Len(open) + 1
         /\ \A k \in 1 .. Len(open) + 1 :
              open'[k] = IF k <= m THEN open[k] ELSE IF k = m + 1 THEN u ELSE open[k - 1]
    <3>1. open' = InsertAt(open, m + 1, u)
      BY <2>2, <2>5 DEF Insert
    <3>2. open \in Seq(Upvalues) /\ u \in Upvalues /\ m \in 0 .. Len(open)
      BY <2>3
    <3>3. Inserts(Upvalues, open, m, u, open')
      BY <3>1, <3>2, InsertAtIs, Zenon
    <3> QED BY <3>3 DEF Inserts
  <2>11. ToSet(open') = {w \in Upvalues : at'[w] # 0}
    <3>1. ASSUME NEW w \in ToSet(open') PROVE w \in Upvalues /\ at'[w] # 0
      <4>1. PICK k \in 1 .. Len(open) + 1 : open'[k] = w
        BY <2>10 DEF ToSet
      <4>2. w = u \/ \E l \in DOMAIN open : w = open[l]
        <5>1. CASE k <= m
          <6>1. k \in DOMAIN open /\ open'[k] = open[k]
            BY <2>3, <2>10, <5>1
          <6> QED BY <4>1, <6>1
        <5>2. CASE k = m + 1
          BY <2>3, <2>10, <4>1, <5>2
        <5>3. CASE k > m + 1
          <6>1. k - 1 \in DOMAIN open /\ open'[k] = open[k - 1]
            BY <2>3, <2>10, <5>3
          <6> QED BY <4>1, <6>1
        <5> QED BY <2>3, <5>1, <5>2, <5>3
      <4>3. w = u \/ w \in {y \in Upvalues : at[y] # 0}
        BY <4>2, RunIs DEF ToSet
      <4> QED BY <2>1, <2>2, <2>3, <4>3
    <3>2. ASSUME NEW w \in Upvalues, at'[w] # 0 PROVE w \in ToSet(open')
      <4>1. CASE w = u
        <5>1. open'[m + 1] = u /\ m + 1 \in DOMAIN open'
          BY <2>3, <2>10
        <5> QED BY <4>1, <5>1 DEF ToSet
      <4>2. CASE w # u
        <5>1. PICK l \in DOMAIN open : w = open[l]
          BY <2>2, <2>3, <3>2, <4>2, RunIs DEF ToSet
        <5>2. CASE l <= m
          <6>1. open'[l] = w /\ l \in DOMAIN open'
            BY <2>3, <2>10, <5>1, <5>2
          <6> QED BY <6>1 DEF ToSet
        <5>3. CASE l > m
          <6>1. open'[l + 1] = w /\ l + 1 \in DOMAIN open'
            BY <2>3, <2>10, <5>1, <5>3
          <6> QED BY <6>1 DEF ToSet
        <5> QED BY <2>3, <5>2, <5>3
      <4> QED BY <4>1, <4>2
    <3> QED BY <3>1, <3>2
  <2>12. \A j, k \in DOMAIN open' : j < k => at'[open'[j]] > at'[open'[k]]
    <3> SUFFICES ASSUME NEW j \in DOMAIN open', NEW k \in DOMAIN open', j < k
                 PROVE  at'[open'[j]] > at'[open'[k]]
      OBVIOUS
    <3> DEFINE old(l) == IF l <= m THEN l ELSE l - 1
    <3>1. \A l \in DOMAIN open : /\ open[l] \in Upvalues /\ open[l] # u /\ at[open[l]] \in Nat
                                 /\ at'[open[l]] = at[open[l]]
      <4>1. \A l \in DOMAIN open : open[l] \in Upvalues /\ at[open[l]] # 0
        BY RunIs DEF ToSet
      <4> QED BY <2>2, <2>3, <4>1
    <3>2. at'[u] = i
      BY <2>2, <2>3
    <3>3. CASE j # m + 1 /\ k # m + 1
      <4>1. /\ old(j) \in DOMAIN open /\ old(k) \in DOMAIN open /\ old(j) < old(k)
            /\ open'[j] = open[old(j)] /\ open'[k] = open[old(k)]
        <5>1. j \in 1 .. Len(open) + 1 /\ k \in 1 .. Len(open) + 1
          BY <2>10
        <5>2. \A l \in 1 .. Len(open) + 1 : l # m + 1 => /\ old(l) \in DOMAIN open
                                                          /\ open'[l] = open[old(l)]
          BY <2>3, <2>10, SMTT(60)
        <5>3. old(j) < old(k)
          BY <2>3, <3>3, <5>1
        <5> HIDE DEF old
        <5> QED BY <3>3, <5>1, <5>2, <5>3
      <4> HIDE DEF old
      <4> QED BY <3>1, <4>1, RunIs
    <3>4. CASE j = m + 1
      <4>1. k - 1 \in DOMAIN open /\ open'[k] = open[k - 1] /\ open'[j] = u /\ ~ (k - 1 <= m)
        BY <2>3, <2>10, <3>4, SMTT(60)
      <4> QED BY <2>1, <2>5, <3>1, <3>2, <4>1
    <3>5. CASE k = m + 1
      <4>1. j \in DOMAIN open /\ open'[j] = open[j] /\ open'[k] = u /\ j <= m
        BY <2>3, <2>10, <3>5
      <4> QED BY <2>1, <2>5, <2>6, <3>1, <3>2, <4>1
    <3> QED BY <3>3, <3>4, <3>5
  <2>13. Typed'
    BY <2>1, <2>2, <2>3, <2>4 DEF IInv, Typed
  <2>14. Kept'
    <3>1. u \in ToSet(open')
      BY <2>1, <2>2, <2>3, <2>11
    <3>2. \A w \in Upvalues \ {u} : at'[w] = at[w] /\ of'[w] = of[w] /\ own'[w] = own[w]
      BY <2>2, <2>3
    <3>3. \A w \in Upvalues : /\ at'[w] # 0 => w \in ToSet(open') /\ own'[w] = None
                              /\ of'[w] = None <=> at'[w] = 0 /\ own'[w] = None
      <4> SUFFICES ASSUME NEW w \in Upvalues
                   PROVE  /\ at'[w] # 0 => w \in ToSet(open') /\ own'[w] = None
                          /\ of'[w] = None <=> at'[w] = 0 /\ own'[w] = None
        OBVIOUS
      <4>1. at'[w] # 0 => w \in ToSet(open')
        BY <2>11
      <4>2. CASE w = u
        BY <2>1, <2>2, <2>3, <2>4, <4>1, <4>2
      <4>3. CASE w # u
        BY <3>2, <4>1, <4>3 DEF IInv, Kept
      <4> QED BY <4>2, <4>3
    <3>4. of'[u] = names[i]
      BY <2>2, <2>3
    <3>5. \A w, y \in Upvalues : of'[w] = of'[y] /\ of'[w] # None => w = y
      BY <2>8, <3>2, <3>4 DEF IInv, Kept
    <3> QED BY <3>3, <3>5 DEF Kept
  <2>15. WellMade(slots', names', open', at', of')
    <3>1. \A w \in Upvalues : at'[w] # 0 => at'[w] \in DOMAIN names' /\ names'[at'[w]] = of'[w]
      BY <2>2, <2>3, <2>4, RunIs
    <3>2. \A w \in Upvalues, j \in DOMAIN names' : of'[w] = names'[j] => at'[w] = j
      BY <2>2, <2>3, <2>4, RunIs
    <3> QED BY <2>2, <2>10, <2>11, <2>12, <2>13, <3>1, <3>2, RunIs DEF WellMade, Typed
  <2>16. Sound(PutAway', of')
    BY <2>15, SoundNext
  <2>17. ASSUME NEW p \in Places \ {Run} PROVE Sound(Family[p], of')
    <3> DEFINE s == Family[p]
    <3>1. Sound(s, of) /\ \A j \in DOMAIN s.names : s.names[j] # names[i]
      BY <2>4, OthersApart
    <3>2. s.suspended \in UNION {[U -> Nat] : U \in SUBSET Upvalues} /\ s.names \in Seq(Vars)
      BY <3>1 DEF Sound, Stack
    <3>3. u \notin DOMAIN s.suspended
      <4>1. \A j \in DOMAIN s.names : s.names[j] # None
        BY <3>2, LenProperties, ElementOfSeq, CoroutineAssumption
      <4> QED BY <2>9, <3>1, <4>1 DEF Sound, Fits
    <3>4. Fits(s, of')
      <4>1. \A w \in DOMAIN s.suspended : of'[w] = of[w]
        BY <2>2, <2>3, <3>2, <3>3
      <4> QED BY <3>1, <4>1 DEF Sound, Fits
    <3>5. Bound(s, of')
      <4>1. \A w \in Upvalues : w # u => of'[w] = of[w]
        BY <2>2, <2>3
      <4>2. of'[u] = names[i]
        BY <2>2, <2>3
      <4> QED BY <3>1, <4>1, <4>2 DEF Sound, Bound
    <3> QED BY <3>1, <3>4, <3>5 DEF Sound
  <2>18. \A j \in DOMAIN names', p \in Places \ {Run} : \A k \in DOMAIN Family[p].names :
           names'[j] # Family[p].names[k]
    BY <2>2, OthersApart
  <2>19. \A j, k \in DOMAIN names' : names'[j] = names'[k] => j = k
    BY <2>2, RunIs
  <2> QED BY <2>2, <2>13, <2>14, <2>16, <2>17, <2>18, <2>19, Local
<1> QED BY <1>1, <1>2 DEF FindUpvalue

\* The members of a list before a place.
LEMMA Before ==
  ASSUME NEW S, NEW s \in Seq(S), NEW n \in 1 .. Len(s)
  PROVE  /\ SubSeq(s, 1, n - 1) \in Seq(S) /\ Len(SubSeq(s, 1, n - 1)) = n - 1
         /\ DOMAIN SubSeq(s, 1, n - 1) = 1 .. n - 1
         /\ \A k \in 1 .. n - 1 : SubSeq(s, 1, n - 1)[k] = s[k]
<1>1. Len(s) \in Nat /\ n \in Nat \ {0} /\ n <= Len(s)
  BY LenProperties
<1>2. \A k \in 1 .. n - 1 : s[k] \in S
  BY <1>1, ElementOfSeq
<1>3. 1 \in Nat \ {0} /\ n - 1 \in Nat
  BY <1>1
<1>4. /\ SubSeq(s, 1, n - 1) \in Seq(S)
      /\ Len(SubSeq(s, 1, n - 1)) = IF 1 <= n - 1 THEN n - 1 - 1 + 1 ELSE 0
      /\ \A k \in 1 .. n - 1 - 1 + 1 : SubSeq(s, 1, n - 1)[k] = s[1 + k - 1]
  BY <1>2, <1>3, SubSeqProperties
<1>5. Len(SubSeq(s, 1, n - 1)) = n - 1
  BY <1>1, <1>4
<1>6. \A k \in 1 .. n - 1 : SubSeq(s, 1, n - 1)[k] = s[k]
  BY <1>1, <1>4
<1>7. DOMAIN SubSeq(s, 1, n - 1) = 1 .. n - 1
  BY <1>4, <1>5, LenProperties
<1> QED BY <1>4, <1>5, <1>6, <1>7

\* The members of a list after a place.
LEMMA After ==
  ASSUME NEW S, NEW s \in Seq(S), NEW m \in 0 .. Len(s)
  PROVE  /\ SubSeq(s, m + 1, Len(s)) \in Seq(S) /\ Len(SubSeq(s, m + 1, Len(s))) = Len(s) - m
         /\ DOMAIN SubSeq(s, m + 1, Len(s)) = 1 .. Len(s) - m
         /\ \A k \in 1 .. Len(s) - m : SubSeq(s, m + 1, Len(s))[k] = s[m + k]
<1> DEFINE c == SubSeq(s, m + 1, Len(s))
<1>1. Len(s) \in Nat /\ m \in Nat /\ m <= Len(s)
  BY LenProperties
<1>2. \A k \in m + 1 .. Len(s) : s[k] \in S
  BY <1>1, ElementOfSeq
<1>3. /\ c \in Seq(S) /\ Len(c) = IF m + 1 <= Len(s) THEN Len(s) - (m + 1) + 1 ELSE 0
      /\ \A k \in 1 .. Len(s) - (m + 1) + 1 : c[k] = s[m + 1 + k - 1]
  BY <1>1, <1>2, SubSeqProperties
<1> HIDE DEF c
<1>4. Len(c) = Len(s) - m
  BY <1>1, <1>3
<1>5. \A k \in 1 .. Len(s) - m : c[k] = s[m + k]
  BY <1>1, <1>3
<1>6. DOMAIN c = 1 .. Len(s) - m
  BY <1>3, <1>4, LenProperties
<1> QED BY <1>3, <1>4, <1>5, <1>6 DEF c

\* What close_upvalues closes: the open upvalues from a level up.
LEMMA ClosedAre ==
  ASSUME IInv, NEW level \in Nat \ {0}
  PROVE  \E m \in 0 .. Len(open) :
           /\ Leading(level) = 1 .. m /\ Cardinality(Leading(level)) = m
           /\ \A k \in DOMAIN open : k <= m <=> at[open[k]] >= level
           /\ CloseFrom(level) = {u \in Upvalues : at[u] >= level}
<1>1. /\ at \in [Upvalues -> Nat] /\ open \in Seq(Upvalues)
      /\ Len(open) \in Nat /\ DOMAIN open = 1 .. Len(open)
  BY RunIs, LenProperties DEF IInv, Typed
<1>2. PICK m \in 0 .. Len(open) :
        /\ Leading(level) = 1 .. m /\ Cardinality(Leading(level)) = m
        /\ \A k \in DOMAIN open : k <= m <=> at[open[k]] >= level
  BY <1>1, RunIs, Leads
<1>3. ASSUME NEW u \in CloseFrom(level) PROVE u \in Upvalues /\ at[u] >= level
  <2>1. PICK k \in Leading(level) : u = open[k]
    BY <1>3 DEF CloseFrom
  <2>2. k \in DOMAIN open /\ k <= m
    BY <1>1, <1>2
  <2> QED BY <1>1, <1>2, <2>1, <2>2, ElementOfSeq
<1>4. ASSUME NEW u \in Upvalues, at[u] >= level PROVE u \in CloseFrom(level)
  <2>1. PICK k \in DOMAIN open : u = open[k]
    <3>1. at[u] # 0
      BY <1>1, <1>4
    <3> QED BY <3>1, RunIs DEF ToSet
  <2>2. k \in Leading(level)
    BY <1>1, <1>2, <1>4, <2>1
  <2> QED BY <2>1, <2>2 DEF CloseFrom
<1>5. CloseFrom(level) = {u \in Upvalues : at[u] >= level}
  BY <1>3, <1>4
<1> QED BY <1>2, <1>5

\* A stack cut at a level, when no upvalue of a slot from there on is open.
LEMMA Cut ==
  ASSUME NEW level, IInv, level \in DOMAIN slots,
         slots' = SubSeq(slots, 1, level - 1), names' = SubSeq(names, 1, level - 1),
         UNCHANGED <<of, arena, saved, current>>, Typed', Kept',
         \A u \in Upvalues : at'[u] = IF at[u] >= level THEN 0 ELSE at[u],
         open' \in Seq(Upvalues), ToSet(open') = {u \in Upvalues : at'[u] # 0},
         \A i, j \in DOMAIN open' : i < j => at'[open'[i]] > at'[open'[j]]
  PROVE  IInv'
<1>1. level \in 1 .. Len(slots) /\ level \in 1 .. Len(names) /\ level \in Nat
  BY RunIs
<1>2. /\ slots \in Seq(Vals) /\ names \in Seq(Vars) /\ DOMAIN names = 1 .. Len(slots)
      /\ Len(slots) \in Nat /\ Len(slots) <= MaxSlots
  BY RunIs
<1>3. /\ slots' \in Seq(Vals) /\ Len(slots') = level - 1
      /\ names' \in Seq(Vars) /\ Len(names') = level - 1 /\ DOMAIN names' = 1 .. level - 1
      /\ \A k \in 1 .. level - 1 : names'[k] = names[k]
  BY <1>1, <1>2, Before
<1>4. at' \in [Upvalues -> Nat] /\ at \in [Upvalues -> Nat]
  BY DEF IInv, Typed
<1>5. \A u \in Upvalues : at'[u] # 0 => at'[u] \in DOMAIN names' /\ names'[at'[u]] = of'[u]
  <2> SUFFICES ASSUME NEW u \in Upvalues, at'[u] # 0
               PROVE  at'[u] \in DOMAIN names' /\ names'[at'[u]] = of'[u]
    OBVIOUS
  <2>1. at[u] # 0 /\ at'[u] = at[u] /\ ~ (at[u] >= level)
    OBVIOUS
  <2>2. at[u] \in DOMAIN names /\ names[at[u]] = of[u]
    BY <2>1, RunIs
  <2>3. at[u] \in 1 .. level - 1
    BY <1>1, <1>2, <1>4, <2>1, <2>2
  <2> QED BY <1>3, <2>1, <2>2, <2>3
<1>6. \A u \in Upvalues, i \in DOMAIN names' : of'[u] = names'[i] => at'[u] = i
  <2> SUFFICES ASSUME NEW u \in Upvalues, NEW i \in DOMAIN names', of'[u] = names'[i]
               PROVE  at'[u] = i
    OBVIOUS
  <2>1. i \in 1 .. level - 1 /\ i \in DOMAIN names /\ of[u] = names[i]
    BY <1>1, <1>2, <1>3
  <2>2. at[u] = i
    BY <2>1, RunIs
  <2> QED BY <1>1, <2>1, <2>2
<1>7. Len(names') = Len(slots') /\ Len(slots') <= MaxSlots
  BY <1>1, <1>2, <1>3, CoroutineAssumption
<1>8. WellMade(slots', names', open', at', of')
  BY <1>3, <1>4, <1>5, <1>6, <1>7 DEF WellMade
<1>9. Sound(PutAway', of')
  BY <1>8, SoundNext
<1>10. \A k \in DOMAIN names' : k \in DOMAIN names /\ names'[k] = names[k]
  BY <1>1, <1>2, <1>3
<1>11. \A i, j \in DOMAIN names' : names'[i] = names'[j] => i = j
  BY <1>10, RunIs
<1>12. \A i \in DOMAIN names', p \in Places \ {Run} : \A j \in DOMAIN Family[p].names :
         names'[i] # Family[p].names[j]
  <2>1. \A i \in DOMAIN names, p \in Places \ {Run} : \A j \in DOMAIN Family[p].names :
          names[i] # Family[p].names[j]
    BY OthersApart
  <2> SUFFICES ASSUME NEW i \in DOMAIN names', NEW p \in Places \ {Run},
                      NEW j \in DOMAIN Family[p].names
               PROVE  names'[i] # Family[p].names[j]
    OBVIOUS
  <2>2. i \in DOMAIN names /\ names'[i] = names[i]
    BY <1>10
  <2> QED BY <2>1, <2>2
<1> QED BY <1>9, <1>11, <1>12, OthersApart, Local

\* A function or block leaves its variables.
LEMMA LeaveStep ==
  ASSUME IInv, NEW level \in 1 .. MaxSlots, Leave(level)
  PROVE  IInv'
<1> DEFINE U == CloseFrom(level)
<1>1. /\ level \in DOMAIN slots /\ own' = Closed(U)
      /\ at' = [u \in Upvalues |-> IF u \in U THEN 0 ELSE at[u]]
      /\ open' = SubSeq(open, Cardinality(Leading(level)) + 1, Len(open))
      /\ slots' = SubSeq(slots, 1, level - 1) /\ names' = SubSeq(names, 1, level - 1)
      /\ UNCHANGED <<of, arena, saved, current>>
  BY DEF Leave
<1>2. level \in Nat \ {0}
  BY CoroutineAssumption
<1>3. PICK m \in 0 .. Len(open) :
        /\ Leading(level) = 1 .. m /\ Cardinality(Leading(level)) = m
        /\ \A k \in DOMAIN open : k <= m <=> at[open[k]] >= level
        /\ U = {u \in Upvalues : at[u] >= level}
  BY <1>2, ClosedAre
<1>4. /\ at \in [Upvalues -> Nat] /\ own \in [Upvalues -> Vals \union {None}]
      /\ open \in Seq(Upvalues) /\ Len(open) \in Nat /\ DOMAIN open = 1 .. Len(open)
  BY RunIs, LenProperties DEF IInv, Typed
<1> HIDE DEF U
<1>5. \A u \in Upvalues : at'[u] = IF at[u] >= level THEN 0 ELSE at[u]
  BY <1>1, <1>3
<1>6. /\ open' \in Seq(Upvalues) /\ DOMAIN open' = 1 .. Len(open) - m
      /\ \A k \in 1 .. Len(open) - m : open'[k] = open[m + k]
  BY <1>1, <1>3, <1>4, After
<1>7. \A u \in U : at[u] # 0 /\ own'[u] \in Vals /\ own'[u] # None /\ of[u] # None
  <2> SUFFICES ASSUME NEW u \in U
               PROVE  at[u] # 0 /\ own'[u] \in Vals /\ own'[u] # None /\ of[u] # None
    OBVIOUS
  <2>1. u \in Upvalues /\ at[u] # 0
    BY <1>2, <1>3, <1>4
  <2>2. at[u] \in 1 .. Len(slots)
    BY <2>1, RunIs
  <2>3. slots[at[u]] \in Vals
    BY <2>2, RunIs, ElementOfSeq
  <2>4. own'[u] = slots[at[u]]
    BY <1>1, <2>1 DEF Closed
  <2> QED BY <2>1, <2>3, <2>4, CoroutineAssumption DEF IInv, Kept
<1>8. \A u \in Upvalues \ U : own'[u] = own[u] /\ at'[u] = at[u]
  BY <1>1 DEF Closed
<1>9. Typed'
  <2>1. own' \in [Upvalues -> Vals \union {None}]
    <3>1. \A u \in Upvalues : own'[u] \in Vals \union {None}
      BY <1>4, <1>7, <1>8
    <3>2. own' = [u \in Upvalues |-> own'[u]]
      BY <1>1 DEF Closed
    <3> QED BY <3>1, <3>2
  <2>2. at' \in [Upvalues -> Nat]
    BY <1>1, <1>4
  <2> QED BY <1>1, <2>1, <2>2 DEF IInv, Typed
<1>10. \A k \in 1 .. Len(open) - m :
         /\ m + k \in DOMAIN open /\ open[m + k] \in Upvalues /\ ~ (m + k <= m)
         /\ at'[open[m + k]] = at[open[m + k]] /\ at[open[m + k]] # 0
  <2> SUFFICES ASSUME NEW k \in 1 .. Len(open) - m
               PROVE  /\ m + k \in DOMAIN open /\ open[m + k] \in Upvalues /\ ~ (m + k <= m)
                      /\ at'[open[m + k]] = at[open[m + k]] /\ at[open[m + k]] # 0
    OBVIOUS
  <2>1. m + k \in DOMAIN open /\ ~ (m + k <= m)
    BY <1>4
  <2>2. open[m + k] \in Upvalues /\ at[open[m + k]] # 0
    BY <2>1, RunIs DEF ToSet
  <2>3. ~ (at[open[m + k]] >= level)
    BY <1>3, <2>1
  <2> QED BY <1>5, <2>1, <2>2, <2>3
<1>11. ToSet(open') = {u \in Upvalues : at'[u] # 0}
  <2>1. ASSUME NEW u \in ToSet(open') PROVE u \in Upvalues /\ at'[u] # 0
    <3>1. PICK k \in 1 .. Len(open) - m : u = open'[k]
      BY <1>6 DEF ToSet
    <3> QED BY <1>6, <1>10, <3>1
  <2>2. ASSUME NEW u \in Upvalues, at'[u] # 0 PROVE u \in ToSet(open')
    <3>1. at[u] # 0 /\ ~ (at[u] >= level)
      BY <1>5, <2>2
    <3>2. PICK l \in DOMAIN open : u = open[l]
      BY <3>1, RunIs DEF ToSet
    <3>3. ~ (l <= m)
      BY <1>3, <3>1, <3>2
    <3>4. l - m \in DOMAIN open' /\ open'[l - m] = u
      BY <1>4, <1>6, <3>2, <3>3
    <3> QED BY <3>4 DEF ToSet
  <2> QED BY <2>1, <2>2
<1>12. \A i, j \in DOMAIN open' : i < j => at'[open'[i]] > at'[open'[j]]
  <2> SUFFICES ASSUME NEW i \in 1 .. Len(open) - m, NEW j \in 1 .. Len(open) - m, i < j
               PROVE  at'[open'[i]] > at'[open'[j]]
    BY <1>6
  <2>1. m + i < m + j
    BY <1>4
  <2>2. at[open[m + i]] > at[open[m + j]]
    BY <1>10, <2>1, RunIs
  <2> QED BY <1>6, <1>10, <2>2
<1>13. Kept'
  <2>1. \A u \in Upvalues : /\ at'[u] # 0 => u \in ToSet(open') /\ own'[u] = None
                            /\ of'[u] = None <=> at'[u] = 0 /\ own'[u] = None
    <3> SUFFICES ASSUME NEW u \in Upvalues
                 PROVE  /\ at'[u] # 0 => u \in ToSet(open') /\ own'[u] = None
                        /\ of'[u] = None <=> at'[u] = 0 /\ own'[u] = None
      OBVIOUS
    <3>1. CASE u \in U
      BY <1>1, <1>3, <1>5, <1>7, <3>1
    <3>2. CASE u \notin U
      BY <1>1, <1>8, <1>11, <3>2 DEF IInv, Kept
    <3> QED BY <3>1, <3>2
  <2> QED BY <1>1, <2>1 DEF IInv, Kept
<1> QED BY <1>1, <1>5, <1>6, <1>9, <1>11, <1>12, <1>13, Cut

\* Frames are dropped when nothing captured is left open above them.
LEMMA AbandonStep ==
  ASSUME IInv, ~ Escapes, NEW level \in 1 .. MaxSlots, Abandon(level)
  PROVE  IInv'
<1>1. /\ level \in DOMAIN slots /\ CloseFrom(level) = {}
      /\ slots' = SubSeq(slots, 1, level - 1) /\ names' = SubSeq(names, 1, level - 1)
      /\ UNCHANGED <<open, at, own, of, arena, saved, current>>
  BY DEF Abandon
<1>2. level \in Nat \ {0}
  BY CoroutineAssumption
<1>3. \A u \in Upvalues : ~ (at[u] >= level)
  BY <1>1, <1>2, ClosedAre
<1>4. Typed' /\ Kept'
  BY <1>1 DEF IInv, Typed, Kept
<1> QED BY <1>1, <1>3, <1>4, RunIs, Cut

\* A coroutine is made.
LEMMA CreateStep ==
  ASSUME IInv, NEW t \in Threads, Create(t)
  PROVE  IInv'
<1>1. /\ arena[t].status = "Unborn" /\ arena' = [arena EXCEPT ![t].status = "Initial"]
      /\ UNCHANGED <<slots, names, open, at, own, of, saved, current>>
  BY DEF Create, stackVars
<1>2. arena \in [Threads -> [status : Statuses, stack : Stack]]
  BY DEF IInv, Typed
<1>3. /\ arena' \in [Threads -> [status : Statuses, stack : Stack]]
      /\ \A s \in Threads : arena'[s].stack = arena[s].stack
      /\ \A s \in Threads : arena'[s].status = IF s = t THEN "Initial" ELSE arena[s].status
  BY <1>1, <1>2 DEF Statuses
<1>4. Places' = Places /\ Family' = Family
  <2>1. Places' = Places
    BY <1>1 DEF Places
  <2>2. ASSUME NEW p \in Places
        PROVE  (CASE p[1] = "run" -> PutAway' [] p[1] = "saved" -> saved'[p[2]].stack
                  [] p[1] = "arena" -> arena'[p[2]].stack)
               = (CASE p[1] = "run" -> PutAway [] p[1] = "saved" -> saved[p[2]].stack
                    [] p[1] = "arena" -> arena[p[2]].stack)
    <3>1. PutAway' = PutAway
      BY <1>1 DEF PutAway, Suspending, OpenNow
    <3>2. p[1] = "run" \/ p[1] = "saved" \/ (p[1] = "arena" /\ p[2] \in Threads)
      BY DEF Places, Run
    <3> QED BY <1>1, <1>3, <3>1, <3>2
  <2> QED BY <2>1, <2>2 DEF Family
<1>5. Typed' /\ Kept'
  BY <1>1, <1>3 DEF IInv, Typed, Kept
<1>6. Lined'
  BY <1>1, <1>3 DEF IInv, Lined
<1> QED BY <1>1, <1>4, <1>5, <1>6 DEF IInv

\* A slot of a stack that is put away is written.
LEMMA SlotWritten ==
  ASSUME NEW s \in Stack, NEW i \in DOMAIN s.slots, NEW v \in Vals
  PROVE  LET r == [s EXCEPT !.slots[i] = v]
         IN  /\ r \in Stack /\ Len(r.slots) = Len(s.slots)
             /\ r.names = s.names /\ r.open = s.open /\ r.suspended = s.suspended
<1> DEFINE w == [s.slots EXCEPT ![i] = v]
<1>1. s.slots \in Seq(Vals) /\ i \in 1 .. Len(s.slots)
  BY LenProperties DEF Stack
<1>2. w \in Seq(Vals) /\ Len(w) = Len(s.slots)
  BY <1>1, ExceptSeq
<1> HIDE DEF w
<1>3. [s EXCEPT !.slots = w] \in Stack
  BY <1>2 DEF Stack
<1>4. /\ [s EXCEPT !.slots = w].slots = w /\ [s EXCEPT !.slots = w].names = s.names
      /\ [s EXCEPT !.slots = w].open = s.open /\ [s EXCEPT !.slots = w].suspended = s.suspended
  BY DEF Stack
<1>5. [s EXCEPT !.slots[i] = v] = [s EXCEPT !.slots = w]
  BY DEF w
<1> QED BY <1>2, <1>3, <1>4, <1>5

\* debug.setlocal on a coroutine that does not run.
LEMMA DebugSetLocalStep ==
  ASSUME IInv, NEW t \in Threads, NEW i \in 1 .. MaxSlots, NEW v \in Vals, DebugSetLocal(t, i, v)
  PROVE  IInv'
<1>1. /\ i \in DOMAIN arena[t].stack.slots
      /\ arena' = [arena EXCEPT ![t].stack.slots[i] = v]
      /\ UNCHANGED <<slots, names, open, at, own, of, saved, current>>
  BY DEF DebugSetLocal, stackVars
<1> DEFINE s == arena[t].stack
           r == [s EXCEPT !.slots[i] = v]
<1>2. /\ arena \in [Threads -> [status : Statuses, stack : Stack]] /\ s \in Stack
      /\ Sound(s, of)
  BY FamilyIs DEF IInv, Typed
<1>3. /\ r \in Stack /\ Len(r.slots) = Len(s.slots)
      /\ r.names = s.names /\ r.open = s.open /\ r.suspended = s.suspended
  BY <1>1, <1>2, SlotWritten
<1>4. arena' = [arena EXCEPT ![t] = [arena[t] EXCEPT !.stack = r]]
  BY <1>1, <1>2
<1> HIDE DEF r, s
<1>5. Sound(r, of)
  BY <1>2, <1>3 DEF Sound, Fits, Bound, Ordered
<1>6. /\ arena' \in [Threads -> [status : Statuses, stack : Stack]]
      /\ arena'[t].stack = r
      /\ \A q \in Threads \ {t} : arena'[q] = arena[q]
      /\ \A q \in Threads : arena'[q].status = arena[q].status
  <2>1. /\ [arena[t] EXCEPT !.stack = r] \in [status : Statuses, stack : Stack]
        /\ [arena[t] EXCEPT !.stack = r].stack = r
        /\ [arena[t] EXCEPT !.stack = r].status = arena[t].status
    BY <1>2, <1>3
  <2> QED BY <1>2, <1>4, <2>1
<1>7. PutAway' = PutAway /\ Places' = Places /\ DOMAIN Family = Places
  BY <1>1, FamilyIs DEF PutAway, Suspending, OpenNow, Places
<1>8. \A p \in Places : /\ Family'[p].names = Family[p].names
                        /\ Sound(Family'[p], of')
  <2> SUFFICES ASSUME NEW p \in Places
               PROVE  Family'[p].names = Family[p].names /\ Sound(Family'[p], of')
    OBVIOUS
  <2>0. Sound(Family[p], of)
    BY DEF IInv
  <2>1. CASE p = Run
    <3>1. Family'[p] = PutAway' /\ Family[p] = PutAway
      BY <1>7, <2>1, FamilyIs DEF Family, Run
    <3> QED BY <1>1, <1>7, <2>0, <3>1
  <2>2. ASSUME NEW k \in DOMAIN saved, p = <<"saved", k>>
        PROVE  Family'[p].names = Family[p].names /\ Sound(Family'[p], of')
    <3>1. Family[p] = saved[k].stack
      BY <2>2, FamilyIs
    <3>2. Family'[p] = saved'[k].stack
      BY <1>1, <1>7, <2>2 DEF Family
    <3> QED BY <1>1, <2>0, <3>1, <3>2
  <2>3. ASSUME NEW q \in Threads, p = <<"arena", q>>
        PROVE  Family'[p].names = Family[p].names /\ Sound(Family'[p], of')
    <3>1. Family[p] = arena[q].stack
      BY <2>3, FamilyIs
    <3>2. Family'[p] = arena'[q].stack
      BY <1>7, <2>3 DEF Family
    <3>3. CASE q = t
      BY <1>1, <1>3, <1>5, <1>6, <3>1, <3>2, <3>3 DEF s
    <3>4. CASE q # t
      BY <1>1, <1>6, <2>0, <3>1, <3>2, <3>4
    <3> QED BY <3>3, <3>4
  <2> QED BY <2>1, <2>2, <2>3, PlaceIs
<1>9. DOMAIN Family' = Places
  BY <1>7 DEF Family
<1>10. Apart(Family')
  BY <1>7, <1>8, <1>9 DEF IInv, Apart
<1>11. Typed' /\ Kept'
  BY <1>1, <1>6 DEF IInv, Typed, Kept
<1>12. Lined'
  <2>1. \A q \in Threads : arena'[q].status \in {"Unborn", "Running"} => arena'[q].stack = Blank
    <3>1. s # Blank
      BY <1>1 DEF Blank, s
    <3> QED BY <1>6, <3>1 DEF IInv, Lined, s
  <2> QED BY <1>1, <1>6, <2>1 DEF IInv, Lined
<1> QED BY <1>7, <1>8, <1>10, <1>11, <1>12 DEF IInv

-----------------------------------------------------------------------------
(***************************************************************************)
(* The swap.                                                               *)
(***************************************************************************)
\* The values that closing the open upvalues of the running stack leaves.
LEMMA HeldAre ==
  ASSUME IInv, NEW u \in Upvalues
  PROVE  /\ Closed(OpenNow)[u] \in Vals \union {None}
         /\ Closed(OpenNow)[u] = None <=> of[u] = None
         /\ u \in OpenNow <=> at[u] # 0
<1>1. u \in OpenNow <=> at[u] # 0
  BY RunIs
<1>2. own[u] \in Vals \union {None}
  BY DEF IInv, Typed
<1>3. CASE u \in OpenNow
  <2>1. at[u] \in 1 .. Len(slots)
    BY <1>1, <1>3, RunIs
  <2>2. slots[at[u]] \in Vals
    BY <2>1, RunIs, ElementOfSeq
  <2>3. Closed(OpenNow)[u] = slots[at[u]]
    BY <1>3 DEF Closed
  <2>4. of[u] # None
    BY <1>1, <1>3 DEF IInv, Kept
  <2> QED BY <1>1, <2>2, <2>3, <2>4, CoroutineAssumption
<1>4. CASE u \notin OpenNow
  <2>1. Closed(OpenNow)[u] = own[u]
    BY <1>4 DEF Closed
  <2> QED BY <1>1, <1>2, <1>4, <2>1 DEF IInv, Kept
<1> QED BY <1>3, <1>4

\* Whatever upvalues are written back, a slot has a value.
LEMMA TakenAre ==
  ASSUME NEW th \in Stack, NEW held,
         \A u \in DOMAIN th.suspended : held[u] \in Vals \union {None}
  PROVE  TakenSlots(th, held) \in Seq(Vals) /\ Len(TakenSlots(th, held)) = Len(th.slots)
<1> DEFINE there == {u \in DOMAIN th.suspended : held[u] # None}
           written == {th.suspended[u] : u \in there}
           W(i) == IF i \in written THEN held[CHOOSE u \in there : th.suspended[u] = i]
                   ELSE th.slots[i]
<1>1. th.slots \in Seq(Vals) /\ Len(th.slots) \in Nat /\ DOMAIN th.slots = 1 .. Len(th.slots)
  BY LenProperties DEF Stack
<1>2. ASSUME NEW i \in 1 .. Len(th.slots) PROVE W(i) \in Vals
  <2>1. CASE i \in written
    <3> DEFINE x == CHOOSE u \in there : th.suspended[u] = i
    <3>1. \E u \in there : th.suspended[u] = i
      BY <2>1
    <3>2. x \in there
      BY <3>1
    <3> HIDE DEF x
    <3>3. held[x] \in Vals
      BY <3>2
    <3> QED BY <2>1, <3>3 DEF x
  <2>2. CASE i \notin written
    BY <1>1, <2>2, ElementOfSeq
  <2> QED BY <2>1, <2>2
<1>3. TakenSlots(th, held) = [i \in 1 .. Len(th.slots) |-> W(i)]
  BY <1>1 DEF TakenSlots
<1> HIDE DEF W
<1>4. TakenSlots(th, held) \in [1 .. Len(th.slots) -> Vals]
  BY <1>2, <1>3
<1> QED BY <1>1, <1>4, SeqDef, LenProperties

\* A sequence has finitely many members.
LEMMA MembersFinite ==
  ASSUME NEW S, NEW s \in Seq(S)
  PROVE  IsFiniteSet(ToSet(s))
<1>1. Len(s) \in Nat /\ DOMAIN s = 1 .. Len(s)
  BY LenProperties
<1>2. 1 \in Int /\ Len(s) \in Int
  BY <1>1
<1>3. IsFiniteSet(1 .. Len(s))
  BY <1>2, FS_Interval
<1>4. s \in Surjection(1 .. Len(s), ToSet(s))
  BY <1>1, SeqDef DEF Surjection, ToSet
<1> QED BY <1>3, <1>4, FS_Surjection

\* The list of a stack that is taken back: its upvalues, the highest slot first.
LEMMA RelistedIs ==
  ASSUME NEW th, NEW o, Sound(th, o), NEW index, NEW list,
         \A u \in DOMAIN th.suspended : index[u] = th.suspended[u],
         \A u, v \in DOMAIN th.suspended : th.suspended[u] = th.suspended[v] => u = v,
         list \in Sorted(th, index) \/ list \in Relisted(th)
  PROVE  /\ list \in Seq(Upvalues) /\ ToSet(list) = DOMAIN th.suspended
         /\ \A i, j \in DOMAIN list : i < j => index[list[i]] > index[list[j]]
<1> DEFINE D == DOMAIN th.suspended
<1>1. th.open \in Seq(Upvalues) /\ ToSet(th.open) = D /\ D \subseteq Upvalues
  BY DEF Sound, Stack, Ordered
<1>2. \A u \in D : th.suspended[u] \in Nat
  BY DEF Sound, Stack
<1> HIDE DEF D
<1>3. IsFiniteSet(D)
  BY <1>1, MembersFinite
<1>4. ASSUME list \in Relisted(th) PROVE list = th.open
  <2>1. PICK rest \in SetToSeqs({}) : list = th.open \o rest
    BY <1>1, <1>4 DEF Relisted, D
  <2>2. rest \in Seq({})
    BY <2>1, FS_EmptySet, ListsAll
  <2>3. rest = <<>>
    BY <2>2
  <2> QED BY <1>1, <2>1, <2>3
<1>5. CASE list \in Relisted(th)
  <2>1. \A i \in DOMAIN list : list[i] \in D
    BY <1>1, <1>4, <1>5 DEF ToSet
  <2>2. \A i, j \in DOMAIN list : i < j => th.suspended[list[i]] > th.suspended[list[j]]
    BY <1>4, <1>5 DEF Sound, Ordered
  <2> QED BY <1>1, <1>4, <1>5, <2>1, <2>2 DEF D
<1>6. CASE list \in Sorted(th, index)
  <2>1. list \in SetToSeqs(D) /\ \A i, j \in DOMAIN list : i < j => index[list[i]] >= index[list[j]]
    <3>1. ToSet(th.open) \union DOMAIN th.suspended = D
      BY <1>1 DEF D
    <3> QED BY <1>6, <3>1 DEF Sorted
  <2>2. /\ list \in Seq(D) /\ ToSet(list) = D
        /\ \A i, j \in DOMAIN list : i # j => list[i] # list[j]
    BY <1>3, <2>1, ListsAll
  <2>3. list \in Seq(Upvalues) /\ \A i \in DOMAIN list : list[i] \in D /\ i \in Nat
    BY <1>1, <2>2, LenProperties, ElementOfSeq
  <2>4. ASSUME NEW i \in DOMAIN list, NEW j \in DOMAIN list, i < j
        PROVE  index[list[i]] > index[list[j]]
    <3>1. index[list[i]] >= index[list[j]] /\ list[i] # list[j]
      BY <2>1, <2>2, <2>3, <2>4
    <3>2. index[list[i]] # index[list[j]]
      BY <2>3, <3>1 DEF D
    <3>3. index[list[i]] \in Nat /\ index[list[j]] \in Nat
      BY <1>2, <2>3 DEF D
    <3> QED BY <3>1, <3>2, <3>3
  <2> QED BY <2>2, <2>3, <2>4 DEF D
<1> QED BY <1>5, <1>6

\* A stack that is taken back runs with its own upvalues open, and no others.
LEMMA SwapTakes ==
  ASSUME IInv, NEW th, Sound(th, of), NEW sorts \in BOOLEAN, Swap(th, sorts),
         \A i \in DOMAIN names, j \in DOMAIN th.names : names[i] # th.names[j]
  PROVE  /\ of' = of /\ names' = th.names
         /\ at' \in [Upvalues -> Nat] /\ own' \in [Upvalues -> Vals \union {None}]
         /\ Kept' /\ Sound(PutAway', of')
<1> DEFINE D == DOMAIN th.suspended
           held == Closed(OpenNow)
           index == [u \in Upvalues |-> IF u \in D THEN th.suspended[u]
                                        ELSE IF u \in OpenNow THEN 0 ELSE at[u]]
<1>1. /\ slots' = TakenSlots(th, held) /\ names' = th.names /\ at' = index
      /\ own' = [u \in Upvalues |-> IF u \in D THEN None ELSE held[u]]
      /\ open' \in Sorted(th, index) \/ open' \in Relisted(th)
      /\ of' = of
  BY DEF Swap
<1>2. /\ th \in Stack /\ D \subseteq Upvalues /\ th.names \in Seq(Vars)
      /\ \A u \in D : th.suspended[u] \in Nat
      /\ Len(th.names) = Len(th.slots) /\ Len(th.slots) <= MaxSlots
      /\ Len(th.names) \in Nat /\ DOMAIN th.names = 1 .. Len(th.names)
  BY LenProperties DEF Sound, Stack
<1>3. /\ at \in [Upvalues -> Nat] /\ of \in [Upvalues -> Vars \union {None}]
  BY DEF IInv, Typed
<1>4. \A u \in Upvalues : /\ held[u] \in Vals \union {None} /\ (held[u] = None <=> of[u] = None)
                          /\ u \in OpenNow <=> at[u] # 0
  BY HeldAre
<1> HIDE DEF held
<1>5. ASSUME NEW u \in D
      PROVE  /\ th.suspended[u] # 0 /\ th.suspended[u] \in DOMAIN th.names
             /\ th.names[th.suspended[u]] = of[u]
             /\ of[u] # None
  <2>1. th.suspended[u] \in DOMAIN th.names /\ th.names[th.suspended[u]] = of[u]
    BY DEF Sound, Fits
  <2>2. of[u] \in Vars
    BY <1>2, <2>1, ElementOfSeq
  <2> QED BY <1>2, <2>1, <2>2, CoroutineAssumption
<1>6. ASSUME NEW u \in Upvalues PROVE at'[u] = IF u \in D THEN th.suspended[u] ELSE 0
  <2>1. at'[u] = IF u \in D THEN th.suspended[u] ELSE IF u \in OpenNow THEN 0 ELSE at[u]
    BY <1>1
  <2> QED BY <1>3, <1>4, <2>1
<1>7. \A u \in D : index[u] = th.suspended[u]
  BY <1>2
<1>8. \A u, v \in D : th.suspended[u] = th.suspended[v] => u = v
  BY <1>2, <1>5 DEF IInv, Kept
<1>9. /\ open' \in Seq(Upvalues) /\ ToSet(open') = D
      /\ \A i, j \in DOMAIN open' : i < j => at'[open'[i]] > at'[open'[j]]
  <2> HIDE DEF index
  <2>1. open' \in Sorted(th, index) \/ open' \in Relisted(th)
    BY <1>1
  <2>2. /\ open' \in Seq(Upvalues) /\ ToSet(open') = D
        /\ \A i, j \in DOMAIN open' : i < j => index[open'[i]] > index[open'[j]]
    BY <1>7, <1>8, <2>1, RelistedIs
  <2> QED BY <1>1, <2>2
<1>10. at' \in [Upvalues -> Nat]
  <2>1. \A u \in Upvalues : at'[u] \in Nat
    BY <1>2, <1>6
  <2>2. at' = [u \in Upvalues |-> at'[u]]
    BY <1>1
  <2> QED BY <2>1, <2>2
<1>11. own' \in [Upvalues -> Vals \union {None}]
  BY <1>1, <1>4
<1>12. Kept'
  <2>1. ASSUME NEW u \in Upvalues
        PROVE  /\ at'[u] # 0 => u \in ToSet(open') /\ own'[u] = None
               /\ of'[u] = None <=> at'[u] = 0 /\ own'[u] = None
    BY <1>1, <1>4, <1>5, <1>6, <1>9
  <2> QED BY <1>1, <2>1 DEF IInv, Kept
<1>13. slots' \in Seq(Vals) /\ Len(slots') = Len(th.slots)
  BY <1>1, <1>2, <1>4, TakenAre
<1>14. WellMade(slots', names', open', at', of')
  <2>1. ToSet(open') = {u \in Upvalues : at'[u] # 0}
    BY <1>2, <1>5, <1>6, <1>9
  <2>2. \A u \in Upvalues : at'[u] # 0 => at'[u] \in DOMAIN names' /\ names'[at'[u]] = of'[u]
    BY <1>1, <1>5, <1>6
  <2>3. \A u \in Upvalues, i \in DOMAIN names' : of'[u] = names'[i] => at'[u] = i
    BY <1>1, <1>6 DEF Sound, Bound
  <2>4. Len(names') = Len(slots') /\ Len(slots') <= MaxSlots /\ names' \in Seq(Vars)
    BY <1>1, <1>2, <1>13
  <2> HIDE DEF D, index
  <2> QED BY <1>9, <1>10, <1>13, <2>1, <2>2, <2>3, <2>4 DEF WellMade
<1>15. Sound(PutAway', of')
  BY <1>14, SoundNext
<1> QED BY <1>1, <1>10, <1>11, <1>12, <1>15

\* An empty stack is sound.
LEMMA BlankSound ==
  ASSUME NEW o
  PROVE  Blank \in Stack /\ DOMAIN Blank.names = {} /\ Sound(Blank, o)
<1>1. /\ Blank.slots = <<>> /\ Blank.names = <<>> /\ Blank.open = <<>>
      /\ Blank.suspended = <<>>
  BY DEF Blank
<1>2. DOMAIN <<>> = {} /\ Len(<<>>) = 0 /\ ToSet(<<>>) = {}
  BY DEF ToSet
<1>3. <<>> \in UNION {[U -> Nat] : U \in SUBSET Upvalues}
  <2>1. <<>> \in [{} -> Nat]
    BY <1>2
  <2>2. [{} -> Nat] \in {[U -> Nat] : U \in SUBSET Upvalues}
    OBVIOUS
  <2> QED BY <2>1, <2>2
<1>4. Blank \in Stack
  <2>1. <<>> \in Seq(Vals) /\ <<>> \in Seq(Vars) /\ <<>> \in Seq(Upvalues)
    OBVIOUS
  <2> QED BY <1>3, <2>1 DEF Blank, Stack
<1>5. Fits(Blank, o) /\ Bound(Blank, o) /\ Ordered(Blank)
  BY <1>1, <1>2 DEF Fits, Bound, Ordered
<1> QED BY <1>1, <1>2, <1>4, <1>5, CoroutineAssumption DEF Sound

\* What puts stacks elsewhere keeps them sound and apart.
LEMMA Moved ==
  ASSUME IInv, Typed', Kept', Lined', of' = of, NEW from,
         \A p \in Places' : \/ Family'[p] = Blank
                            \/ /\ from[p] \in Places /\ Sound(Family'[p], of)
                               /\ Family'[p].names = Family[from[p]].names,
         \A p, q \in Places' : Family'[p] # Blank /\ Family'[q] # Blank
                                 /\ from[p] = from[q] => p = q
  PROVE  IInv'
<1>1. DOMAIN Family' = Places' /\ DOMAIN Family = Places
  BY DEF Family
<1>2. \A p \in Places' : Sound(Family'[p], of')
  BY BlankSound
<1>3. Apart(Family')
  <2>1. \A p \in DOMAIN Family' : \/ DOMAIN Family'[p].names = {}
                                  \/ /\ from[p] \in DOMAIN Family
                                     /\ Family'[p].names = Family[from[p]].names
    BY <1>1, BlankSound
  <2>2. \A p, q \in DOMAIN Family' :
          DOMAIN Family'[p].names # {} /\ DOMAIN Family'[q].names # {}
            /\ from[p] = from[q] => p = q
    BY <1>1, BlankSound
  <2>3. Apart(Family)
    BY DEF IInv
  <2> QED BY <2>1, <2>2, <2>3, ApartMoved, SMTT(60)
<1> QED BY <1>2, <1>3 DEF IInv

\* Which stack is at which place after a step.
LEMMA PlaceIsNext ==
  ASSUME NEW p \in Places'
  PROVE  \/ p = Run /\ Family'[p] = PutAway'
         \/ \E k \in DOMAIN saved' : p = <<"saved", k>> /\ Family'[p] = saved'[k].stack
         \/ \E t \in Threads : p = <<"arena", t>> /\ Family'[p] = arena'[t].stack
<1>1. \/ p = Run
      \/ \E k \in DOMAIN saved' : p = <<"saved", k>>
      \/ \E t \in Threads : p = <<"arena", t>>
  BY DEF Places
<1>2. CASE p = Run
  <2>1. Run[1] = "run"
    BY DEF Run
  <2> QED BY <1>2, <2>1 DEF Family
<1>3. ASSUME NEW k \in DOMAIN saved', p = <<"saved", k>> PROVE Family'[p] = saved'[k].stack
  BY <1>3 DEF Family
<1>4. ASSUME NEW t \in Threads, p = <<"arena", t>> PROVE Family'[p] = arena'[t].stack
  BY <1>4 DEF Family
<1> QED BY <1>1, <1>2, <1>3, <1>4

\* A list with one more member at its end.
LEMMA OneMore ==
  ASSUME NEW S, NEW s \in Seq(S), NEW e \in S
  PROVE  /\ Append(s, e) \in Seq(S) /\ Len(s) \in Nat /\ DOMAIN s = 1 .. Len(s)
         /\ DOMAIN Append(s, e) = 1 .. Len(s) + 1 /\ Append(s, e)[Len(s) + 1] = e
         /\ \A k \in 1 .. Len(s) : Append(s, e)[k] = s[k]
BY AppendProperties, LenProperties

\* A list without its last member.
LEMMA OneFewer ==
  ASSUME NEW S, NEW s \in Seq(S), s # <<>>
  PROVE  /\ Front(s) \in Seq(S) /\ Len(s) \in Nat \ {0} /\ DOMAIN s = 1 .. Len(s)
         /\ DOMAIN Front(s) = 1 .. Len(s) - 1 /\ Last(s) = s[Len(s)] /\ Last(s) \in S
         /\ \A k \in 1 .. Len(s) - 1 : Front(s)[k] = s[k]
         /\ Front(s) = <<>> <=> Len(s) = 1
<1>1. Len(s) \in Nat /\ DOMAIN s = 1 .. Len(s)
  BY LenProperties
<1>2. Len(s) # 0
  BY EmptySeq
<1>3. Len(s) \in 1 .. Len(s)
  BY <1>1, <1>2
<1>4. /\ Front(s) \in Seq(S) /\ Len(Front(s)) = Len(s) - 1
      /\ DOMAIN Front(s) = 1 .. Len(s) - 1
      /\ \A k \in 1 .. Len(s) - 1 : Front(s)[k] = s[k]
  BY <1>3, Before DEF Front
<1>5. Last(s) = s[Len(s)] /\ Last(s) \in S
  BY <1>3, ElementOfSeq DEF Last
<1>6. Front(s) = <<>> <=> Len(s) = 1
  BY <1>1, <1>4, EmptySeq
<1> QED BY <1>1, <1>2, <1>4, <1>5, <1>6

\* A coroutine is resumed: the resumer waits, and its stack is put away.
LEMMA ResumeStep ==
  ASSUME IInv, NEW t \in Threads, Resume(t)
  PROVE  IInv'
<1> DEFINE n == Len(saved)
           new == [caller |-> current, stack |-> PutAway]
<1>1. /\ Resumable(t) /\ saved' = Append(saved, new)
      /\ arena' = [arena EXCEPT ![t] = [status |-> "Running", stack |-> Blank]]
      /\ current' = t /\ Swap(arena[t].stack, TRUE)
  BY DEF Resume
<1>2. /\ arena \in [Threads -> [status : Statuses, stack : Stack]]
      /\ saved \in Seq([caller : Threads \union {"main"}, stack : Stack])
      /\ current \in Threads \union {"main"}
  BY DEF IInv, Typed
<1>3. PutAway \in Stack /\ Sound(PutAway, of)
  BY RunIs DEF Sound
<1>4. /\ new \in [caller : Threads \union {"main"}, stack : Stack]
      /\ new.caller = current /\ new.stack = PutAway
  BY <1>2, <1>3
<1> HIDE DEF new
<1>5. /\ saved' \in Seq([caller : Threads \union {"main"}, stack : Stack])
      /\ n \in Nat /\ DOMAIN saved = 1 .. n /\ DOMAIN saved' = 1 .. n + 1 /\ saved'[n + 1] = new
      /\ \A k \in 1 .. n : saved'[k] = saved[k]
  BY <1>1, <1>2, <1>4, OneMore
<1>6. /\ arena' \in [Threads -> [status : Statuses, stack : Stack]]
      /\ arena'[t].status = "Running" /\ arena'[t].stack = Blank
      /\ \A q \in Threads \ {t} : arena'[q] = arena[q]
  <2>1. [status |-> "Running", stack |-> Blank] \in [status : Statuses, stack : Stack]
    BY BlankSound DEF Statuses
  <2> QED BY <1>1, <1>2, <2>1
<1>7. <<"arena", t>> \in Places \ {Run} /\ Family[<<"arena", t>>] = arena[t].stack
  BY FamilyIs
<1>8. /\ of' = of /\ names' = arena[t].stack.names
      /\ at' \in [Upvalues -> Nat] /\ own' \in [Upvalues -> Vals \union {None}]
      /\ Kept' /\ Sound(PutAway', of')
  <2>1. /\ Sound(arena[t].stack, of)
        /\ \A i \in DOMAIN names, j \in DOMAIN arena[t].stack.names :
             names[i] # arena[t].stack.names[j]
    BY <1>7, OthersApart
  <2>2. TRUE \in BOOLEAN
    OBVIOUS
  <2> QED BY <1>1, <2>1, <2>2, SwapTakes
<1>9. Typed'
  BY <1>1, <1>2, <1>5, <1>6, <1>8 DEF IInv, Typed
<1>10. t # current /\ \A k \in DOMAIN saved : saved[k].caller # t
  BY <1>1 DEF IInv, Lined, Resumable
<1>11. Lined'
  <2>0. "main" # t /\ "main" \notin Threads
    BY CoroutineAssumption
  <2>1. saved' = <<>> <=> current' = "main"
    <3>1. saved' # <<>>
      BY <1>5
    <3> QED BY <1>1, <2>0, <3>1
  <2>2. n = 0 <=> current = "main"
    <3>1. n = 0 <=> saved = <<>>
      BY <1>2, EmptySeq
    <3> QED BY <3>1 DEF IInv, Lined
  <2>3. \A k \in DOMAIN saved' : k \in 1 .. n \/ (k = n + 1 /\ saved'[k].caller = current)
    BY <1>4, <1>5
  <2>4. \A k \in DOMAIN saved' : saved'[k].caller = "main" <=> k = 1
    <3>1. \A k \in 1 .. n : saved'[k].caller = "main" <=> k = 1
      BY <1>5 DEF IInv, Lined
    <3>2. n + 1 = 1 <=> current = "main"
      BY <1>5, <2>2
    <3> QED BY <2>3, <3>1, <3>2
  <2>5. \A k \in DOMAIN saved' : saved'[k].caller # current'
    BY <1>1, <1>5, <1>10, <2>3
  <2>6. \A j, k \in DOMAIN saved' : saved'[j].caller = saved'[k].caller => j = k
    <3>1. \A j, k \in 1 .. n : saved'[j].caller = saved'[k].caller => j = k
      BY <1>5 DEF IInv, Lined
    <3>2. \A j \in 1 .. n : saved'[j].caller # current
      BY <1>5 DEF IInv, Lined
    <3> QED BY <2>3, <3>1, <3>2
  <2>7. \A q \in Threads : arena'[q].status = "Running" <=>
                             q = current' \/ \E k \in DOMAIN saved' : saved'[k].caller = q
    <3> SUFFICES ASSUME NEW q \in Threads
                 PROVE  arena'[q].status = "Running" <=>
                          q = current' \/ \E k \in DOMAIN saved' : saved'[k].caller = q
      OBVIOUS
    <3>1. CASE q = t
      BY <1>1, <1>6, <3>1
    <3>2. CASE q # t
      <4>1. (\E k \in DOMAIN saved' : saved'[k].caller = q) <=>
              q = current \/ \E k \in DOMAIN saved : saved[k].caller = q
        <5>1. n + 1 \in DOMAIN saved' /\ saved'[n + 1].caller = current
          BY <1>4, <1>5
        <5>2. \A k \in 1 .. n : k \in DOMAIN saved' /\ saved'[k].caller = saved[k].caller
          BY <1>5
        <5> QED BY <1>5, <2>3, <5>1, <5>2
      <4>2. arena[q].status = "Running" <=>
              q = current \/ \E k \in DOMAIN saved : saved[k].caller = q
        BY DEF IInv, Lined
      <4> QED BY <1>1, <1>6, <3>2, <4>1, <4>2
    <3> QED BY <3>1, <3>2
  <2>8. \A q \in Threads : arena'[q].status \in {"Unborn", "Running"} => arena'[q].stack = Blank
    BY <1>6 DEF IInv, Lined
  <2> QED BY <2>1, <2>4, <2>5, <2>6, <2>7, <2>8 DEF Lined
<1> DEFINE from == [p \in Places' |-> IF p = Run THEN <<"arena", t>>
                                      ELSE IF p = <<"saved", n + 1>> THEN Run ELSE p]
<1>12. ASSUME NEW p \in Places'
       PROVE  \/ Family'[p] = Blank
              \/ /\ from[p] \in Places /\ Sound(Family'[p], of)
                 /\ Family'[p].names = Family[from[p]].names
  <2>1. CASE p = Run
    <3>1. from[p] = <<"arena", t>> /\ Family'[p] = PutAway'
      BY <2>1, PlaceIsNext, PlacesDiffer
    <3>2. Family'[p].names = names'
      BY <3>1 DEF PutAway
    <3> QED BY <1>7, <1>8, <3>1, <3>2
  <2>2. ASSUME NEW k \in DOMAIN saved', p = <<"saved", k>>, Family'[p] = saved'[k].stack
        PROVE  /\ from[p] \in Places /\ Sound(Family'[p], of)
               /\ Family'[p].names = Family[from[p]].names
    <3>1. CASE k = n + 1
      <4>1. from[p] = Run
        BY <2>2, <3>1, PlacesDiffer
      <4> QED BY <1>3, <1>4, <1>5, <2>2, <3>1, <4>1, FamilyIs
    <3>2. CASE k # n + 1
      <4>1. from[p] = p
        BY <2>2, <3>2, PlacesDiffer
      <4>2. k \in DOMAIN saved /\ saved'[k] = saved[k]
        BY <1>5, <3>2
      <4>3. p \in Places \ {Run} /\ Family[p] = saved[k].stack
        BY <2>2, <4>2, FamilyIs
      <4> QED BY <2>2, <4>1, <4>2, <4>3, OthersApart
    <3> QED BY <3>1, <3>2
  <2>3. ASSUME NEW q \in Threads, p = <<"arena", q>>, Family'[p] = arena'[q].stack, q # t
        PROVE  /\ from[p] \in Places /\ Sound(Family'[p], of)
               /\ Family'[p].names = Family[from[p]].names
    <3>1. from[p] = p
      BY <2>3, PlacesDiffer
    <3>2. p \in Places \ {Run} /\ Family[p] = arena[q].stack
      BY <2>3, FamilyIs
    <3> QED BY <1>6, <2>3, <3>1, <3>2, OthersApart
  <2> HIDE DEF from
  <2>4. CASE \E q \in Threads : p = <<"arena", q>> /\ Family'[p] = arena'[q].stack
    BY <1>6, <2>3, <2>4
  <2> QED BY <2>1, <2>2, <2>4, PlaceIsNext
<1>13. ASSUME NEW p \in Places', NEW q \in Places', Family'[p] # Blank, Family'[q] # Blank,
              from[p] = from[q]
       PROVE  p = q
  <2>1. <<"arena", t>> \in Places' => Family'[<<"arena", t>>] = Blank
    <3> SUFFICES ASSUME <<"arena", t>> \in Places' PROVE Family'[<<"arena", t>>] = Blank
      OBVIOUS
    <3>1. \E s \in Threads : <<"arena", t>> = <<"arena", s>> /\ Family'[<<"arena", t>>] = arena'[s].stack
      BY PlaceIsNext, PlacesDiffer, Zenon
    <3> QED BY <1>6, <3>1, PlacesDiffer
  <2>2. p # <<"arena", t>> /\ q # <<"arena", t>>
    BY <1>13, <2>1
  <2>3. /\ from[p] = (IF p = Run THEN <<"arena", t>> ELSE IF p = <<"saved", n + 1>> THEN Run ELSE p)
        /\ from[q] = (IF q = Run THEN <<"arena", t>> ELSE IF q = <<"saved", n + 1>> THEN Run ELSE q)
    OBVIOUS
  <2> HIDE DEF from
  <2>4. <<"arena", t>> # Run /\ <<"saved", n + 1>> # Run
    BY PlacesDiffer
  <2> QED BY <1>13, <2>2, <2>3, <2>4, Zenon
<1> HIDE DEF from
<1> QED BY <1>8, <1>9, <1>11, <1>12, <1>13, Moved

\* A coroutine yields, returns or fails: its resumer's stack comes back.
LEMMA ReturnStep ==
  ASSUME IInv, NEW status \in {"Suspended", "Dead"}, NEW left \in {PutAway, Blank},
         Return(status, left)
  PROVE  IInv'
<1> DEFINE n == Len(saved)
           th == saved[n].stack
<1>1. /\ current # "main" /\ saved' = Front(saved)
      /\ arena' = [arena EXCEPT ![current] = [status |-> status, stack |-> left]]
      /\ current' = Last(saved).caller /\ Swap(Last(saved).stack, FALSE)
  BY DEF Return
<1>2. /\ arena \in [Threads -> [status : Statuses, stack : Stack]]
      /\ saved \in Seq([caller : Threads \union {"main"}, stack : Stack])
      /\ current \in Threads
  BY <1>1 DEF IInv, Typed
<1>3. saved # <<>>
  BY <1>1 DEF IInv, Lined
<1>4. /\ saved' \in Seq([caller : Threads \union {"main"}, stack : Stack])
      /\ n \in Nat \ {0} /\ DOMAIN saved = 1 .. n /\ DOMAIN saved' = 1 .. n - 1
      /\ Last(saved) = saved[n] /\ Last(saved) \in [caller : Threads \union {"main"}, stack : Stack]
      /\ \A k \in 1 .. n - 1 : saved'[k] = saved[k]
      /\ Front(saved) = <<>> <=> n = 1
  BY <1>1, <1>2, <1>3, OneFewer
<1>5. n \in DOMAIN saved
  BY <1>4
<1>6. Sound(left, of) /\ left \in Stack /\ (left = Blank \/ left.names = names)
  BY RunIs, BlankSound DEF PutAway, Sound
<1>7. /\ arena' \in [Threads -> [status : Statuses, stack : Stack]]
      /\ arena'[current].status = status /\ arena'[current].stack = left
      /\ \A q \in Threads \ {current} : arena'[q] = arena[q]
  <2>1. [status |-> status, stack |-> left] \in [status : Statuses, stack : Stack]
    BY <1>6 DEF Statuses
  <2> QED BY <1>1, <1>2, <2>1
<1>8. <<"saved", n>> \in Places \ {Run} /\ Family[<<"saved", n>>] = th
  BY <1>5, FamilyIs
<1>9. /\ of' = of /\ names' = th.names
      /\ at' \in [Upvalues -> Nat] /\ own' \in [Upvalues -> Vals \union {None}]
      /\ Kept' /\ Sound(PutAway', of')
  <2>1. /\ Sound(th, of)
        /\ \A i \in DOMAIN names, j \in DOMAIN th.names : names[i] # th.names[j]
    BY <1>8, OthersApart
  <2>2. FALSE \in BOOLEAN /\ Swap(th, FALSE)
    BY <1>1, <1>4
  <2> QED BY <2>1, <2>2, SwapTakes
<1>10. Typed'
  BY <1>1, <1>2, <1>4, <1>7, <1>9 DEF IInv, Typed
<1>11. current' = saved[n].caller /\ saved[n].caller # current
  BY <1>1, <1>4, <1>5 DEF IInv, Lined
<1>12. Lined'
  <2>1. saved' = <<>> <=> current' = "main"
    <3>1. saved' = <<>> <=> n = 1
      BY <1>1, <1>4
    <3>2. saved[n].caller = "main" <=> n = 1
      BY <1>5 DEF IInv, Lined
    <3> QED BY <1>11, <3>1, <3>2
  <2>2. \A k \in DOMAIN saved' : k \in DOMAIN saved /\ k # n /\ saved'[k] = saved[k]
    BY <1>4
  <2>3. \A k \in DOMAIN saved' : saved'[k].caller = "main" <=> k = 1
    BY <2>2 DEF IInv, Lined
  <2>4. \A k \in DOMAIN saved' : saved'[k].caller # current'
    BY <1>5, <1>11, <2>2 DEF IInv, Lined
  <2>5. \A j, k \in DOMAIN saved' : saved'[j].caller = saved'[k].caller => j = k
    BY <2>2 DEF IInv, Lined
  <2>6. \A q \in Threads : arena'[q].status = "Running" <=>
                             q = current' \/ \E k \in DOMAIN saved' : saved'[k].caller = q
    <3> SUFFICES ASSUME NEW q \in Threads
                 PROVE  arena'[q].status = "Running" <=>
                          q = current' \/ \E k \in DOMAIN saved' : saved'[k].caller = q
      OBVIOUS
    <3>1. CASE q = current
      <4>1. \A k \in DOMAIN saved' : saved'[k].caller # q
        BY <2>2, <3>1 DEF IInv, Lined
      <4>2. arena'[q].status # "Running"
        BY <1>7, <3>1
      <4> QED BY <1>11, <3>1, <4>1, <4>2
    <3>2. CASE q # current
      <4>1. (\E k \in DOMAIN saved : saved[k].caller = q) <=>
              q = current' \/ \E k \in DOMAIN saved' : saved'[k].caller = q
        <5>1. \A k \in DOMAIN saved : k = n \/ k \in DOMAIN saved'
          BY <1>4
        <5> QED BY <1>5, <1>11, <2>2, <5>1
      <4>2. arena[q].status = "Running" <=>
              q = current \/ \E k \in DOMAIN saved : saved[k].caller = q
        BY DEF IInv, Lined
      <4> QED BY <1>7, <3>2, <4>1, <4>2
    <3> QED BY <3>1, <3>2
  <2>7. \A q \in Threads : arena'[q].status \in {"Unborn", "Running"} => arena'[q].stack = Blank
    BY <1>7 DEF IInv, Lined
  <2> QED BY <2>1, <2>3, <2>4, <2>5, <2>6, <2>7 DEF Lined
<1> DEFINE from == [p \in Places' |-> IF p = Run THEN <<"saved", n>>
                                      ELSE IF p = <<"arena", current>> THEN Run ELSE p]
<1>13. ASSUME NEW p \in Places'
       PROVE  \/ Family'[p] = Blank
              \/ /\ from[p] \in Places /\ Sound(Family'[p], of)
                 /\ Family'[p].names = Family[from[p]].names
  <2>1. CASE p = Run
    <3>1. from[p] = <<"saved", n>> /\ Family'[p] = PutAway'
      BY <2>1, PlaceIsNext, PlacesDiffer
    <3>2. Family'[p].names = names'
      BY <3>1 DEF PutAway
    <3> QED BY <1>8, <1>9, <3>1, <3>2
  <2>2. ASSUME NEW k \in DOMAIN saved', p = <<"saved", k>>, Family'[p] = saved'[k].stack
        PROVE  /\ from[p] \in Places /\ Sound(Family'[p], of)
               /\ Family'[p].names = Family[from[p]].names
    <3>1. from[p] = p
      BY <2>2, PlacesDiffer
    <3>2. k \in DOMAIN saved /\ saved'[k] = saved[k]
      BY <1>4
    <3>3. p \in Places \ {Run} /\ Family[p] = saved[k].stack
      BY <2>2, <3>2, FamilyIs
    <3> QED BY <2>2, <3>1, <3>2, <3>3, OthersApart
  <2>3. ASSUME NEW q \in Threads, p = <<"arena", q>>, Family'[p] = arena'[q].stack, q # current
        PROVE  /\ from[p] \in Places /\ Sound(Family'[p], of)
               /\ Family'[p].names = Family[from[p]].names
    <3>1. from[p] = p
      BY <2>3, PlacesDiffer
    <3>2. p \in Places \ {Run} /\ Family[p] = arena[q].stack
      BY <2>3, FamilyIs
    <3> QED BY <1>7, <2>3, <3>1, <3>2, OthersApart
  <2>4. ASSUME p = <<"arena", current>>, Family'[p] = left
        PROVE  \/ Family'[p] = Blank
               \/ /\ from[p] \in Places /\ Sound(Family'[p], of)
                  /\ Family'[p].names = Family[from[p]].names
    <3>1. from[p] = Run
      BY <2>4, PlacesDiffer
    <3>2. Run \in Places /\ Family[Run].names = names
      BY FamilyIs DEF PutAway
    <3> QED BY <1>6, <2>4, <3>1, <3>2
  <2> HIDE DEF from
  <2>5. CASE \E q \in Threads : p = <<"arena", q>> /\ Family'[p] = arena'[q].stack
    BY <1>7, <2>3, <2>4, <2>5
  <2> QED BY <2>1, <2>2, <2>5, PlaceIsNext
<1>14. ASSUME NEW p \in Places', NEW q \in Places', Family'[p] # Blank, Family'[q] # Blank,
              from[p] = from[q]
       PROVE  p = q
  <2>1. <<"saved", n>> \notin Places'
    <3>1. n \notin DOMAIN saved'
      BY <1>4
    <3> QED BY <3>1, PlacesDiffer DEF Places
  <2>2. p # <<"saved", n>> /\ q # <<"saved", n>>
    BY <2>1
  <2>3. /\ from[p] = (IF p = Run THEN <<"saved", n>> ELSE IF p = <<"arena", current>> THEN Run ELSE p)
        /\ from[q] = (IF q = Run THEN <<"saved", n>> ELSE IF q = <<"arena", current>> THEN Run ELSE q)
    OBVIOUS
  <2> HIDE DEF from
  <2>4. <<"arena", current>> # Run /\ <<"saved", n>> # Run
    BY PlacesDiffer
  <2> QED BY <1>14, <2>2, <2>3, <2>4, Zenon
<1> HIDE DEF from
<1> QED BY <1>9, <1>10, <1>12, <1>13, <1>14, Moved

-----------------------------------------------------------------------------
(***************************************************************************)
(* The invariant.                                                          *)
(***************************************************************************)
\* It holds at the beginning.
LEMMA Beginning ==
  ASSUME Init
  PROVE  IInv
<1>1. /\ slots = <<>> /\ names = <<>> /\ open = <<>> /\ saved = <<>> /\ current = "main"
      /\ at = [u \in Upvalues |-> 0] /\ own = [u \in Upvalues |-> None]
      /\ of = [u \in Upvalues |-> None]
      /\ arena = [t \in Threads |-> [status |-> "Unborn", stack |-> Blank]]
  BY DEF Init
<1>2. \A t \in Threads : /\ arena[t].status = "Unborn" /\ arena[t].stack = Blank
                         /\ arena[t] \in [status : Statuses, stack : Stack]
  BY <1>1, BlankSound DEF Statuses
<1>3. DOMAIN saved = {}
  BY <1>1
<1>4. Typed
  <2>1. arena \in [Threads -> [status : Statuses, stack : Stack]]
    BY <1>1, <1>2
  <2>2. saved \in Seq([caller : Threads \union {"main"}, stack : Stack])
    BY <1>1
  <2> QED BY <1>1, <2>1, <2>2 DEF Typed
<1>5. Kept
  BY <1>1 DEF Kept
<1>6. Lined
  <2>1. "main" \notin Threads
    BY CoroutineAssumption
  <2> QED BY <1>1, <1>2, <1>3, <2>1 DEF Lined
<1>7. Sound(PutAway, of) /\ PutAway.names = <<>>
  <2>1. WellMade(slots, names, open, at, of)
    <3>1. DOMAIN <<>> = {} /\ ToSet(<<>>) = {} /\ Len(<<>>) = 0
      BY DEF ToSet
    <3> QED BY <1>1, <3>1, CoroutineAssumption DEF WellMade
  <2>2. Sound(StackOf(slots, names, open, at), of)
    BY <2>1, SoundStack
  <2> QED BY <1>1, <2>2 DEF PutAway, Suspending, OpenNow, StackOf
<1>8. ASSUME NEW p \in Places PROVE Sound(Family[p], of) /\ DOMAIN Family[p].names = {}
  <2>1. CASE p = Run /\ Family[p] = PutAway
    BY <1>7, <2>1
  <2>2. CASE \E t \in Threads : p = <<"arena", t>> /\ Family[p] = arena[t].stack
    BY <1>2, <2>2, BlankSound
  <2> QED BY <1>3, <2>1, <2>2, PlaceIs
<1>9. Apart(Family)
  BY <1>8, FamilyIs DEF Apart
<1> QED BY <1>4, <1>5, <1>6, <1>8, <1>9 DEF IInv

\* Every step keeps the invariant, unless a reader fails with captured variables.
LEMMA Step ==
  ASSUME ~ Escapes, IInv, [Next]_vars
  PROVE  IInv'
<1>1. CASE UNCHANGED vars
  BY <1>1, Unchanged
<1>2. ASSUME NEW t \in Threads, Create(t) PROVE IInv'
  BY <1>2, CreateStep
<1>3. ASSUME NEW t \in Threads, Resume(t) PROVE IInv'
  BY <1>3, ResumeStep
<1>4. CASE Yield \/ Finish \/ Fail
  BY <1>4, ReturnStep DEF Yield, Finish, Fail
<1>5. ASSUME NEW i \in 1 .. MaxSlots, FindUpvalue(i) PROVE IInv'
  BY <1>5, FindUpvalueStep
<1>6. ASSUME NEW i \in 1 .. MaxSlots, Leave(i) PROVE IInv'
  BY <1>6, LeaveStep
<1>7. ASSUME NEW i \in 1 .. MaxSlots, Abandon(i) PROVE IInv'
  BY <1>7, AbandonStep
<1>8. ASSUME NEW v \in Vals, NEW x \in Vars, Declare(x, v) PROVE IInv'
  BY <1>8, DeclareStep
<1>9. ASSUME NEW v \in Vals, NEW i \in 1 .. MaxSlots, SetLocal(i, v) PROVE IInv'
  BY <1>9, SetLocalStep
<1>10. ASSUME NEW v \in Vals, NEW u \in Upvalues, SetUpval(u, v) PROVE IInv'
  BY <1>10, SetUpvalStep
<1>11. ASSUME NEW v \in Vals, NEW t \in Threads, NEW i \in 1 .. MaxSlots, DebugSetLocal(t, i, v)
       PROVE  IInv'
  BY <1>11, DebugSetLocalStep
<1> QED BY <1>1, <1>2, <1>3, <1>4, <1>5, <1>6, <1>7, <1>8, <1>9, <1>10, <1>11 DEF Next

\* The inductive invariant: upvalues, stacks and waiting threads fit together.
THEOREM Invariance ==
  ASSUME ~ Escapes
  PROVE  Spec => []IInv
<1>1. Init => IInv
  BY Beginning
<1>2. IInv /\ [Next]_vars => IInv'
  BY Step
<1> QED BY <1>1, <1>2, PTL DEF Spec

\* The shape of the state, slots in their bounds included.
LEMMA IInvTypes == IInv => TypeOK
<1> SUFFICES ASSUME IInv PROVE TypeOK
  OBVIOUS
<1>1. ASSUME NEW th, Sound(th, of) PROVE ThreadOK(th)
  <2>1. /\ th \in Stack /\ Len(th.names) = Len(th.slots) /\ Len(th.slots) <= MaxSlots
        /\ Fits(th, of)
    BY <1>1 DEF Sound
  <2>2. /\ th.slots \in Seq(Vals) /\ th.names \in Seq(Vars) /\ th.open \in Seq(Upvalues)
        /\ DOMAIN th.suspended \subseteq Upvalues
    BY <2>1 DEF Stack
  <2>3. DOMAIN th.names = DOMAIN th.slots
    BY <2>1, <2>2, LenProperties
  <2> QED BY <2>1, <2>2, <2>3 DEF ThreadOK, Fits
<1>2. at \in [Upvalues -> 0 .. MaxSlots]
  <2>1. \A u \in Upvalues : at[u] \in 0 .. MaxSlots
    <3> SUFFICES ASSUME NEW u \in Upvalues PROVE at[u] \in 0 .. MaxSlots
      OBVIOUS
    <3>1. CASE at[u] = 0
      BY <3>1, CoroutineAssumption
    <3>2. CASE at[u] # 0
      <4>1. at[u] \in 1 .. Len(slots) /\ Len(slots) \in Nat /\ Len(slots) <= MaxSlots
        BY <3>2, RunIs
      <4> QED BY <4>1, CoroutineAssumption
    <3> QED BY <3>1, <3>2
  <2> QED BY <2>1 DEF IInv, Typed
<1>3. ThreadOK(PutAway)
  BY <1>1, RunIs
<1>4. \A t \in Threads : arena[t].status \in Statuses /\ ThreadOK(arena[t].stack)
  <2>1. \A t \in Threads : Sound(arena[t].stack, of)
    BY FamilyIs DEF IInv
  <2> QED BY <1>1, <2>1 DEF IInv, Typed
<1>5. \A k \in DOMAIN saved :
        saved[k].caller \in Threads \union {"main"} /\ ThreadOK(saved[k].stack)
  <2>1. \A k \in DOMAIN saved : Sound(saved[k].stack, of)
    BY FamilyIs DEF IInv
  <2>2. \A k \in DOMAIN saved : saved[k] \in [caller : Threads \union {"main"}, stack : Stack]
    BY LenProperties, ElementOfSeq DEF IInv, Typed
  <2> QED BY <1>1, <2>1, <2>2
<1> QED BY <1>2, <1>3, <1>4, <1>5 DEF TypeOK, IInv, Typed

\* The shape of every reachable state of the threads.
THEOREM TypeCorrect ==
  ASSUME ~ Escapes
  PROVE  Spec => []TypeOK
BY Invariance, IInvTypes, PTL

\* A variable has one value, wherever it is looked at.
LEMMA IInvOne == IInv => OneVariable
<1> SUFFICES ASSUME IInv PROVE OneVariable
  OBVIOUS
<1>1. OpenInOrder
  BY RunIs DEF OpenInOrder, ToSet
<1>2. ASSUME NEW x \in Vars, NEW u \in Shared(x) PROVE u \in Upvalues /\ Get(u) = ValueOf(x)
  <2>1. u \in Upvalues /\ of[u] = x /\ x # None
    BY CoroutineAssumption DEF Shared
  <2>2. \A v \in Shared(x) : v = u
    BY <2>1 DEF Shared, IInv, Kept
  <2>3. (CHOOSE v \in Shared(x) : TRUE) = u
    BY <2>2
  <2> QED BY <2>1, <2>3 DEF ValueOf
<1>3. ASSUME NEW i \in DOMAIN slots PROVE slots[i] = ValueOf(names[i])
  <2> DEFINE x == names[i]
  <2>0. i \in DOMAIN names /\ x \in Vars
    BY RunIs, ElementOfSeq
  <2>1. CASE Shared(x) # {}
    <3>1. PICK u \in Shared(x) : TRUE
      BY <2>1
    <3>2. u \in Upvalues /\ Get(u) = ValueOf(x) /\ of[u] = x
      BY <1>2, <2>0 DEF Shared
    <3>3. at[u] = i /\ i # 0
      BY <2>0, <3>2, RunIs
    <3> QED BY <3>2, <3>3 DEF Get
  <2>2. CASE Shared(x) = {}
    <3>1. PutAway \in Stacks /\ PutAway.slots = slots /\ PutAway.names = names
      BY DEF Stacks, PutAway
    <3>2. slots[i] \in SlotValues(x)
      <4>1. slots[i] \in {PutAway.slots[j] : j \in {j \in DOMAIN PutAway.slots : PutAway.names[j] = x}}
        BY <3>1
      <4> QED BY <3>1, <4>1 DEF SlotValues
    <3>3. ASSUME NEW w \in SlotValues(x) PROVE w = slots[i]
      <4>1. PICK th \in Stacks : \E j \in DOMAIN th.slots : th.names[j] = x /\ w = th.slots[j]
        BY DEF SlotValues
      <4>2. PICK j \in DOMAIN th.slots : th.names[j] = x /\ w = th.slots[j]
        BY <4>1
      <4>3. CASE th = PutAway
        <5>1. j \in DOMAIN names /\ names[j] = names[i]
          BY <3>1, <4>2, <4>3, RunIs
        <5> QED BY <2>0, <3>1, <4>2, <4>3, <5>1, RunIs
      <4>4. ASSUME NEW p \in Places \ {Run}, th = Family[p] PROVE FALSE
        <5>1. Sound(th, of)
          BY <4>4, OthersApart
        <5>2. j \in DOMAIN th.names
          BY <5>1, LenProperties DEF Sound, Stack
        <5> QED BY <2>0, <4>2, <4>4, <5>2, OthersApart
      <4>5. th = PutAway \/ \E p \in Places \ {Run} : th = Family[p]
        BY FamilyIs DEF Stacks
      <4> QED BY <4>3, <4>4, <4>5
    <3>4. (CHOOSE w \in SlotValues(x) : TRUE) = slots[i]
      BY <3>2, <3>3
    <3> QED BY <2>2, <3>2, <3>4 DEF ValueOf
  <2> QED BY <2>1, <2>2
<1> QED BY <1>1, <1>2, <1>3 DEF OneVariable

\* The function that declared a variable and every function that captured it see one
\* value, however often threads are put away and taken back between two accesses.
THEOREM VariablesAreOne ==
  ASSUME ~ Escapes
  PROVE  Spec => []OneVariable
BY Invariance, IInvOne, PTL
=============================================================================
