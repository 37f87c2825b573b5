--------------------------- MODULE KeepAliveProofs ---------------------------
(***************************************************************************)
(* Proofs about KeepAlive: what the collector spares, for programs and     *)
(* hosts that do nothing of what loses objects (~Careless), and the order  *)
(* of finalizers, for all.                                                 *)
(***************************************************************************)
EXTENDS KeepAlive, FiniteSetTheorems, SequenceTheorems, WellFoundedInduction, TLAPS

-----------------------------------------------------------------------------
(***************************************************************************)
(* The inductive invariant.                                                *)
(***************************************************************************)
Parts == Obj \union {Plain}

TypeOK ==
  /\ color \in [Obj -> {"free", "gray", "black"} \union Whites]
  /\ white \in Whites
  /\ phase \in {"Pause", "Propagate", "Sweep", "Finalize"}
  /\ fields \in [Tables -> SUBSET (Parts \X Parts)]
  /\ mode \in [Tables -> Modes]
  /\ holds \in [Functions_ -> Parts \union {Nil}]
  /\ held \subseteq Obj /\ frozen \subseteq Obj /\ pinned \subseteq Obj
  /\ gray \subseteq Obj /\ again \subseteq Tables /\ weak \subseteq Tables
  /\ unswept \subseteq Obj
  /\ tmudata \in Seq(Userdata) /\ finalized \subseteq Userdata

(***************************************************************************)
(* Userdata wait in the order in which those found together were created.  *)
(***************************************************************************)
Queued ==
  /\ ToSet(tmudata) \union batch \subseteq finalized
  /\ \A i, j \in DOMAIN tmudata :
       i < j /\ {tmudata[i], tmudata[j]} \subseteq batch => Age[tmudata[i]] < Age[tmudata[j]]

(***************************************************************************)
(* The colours of a phase, and the lists that go with them.                *)
(***************************************************************************)
Colored ==
  /\ phase \in {"Pause", "Finalize"} => \A o \in Obj : color[o] \in {"free", white}
  /\ phase = "Propagate" =>
       /\ \A o \in Obj : color[o] # Other
       /\ \A o \in Obj : color[o] = "gray" <=> o \in gray \union again
       /\ gray \union again \subseteq Tables \union Functions_ /\ gray \intersect again = {}
  /\ phase = "Sweep" =>
       /\ \A o \in Obj \ unswept : color[o] \in {"free", white}
       /\ \A o \in unswept : color[o] \in {white, Other, "black"}

(***************************************************************************)
(* What flags keep: a string, or all of a graph.                           *)
(***************************************************************************)
Flagged ==
  /\ pinned \subseteq Strings
  /\ frozen \subseteq Tables \union Functions_
  /\ \A o \in frozen : Within(o) \subseteq frozen

(***************************************************************************)
(* What this cycle will not free, and that all a program can get at is.    *)
(***************************************************************************)
Live == {o \in Obj : /\ color[o] # "free"
                     /\ ~ (phase = "Sweep" /\ color[o] = Other /\ ~KeptAlive(o))}

Roots == held \union ToSet(tmudata) \union pinned \union frozen

AllLive ==
  /\ Roots \subseteq Live
  /\ \A o \in Live : Within(o) \subseteq Live

(***************************************************************************)
(* While marking, what a black object refers to is marked or frozen, but   *)
(* for the weak fields of a table that the atomic phase will clear.        *)
(***************************************************************************)
Marked(c, x) == x \in Obj => c[x] # white \/ x \in frozen

Followed(c, W, o) ==
  /\ o \in Tables =>
       \A f \in fields[o] :
         /\ Marked(c, f[1]) \/ (o \in W /\ "key" \in mode[o])
         /\ Marked(c, f[2]) \/ (o \in W /\ "value" \in mode[o])
  /\ o \in Functions_ => Marked(c, holds[o])

BlackFollowed ==
  phase = "Propagate" =>
    \A o \in (Tables \union Functions_) \ frozen : color[o] = "black" => Followed(color, weak, o)

Safe == Colored /\ Flagged /\ AllLive /\ BlackFollowed

IInv == TypeOK /\ Queued /\ Safe

-----------------------------------------------------------------------------
(***************************************************************************)
(* Sets, links and colours.                                                *)
(***************************************************************************)
\* A closure is the least set that has its start and follows its links.
LEMMA ClosureLeast ==
  ASSUME NEW S \in SUBSET Obj, NEW links
  PROVE  /\ S \subseteq Closure(S, links) /\ Closure(S, links) \subseteq Obj
         /\ \A l \in links : l[1] \in Closure(S, links) /\ l[2] \in Obj => l[2] \in Closure(S, links)
         /\ \A R \in SUBSET Obj :
              S \subseteq R /\ (\A l \in links : l[1] \in R => l[2] \in R)
                => Closure(S, links) \subseteq R
BY DEF Closure, ClosedSets

\* What objects refer to are objects.
LEMMA WithinObj ==
  ASSUME NEW o
  PROVE  Within(o) \subseteq Obj /\ Children(o) \subseteq Within(o)
<1>1. Within(o) \subseteq Obj
  BY DEF Within, Mentioned
<1>2. CASE o \in Tables
  <2>1. Strong(o) \subseteq Mentioned(o)
    BY DEF Strong, Mentioned
  <2> QED BY <1>1, <1>2, <2>1 DEF Children, Within
<1>3. CASE o \notin Tables
  BY <1>1, <1>3 DEF Children
<1> QED BY <1>1, <1>2, <1>3

\* The links of the closures that the module speaks of.
LEMMA LinksAre ==
  ASSUME NEW l
  PROVE  /\ l \in Contents => l[1] \in Obj /\ l[2] \in Within(l[1])
         /\ l \in UNION {{o} \X Children(o) : o \in Obj} => l[1] \in Obj /\ l[2] \in Children(l[1])
BY DEF Contents

\* A link of Contents for each thing that an object mentions.
LEMMA LinksAll ==
  ASSUME NEW o \in Obj, NEW x \in Within(o)
  PROVE  <<o, x>> \in Contents
BY DEF Contents

\* The two whites, and the kinds of objects.
LEMMA WhitesAre ==
  ASSUME TypeOK
  PROVE  /\ white \in {"white0", "white1"} /\ Other \in {"white0", "white1"}
         /\ white # Other /\ Whites = {white, Other}
BY DEF TypeOK, Whites, Other

\* An object is of one kind.
LEMMA Kinds ==
  /\ Tables \subseteq Obj /\ Functions_ \subseteq Obj
  /\ Userdata \subseteq Obj /\ Strings \subseteq Obj
  /\ \A o \in Obj : \/ o \in Tables /\ o \notin Functions_ /\ o \notin Strings \union Userdata
                    \/ o \in Functions_ /\ o \notin Tables /\ o \notin Strings \union Userdata
                    \/ o \in Strings \union Userdata /\ o \notin Tables /\ o \notin Functions_
BY KeepAliveAssumption DEF Obj

\* The elements of the queue of userdata.
LEMMA QueueIs ==
  ASSUME NEW q \in Seq(Userdata)
  PROVE  /\ DOMAIN q = 1 .. Len(q) /\ Len(q) \in Nat
         /\ \A x : x \in ToSet(q) <=> \E i \in 1 .. Len(q) : q[i] = x
         /\ ToSet(q) \subseteq Userdata
         /\ q # <<>> => /\ Len(q) >= 1
                        /\ Last(q) = q[Len(q)] /\ Last(q) \in ToSet(q)
                        /\ Front(q) \in Seq(Userdata) /\ Len(Front(q)) = Len(q) - 1
                        /\ \A i \in 1 .. Len(q) - 1 : Front(q)[i] = q[i]
<1>1. DOMAIN q = 1 .. Len(q) /\ Len(q) \in Nat /\ \A i \in 1 .. Len(q) : q[i] \in Userdata
  BY LenProperties, ElementOfSeq
<1>2. \A x : x \in ToSet(q) <=> \E i \in 1 .. Len(q) : q[i] = x
  BY <1>1 DEF ToSet
<1>3. ToSet(q) \subseteq Userdata
  BY <1>1, <1>2
<1>4. ASSUME q # <<>>
      PROVE  /\ Len(q) >= 1
             /\ Last(q) = q[Len(q)] /\ Last(q) \in ToSet(q)
             /\ Front(q) \in Seq(Userdata) /\ Len(Front(q)) = Len(q) - 1
             /\ \A i \in 1 .. Len(q) - 1 : Front(q)[i] = q[i]
  <2>1. Len(q) # 0
    BY <1>4, EmptySeq
  <2>2. Last(q) = q[Len(q)]
    BY DEF Last
  <2>3. Front(q) \in Seq(Userdata) /\ Len(Front(q)) = Len(q) - 1
        /\ \A i \in 1 .. Len(q) - 1 : Front(q)[i] = q[i]
    <3> DEFINE n == Len(q) - 1
    <3>1. n \in Int /\ n \in Nat /\ 1 \in Int /\ \A i \in 1 .. n : q[i] \in Userdata
      BY <1>1, <2>1
    <3> HIDE DEF n
    <3>2. /\ SubSeq(q, 1, n) \in Seq(Userdata)
          /\ Len(SubSeq(q, 1, n)) = IF 1 <= n THEN n - 1 + 1 ELSE 0
          /\ \A i \in 1 .. n - 1 + 1 : SubSeq(q, 1, n)[i] = q[1 + i - 1]
      BY <3>1, SubSeqProperties
    <3>3. Front(q) = SubSeq(q, 1, n)
      BY DEF Front, n
    <3>4. n - 1 + 1 = n /\ Len(Front(q)) = n
      BY <3>1, <3>2, <3>3
    <3>5. \A i \in 1 .. n : 1 + i - 1 = i
      BY <3>1
    <3>6. \A i \in 1 .. n : Front(q)[i] = q[i]
      BY <3>2, <3>3, <3>4, <3>5
    <3> QED BY <3>2, <3>3, <3>4, <3>6 DEF n
  <2> QED BY <1>1, <1>2, <2>1, <2>2, <2>3
<1> QED BY <1>1, <1>2, <1>3, <1>4

\* What a tint does to each object.
LEMMA TintIs ==
  ASSUME NEW c, NEW M
  PROVE  /\ \A o \in Obj : Tint(c, M)[o] =
              IF o \in M /\ Markable(c, o) THEN IF o \in Strings \union Userdata THEN "black" ELSE "gray"
              ELSE c[o]
         /\ Tint(c, M) = [o \in Obj |-> Tint(c, M)[o]]
         /\ \A o \in Obj : o \in Greyed(c, M) <=>
              o \in M /\ o \notin Strings \union Userdata /\ Markable(c, o)
BY DEF Tint, Greyed

-----------------------------------------------------------------------------
(***************************************************************************)
(* Userdata in the order of their ages.                                    *)
(***************************************************************************)
\* A set of numbers has a least one.
LEMMA LeastExists ==
  ASSUME NEW S \in SUBSET Nat, S # {}
  PROVE  \E x \in S : \A y \in S : x <= y
<1> DEFINE R == OpToRel(<, Nat)
<1>1. IsWellFoundedOn(R, Nat)
  BY NatLessThanWellFounded, Zenon
<1>2. \A x, y \in Nat : <<y, x>> \in R <=> y < x
  BY DEF OpToRel
<1> HIDE DEF R
<1>3. \E x \in S : \A y \in S : ~ (<<y, x>> \in R)
  BY <1>1, WFMin, Zenon
<1>4. \E x \in S : \A y \in S : x \in Nat /\ y \in Nat /\ ~ (y < x)
  BY <1>2, <1>3, Zenon
<1> QED BY <1>4

\* Induction, on the set of the numbers for which something holds.
LEMMA Inducts ==
  ASSUME NEW S, 0 \in S, \A n \in Nat : n \in S => n + 1 \in S
  PROVE  \A n \in Nat : n \in S
<1> SUFFICES ASSUME Nat \ S # {} PROVE FALSE
  OBVIOUS
<1>1. PICK m \in Nat \ S : \A k \in Nat \ S : m <= k
  BY LeastExists
<1>2. m \in Nat \ {0}
  BY <1>1
<1>3. m - 1 \in Nat /\ m - 1 \in S
  BY <1>1, <1>2
<1>4. (m - 1) + 1 = m
  BY <1>2
<1> QED BY <1>1, <1>3, <1>4

Rising(s) == \A i, j \in DOMAIN s : i < j => Age[s[i]] < Age[s[j]]

\* Every set of userdata can be listed in the order of creation, the oldest first.
LEMMA RisingExists ==
  ASSUME NEW S \in SUBSET Userdata
  PROVE  \E s \in [1 .. Cardinality(S) -> S] : Rising(s)
<1> DEFINE N == {n \in Nat : \A X \in SUBSET Userdata :
                    Cardinality(X) = n => \E s \in [1 .. n -> X] : Rising(s)}
<1>0. /\ IsFiniteSet(Userdata) /\ Age \in [Userdata -> Nat]
      /\ \A u, x \in Userdata : Age[u] = Age[x] => u = x
  BY KeepAliveAssumption
<1>1. \A X \in SUBSET Userdata : IsFiniteSet(X) /\ Cardinality(X) \in Nat
  BY <1>0, FS_Subset, FS_CardinalityType
<1>2. 0 \in N
  <2> SUFFICES ASSUME NEW X \in SUBSET Userdata PROVE \E s \in [1 .. 0 -> X] : Rising(s)
    OBVIOUS
  <2>1. [i \in 1 .. 0 |-> 0] \in [1 .. 0 -> X] /\ Rising([i \in 1 .. 0 |-> 0])
    BY DEF Rising
  <2> QED BY <2>1
<1>3. ASSUME NEW n \in Nat, n \in N PROVE n + 1 \in N
  <2> SUFFICES ASSUME NEW X \in SUBSET Userdata, Cardinality(X) = n + 1
               PROVE  \E s \in [1 .. n + 1 -> X] : Rising(s)
    BY <1>3
  <2>1. X # {}
    BY <1>3, <1>1, FS_EmptySet
  <2>2. PICK m \in X : \A u \in X \ {m} : Age[m] < Age[u]
    <3> DEFINE A == {Age[u] : u \in X}
    <3>1. A \subseteq Nat /\ A # {}
      BY <1>0, <2>1
    <3>2. PICK a \in A : \A b \in A : a <= b
      BY <3>1, LeastExists
    <3>3. PICK m \in X : a = Age[m]
      BY <3>2
    <3>4. \A u \in X : Age[m] <= Age[u]
      BY <3>2, <3>3
    <3>5. \A u \in X \ {m} : Age[m] # Age[u] /\ Age[m] \in Nat /\ Age[u] \in Nat
      BY <1>0
    <3> QED BY <3>4, <3>5
  <2>3. X \ {m} \in SUBSET Userdata /\ Cardinality(X \ {m}) = n
    <3>1. Cardinality(X \ {m}) = n + 1 - 1
      BY <1>1, <2>2, FS_RemoveElement
    <3> QED BY <3>1
  <2>4. PICK s \in [1 .. n -> X \ {m}] : Rising(s)
    BY <1>3, <2>3
  <2> DEFINE r == [i \in 1 .. n + 1 |-> IF i = 1 THEN m ELSE s[i - 1]]
  <2>5. \A i \in 2 .. n + 1 : i - 1 \in 1 .. n /\ s[i - 1] \in X \ {m}
    BY <1>3
  <2>6. r \in [1 .. n + 1 -> X]
    BY <1>3, <2>2, <2>5
  <2>7. ASSUME NEW i \in 1 .. n + 1, NEW j \in 1 .. n + 1, i < j PROVE Age[r[i]] < Age[r[j]]
    <3>1. j \in 2 .. n + 1 /\ r[j] = s[j - 1] /\ r[j] \in X \ {m}
      BY <1>3, <2>5, <2>7
    <3>2. CASE i = 1
      BY <2>2, <3>1, <3>2
    <3>3. CASE i # 1
      <4>1. i - 1 \in 1 .. n /\ j - 1 \in 1 .. n /\ i - 1 < j - 1 /\ r[i] = s[i - 1]
        BY <1>3, <2>7, <3>1, <3>3
      <4>2. Age[s[i - 1]] < Age[s[j - 1]]
        BY <2>4, <4>1 DEF Rising
      <4> QED BY <3>1, <4>1, <4>2
    <3> QED BY <3>2, <3>3
  <2>8. Rising(r)
    <3>1. DOMAIN r = 1 .. n + 1
      OBVIOUS
    <3> HIDE DEF r
    <3> QED BY <2>7, <3>1 DEF Rising
  <2> HIDE DEF r
  <2> QED BY <2>6, <2>8
<1>4. Cardinality(S) \in N
  <2> HIDE DEF N
  <2> QED BY <1>1, <1>2, <1>3, Inducts
<1> QED BY <1>4

\* ByAge lists a set, each userdata once and the oldest first.
LEMMA ByAgeIs ==
  ASSUME NEW S \in SUBSET Userdata
  PROVE  /\ ByAge(S) \in Seq(Userdata) /\ ToSet(ByAge(S)) = S
         /\ Rising(ByAge(S))
<1> DEFINE s == ByAge(S)
           n == Cardinality(S)
<1>1. s \in [1 .. n -> S] /\ Rising(s)
  <2>1. \E q \in [1 .. n -> S] : \A i, j \in DOMAIN q : i < j => Age[q[i]] < Age[q[j]]
    BY RisingExists DEF Rising
  <2> QED BY <2>1 DEF ByAge, Rising
<1>2. IsFiniteSet(S) /\ n \in Nat
  BY KeepAliveAssumption, FS_Subset, FS_CardinalityType
<1> HIDE DEF s, n
<1>3. s \in Seq(Userdata)
  <2>1. s \in [1 .. n -> Userdata]
    BY <1>1
  <2> QED BY <1>2, <2>1, SeqDef
<1>4. s \in Injection(1 .. n, S)
  <2>1. ASSUME NEW i \in 1 .. n, NEW j \in 1 .. n, s[i] = s[j] PROVE i = j
    <3>1. i \in Nat /\ j \in Nat /\ Age[s[i]] \in Nat
      BY <1>1, <1>2, KeepAliveAssumption
    <3>2. ~ (i < j) /\ ~ (j < i)
      BY <1>1, <2>1, <3>1 DEF Rising
    <3> QED BY <3>1, <3>2
  <2> QED BY <1>1, <2>1 DEF Injection, IsInjective
<1>5. Cardinality(1 .. n) = n
  <2>1. 1 \in Int /\ n \in Int
    BY <1>2
  <2> QED BY <1>2, <2>1, FS_Interval
<1>6. s \in Surjection(1 .. n, S)
  BY <1>2, <1>4, <1>5, FS_Injection DEF n
<1>7. \A x \in S : \E i \in 1 .. n : s[i] = x
  BY <1>6 DEF Surjection
<1>8. ToSet(s) = S
  BY <1>1, <1>7 DEF ToSet
<1> QED BY <1>1, <1>3, <1>8 DEF s

-----------------------------------------------------------------------------
(***************************************************************************)
(* Type correctness.                                                       *)
(***************************************************************************)
Colors == {"free", "gray", "black"} \union Whites

\* A tint gives objects colours.
LEMMA TintType ==
  ASSUME NEW c \in [Obj -> Colors], NEW M
  PROVE  Tint(c, M) \in [Obj -> Colors] /\ Greyed(c, M) \intersect Obj \subseteq Tables \union Functions_
BY DEF Tint, Greyed, Colors, Obj

\* The shape of a heap at the start.
LEMMA TypeInit == Init => TypeOK /\ Queued
<1> SUFFICES ASSUME Init PROVE TypeOK /\ Queued
  OBVIOUS
<1>1. PICK start \in Starts : /\ fields = start.fields /\ mode = start.mode
                              /\ holds = start.holds /\ held = start.held
  BY DEF Init
<1>2. /\ fields \in [Tables -> SUBSET (Parts \X Parts)]
      /\ mode \in [Tables -> Modes]
      /\ holds \in [Functions_ -> Parts \union {Nil}]
      /\ held \subseteq Obj
  <2>1. /\ start.fields \in [Tables -> SUBSET ((Obj \union {Plain}) \X (Obj \union {Plain}))]
        /\ start.mode \in [Tables -> SUBSET {"key", "value"}]
        /\ start.holds \in [Functions_ -> Obj \union {Plain, Nil}]
        /\ start.held \subseteq Obj
    BY KeepAliveAssumption
  <2>2. Parts \union {Nil} = Obj \union {Plain, Nil}
    BY DEF Parts
  <2> QED BY <1>1, <2>1, <2>2 DEF Parts, Modes
<1>3. color \in [Obj -> Colors] /\ white \in Whites
  BY DEF Init, Colors, Whites
<1>4. tmudata \in Seq(Userdata) /\ finalized = {} /\ batch = {} /\ tmudata = <<>>
  BY EmptySeq DEF Init
<1>5. ToSet(tmudata) = {} /\ DOMAIN tmudata = {}
  BY <1>4 DEF ToSet
<1>6. /\ phase \in {"Pause", "Propagate", "Sweep", "Finalize"}
      /\ frozen = {} /\ pinned = {} /\ gray = {} /\ again = {} /\ weak = {} /\ unswept = {}
  BY DEF Init
<1>7. TypeOK
  BY <1>2, <1>3, <1>4, <1>6 DEF TypeOK, Colors
<1>8. Queued
  BY <1>4, <1>5 DEF Queued
<1> QED BY <1>7, <1>8

\* What the atomic phase does to the queue.
LEMMA AtomicQueue ==
  ASSUME TypeOK, Atomic
  PROVE  \E lost \in SUBSET (Userdata \ finalized) :
           /\ lost = Lost(ThroughMarks(color).color)
           /\ finalized' = finalized \union lost /\ batch' = lost
           /\ tmudata' = tmudata \o ByAge(lost)
           /\ tmudata' \in Seq(Userdata)
           /\ ToSet(tmudata') = ToSet(tmudata) \union lost
<1> DEFINE lost == Lost(ThroughMarks(color).color)
<1>1. finalized' = finalized \union lost /\ batch' = lost /\ tmudata' = tmudata \o ByAge(lost)
  BY DEF Atomic
<1>2. lost \in SUBSET (Userdata \ finalized)
  BY DEF Lost
<1> HIDE DEF lost
<1>3. tmudata \in Seq(Userdata) /\ ByAge(lost) \in Seq(Userdata) /\ ToSet(ByAge(lost)) = lost
  BY <1>2, ByAgeIs DEF TypeOK
<1>4. /\ tmudata' \in Seq(Userdata)
      /\ Len(tmudata') = Len(tmudata) + Len(ByAge(lost))
      /\ \A i \in 1 .. Len(tmudata) + Len(ByAge(lost)) :
           tmudata'[i] = IF i <= Len(tmudata) THEN tmudata[i] ELSE ByAge(lost)[i - Len(tmudata)]
  BY <1>1, <1>3, ConcatProperties
<1>5. /\ Len(tmudata) \in Nat /\ Len(ByAge(lost)) \in Nat
      /\ \A x : x \in ToSet(tmudata) <=> \E i \in 1 .. Len(tmudata) : tmudata[i] = x
      /\ \A x : x \in ToSet(ByAge(lost)) <=> \E i \in 1 .. Len(ByAge(lost)) : ByAge(lost)[i] = x
      /\ \A x : x \in ToSet(tmudata') <=> \E i \in 1 .. Len(tmudata') : tmudata'[i] = x
  BY <1>3, <1>4, QueueIs
<1>6. ASSUME NEW x \in ToSet(tmudata') PROVE x \in ToSet(tmudata) \union lost
  <2>1. PICK i \in 1 .. Len(tmudata) + Len(ByAge(lost)) : tmudata'[i] = x
    BY <1>4, <1>5, <1>6
  <2>2. CASE i <= Len(tmudata)
    BY <1>4, <1>5, <2>1, <2>2
  <2>3. CASE i > Len(tmudata)
    <3>1. i - Len(tmudata) \in 1 .. Len(ByAge(lost)) /\ x = ByAge(lost)[i - Len(tmudata)]
      BY <1>4, <1>5, <2>1, <2>3
    <3> QED BY <1>3, <1>5, <3>1
  <2> QED BY <1>5, <2>2, <2>3
<1>7. ASSUME NEW x \in ToSet(tmudata) PROVE x \in ToSet(tmudata')
  <2>1. PICK i \in 1 .. Len(tmudata) : tmudata[i] = x
    BY <1>5, <1>7
  <2>2. i \in 1 .. Len(tmudata') /\ tmudata'[i] = x
    BY <1>4, <1>5, <2>1
  <2> QED BY <1>5, <2>2
<1>8. ASSUME NEW x \in lost PROVE x \in ToSet(tmudata')
  <2>1. PICK i \in 1 .. Len(ByAge(lost)) : ByAge(lost)[i] = x
    BY <1>3, <1>5, <1>8
  <2>2. Len(tmudata) + i \in 1 .. Len(tmudata') /\ tmudata'[Len(tmudata) + i] = ByAge(lost)[(Len(tmudata) + i) - Len(tmudata)]
        /\ (Len(tmudata) + i) - Len(tmudata) = i
    BY <1>4, <1>5, <2>1
  <2> QED BY <1>5, <2>1, <2>2
<1> QED BY <1>1, <1>2, <1>4, <1>6, <1>7, <1>8 DEF lost

\* What the call of a finalizer does to the queue.
LEMMA CallQueue ==
  ASSUME TypeOK, CallFinalizer
  PROVE  /\ tmudata' \in Seq(Userdata) /\ Len(tmudata') = Len(tmudata) - 1
         /\ Last(tmudata) \in ToSet(tmudata) /\ Last(tmudata) = tmudata[Len(tmudata)]
         /\ \A i \in DOMAIN tmudata' : i \in DOMAIN tmudata /\ i < Len(tmudata) /\ tmudata'[i] = tmudata[i]
         /\ ToSet(tmudata') \subseteq ToSet(tmudata)
<1>1. tmudata \in Seq(Userdata) /\ tmudata # <<>> /\ tmudata' = Front(tmudata)
  BY DEF TypeOK, CallFinalizer
<1>2. /\ tmudata' \in Seq(Userdata) /\ Len(tmudata') = Len(tmudata) - 1
      /\ Len(tmudata) \in Nat /\ DOMAIN tmudata = 1 .. Len(tmudata)
      /\ Last(tmudata) \in ToSet(tmudata) /\ Last(tmudata) = tmudata[Len(tmudata)]
      /\ \A i \in 1 .. Len(tmudata) - 1 : tmudata'[i] = tmudata[i]
      /\ \A x : x \in ToSet(tmudata) <=> \E i \in 1 .. Len(tmudata) : tmudata[i] = x
  BY <1>1, QueueIs
<1>3. /\ DOMAIN tmudata' = 1 .. Len(tmudata) - 1
      /\ \A x : x \in ToSet(tmudata') <=> \E i \in 1 .. Len(tmudata) - 1 : tmudata'[i] = x
  BY <1>2, QueueIs
<1>4. \A i \in 1 .. Len(tmudata) - 1 : i \in 1 .. Len(tmudata) /\ i < Len(tmudata)
  BY <1>2
<1> QED BY <1>2, <1>3, <1>4

\* Every step keeps the shape.
LEMMA TypeStep == TypeOK /\ [Next]_vars => TypeOK'
<1> SUFFICES ASSUME TypeOK, [Next]_vars PROVE TypeOK'
  OBVIOUS
<1> USE DEF heapVars, flagVars, gcVars, udVars
<1>0. /\ color \in [Obj -> Colors] /\ white \in Whites /\ Other \in Whites
      /\ \A M : Tint(color, M) \in [Obj -> Colors]
      /\ \A M : Greyed(color, M) \intersect Obj \subseteq Obj
  BY TintType DEF TypeOK, Colors, Other, Whites
<1>1. CASE UNCHANGED vars
  BY <1>1 DEF TypeOK, vars
<1>2. CASE Moves
  <2>1. held' \subseteq Obj /\ UNCHANGED <<fields, mode, holds, flagVars, udVars, gcVars>>
    BY <1>2, WithinObj DEF Moves, Drop, Load, TypeOK
  <2> QED BY <2>1 DEF TypeOK
<1>3. CASE StartCycle
  <2>1. color' \in [Obj -> Colors] /\ gray' \subseteq Obj
    BY <1>0, <1>3 DEF StartCycle, Greyed, TypeOK
  <2> QED BY <1>3, <2>1 DEF StartCycle, TypeOK, Colors
<1>4. CASE PropagateOne
  <2>1. PICK o \in gray :
          LET c == [color EXCEPT ![o] = "black"]
          IN /\ color' = Tint(c, Walked(o))
             /\ gray' = (gray \ {o}) \union Greyed(c, Walked(o))
             /\ weak' = IF IsWeak(o) THEN weak \union {o} ELSE weak
    BY <1>4 DEF PropagateOne
  <2>2. [color EXCEPT ![o] = "black"] \in [Obj -> Colors]
    BY <1>0 DEF Colors
  <2>3. color' \in [Obj -> Colors]
    BY <2>1, <2>2, TintType
  <2>4. gray' \subseteq Obj /\ weak' \subseteq Tables
    BY <2>1, WithinObj DEF Greyed, IsWeak, Walked, TypeOK
  <2> QED BY <1>4, <2>3, <2>4 DEF PropagateOne, TypeOK, Colors
<1>5. CASE Atomic
  <2>1. color' \in [Obj -> Colors]
    <3>1. \E d, W, k : /\ d \in [Obj -> Colors]
                       /\ color' = [o \in Obj |-> IF o \in k /\ W[o] # "free" THEN Other ELSE W[o]]
                       /\ W \in [Obj -> Colors]
      <4> DEFINE m == ThroughMarks(color)
                 lost == Lost(m.color)
                 c == [o \in Obj |-> IF o \in lost \union ToSet(tmudata) THEN "black" ELSE m.color[o]]
      <4>1. m.color \in [Obj -> Colors]
        <5>1. m.color = PropagateAll(Tint(color, held), gray \union again \union Greyed(color, held))
          BY DEF ThroughMarks
        <5>2. \A S, e \in [Obj -> Colors] : PropagateAll(e, S) \in [Obj -> Colors]
          BY DEF PropagateAll, Colors
        <5> QED BY <1>0, <5>1, <5>2 DEF PropagateAll, Colors
      <4>2. c \in [Obj -> Colors]
        <5> HIDE DEF m, lost
        <5> QED BY <4>1 DEF Colors
      <4>3. color' = [o \in Obj |-> IF o \in KeptStrings(m.weak) /\ c[o] # "free" THEN Other ELSE c[o]]
        BY <1>5 DEF Atomic
      <4> HIDE DEF m, lost, c
      <4> QED BY <4>1, <4>2, <4>3
    <3> QED BY <1>0, <3>1 DEF Colors
  <2>2. fields' \in [Tables -> SUBSET (Parts \X Parts)]
    <3>1. \A t \in Tables : \A C : fields[t] \ C \in SUBSET (Parts \X Parts)
      BY DEF TypeOK
    <3>2. \E W, C : fields' = [t \in Tables |-> IF t \in W THEN fields[t] \ C[t] ELSE fields[t]]
      <4> DEFINE m == ThroughMarks(color)
                 lost == Lost(m.color)
                 c == [o \in Obj |-> IF o \in lost \union ToSet(tmudata) THEN "black" ELSE m.color[o]]
                 C == [t \in Tables |-> Cleared(c, finalized \union lost, t, white)]
      <4>1. fields' = [t \in Tables |-> IF t \in m.weak THEN fields[t] \ Cleared(c, finalized \union lost, t, white) ELSE fields[t]]
        BY <1>5 DEF Atomic
      <4>2. \A t \in Tables : C[t] = Cleared(c, finalized \union lost, t, white)
        OBVIOUS
      <4> HIDE DEF m, lost, c, C
      <4>3. fields' = [t \in Tables |-> IF t \in m.weak THEN fields[t] \ C[t] ELSE fields[t]]
        BY <4>1, <4>2
      <4> QED BY <4>3
    <3> QED BY <3>1, <3>2 DEF TypeOK
  <2>3. tmudata' \in Seq(Userdata) /\ finalized' \subseteq Userdata
    BY <1>5, AtomicQueue DEF TypeOK
  <2>4. /\ white' = Other /\ weak' = {} /\ again' = {} /\ phase' = "Sweep" /\ unswept' \subseteq Obj
        /\ UNCHANGED <<mode, holds, held, frozen, pinned, gray>>
    BY <1>5 DEF Atomic
  <2> QED BY <1>0, <2>1, <2>2, <2>3, <2>4 DEF TypeOK, Colors
<1>6. ASSUME NEW S, Sweep(S) PROVE TypeOK'
  <2>1. color' \in [Obj -> Colors]
    BY <1>0, <1>6 DEF Sweep, Colors
  <2>2. fields' \in [Tables -> SUBSET (Parts \X Parts)] /\ holds' \in [Functions_ -> Parts \union {Nil}]
    BY <1>6 DEF Sweep, TypeOK
  <2> QED BY <1>6, <2>1, <2>2 DEF Sweep, TypeOK, Colors
<1>7. CASE CallFinalizer
  <2>1. tmudata' \in Seq(Userdata) /\ Last(tmudata) \in Userdata
    <3>1. Last(tmudata) \in ToSet(tmudata) /\ ToSet(tmudata) \subseteq Userdata
      BY <1>7, CallQueue, QueueIs DEF TypeOK
    <3> QED BY <1>7, <3>1, CallQueue
  <2>2. held' \subseteq Obj
    BY <1>7, <2>1, Kinds DEF CallFinalizer, TypeOK
  <2> QED BY <1>7, <2>1, <2>2 DEF CallFinalizer, TypeOK
<1>8. CASE EndCycle
  BY <1>8 DEF EndCycle, TypeOK
<1>b. ASSUME NEW t \in Tables, BarrierBack(t)
      PROVE  color' \in [Obj -> Colors] /\ again' \subseteq Tables
  BY <1>0, <1>b DEF BarrierBack, Colors, TypeOK
<1>9. ASSUME NEW t \in Tables, NEW k \in Obj \union {Plain}, NEW v \in Obj \union {Plain}, Store(t, k, v)
      PROVE  TypeOK'
  <2>1. fields' \in [Tables -> SUBSET (Parts \X Parts)]
    BY <1>9 DEF Store, TypeOK, Parts
  <2>2. color' \in [Obj -> Colors] /\ again' \subseteq Tables
    BY <1>9, <1>b DEF Store
  <2> QED BY <1>9, <2>1, <2>2 DEF Store, TypeOK, Colors
<1>10. ASSUME NEW t \in Tables, NEW m \in Modes, SetMetatable(t, m) \/ WriteMode(t, m) PROVE TypeOK'
  <2>1. mode' \in [Tables -> Modes]
    BY <1>10 DEF SetMetatable, WriteMode, TypeOK
  <2>2. color' \in [Obj -> Colors] /\ again' \subseteq Tables
    BY <1>0, <1>10, <1>b DEF SetMetatable, WriteMode, TypeOK
  <2> QED BY <1>10, <2>1, <2>2 DEF SetMetatable, WriteMode, TypeOK, Colors
<1>11. ASSUME NEW t \in Tables, Freeze(t) PROVE TypeOK'
  <2>1. frozen' \subseteq Obj
    <3>1. Graph(t) \subseteq Obj
      BY ClosureLeast, Kinds DEF Graph
    <3> QED BY <1>11, <3>1 DEF Freeze, TypeOK
  <2> QED BY <1>11, <2>1 DEF Freeze, TypeOK
<1>12. ASSUME NEW o \in Obj, Pin(o) PROVE TypeOK'
  BY <1>12 DEF Pin, TypeOK
<1>13. ASSUME NEW f \in Functions_, NEW v \in Obj, SetUpvalue(f, v) PROVE TypeOK'
  <2>1. holds' \in [Functions_ -> Parts \union {Nil}]
    BY <1>13 DEF SetUpvalue, TypeOK, Parts
  <2>2. color' \in [Obj -> Colors] /\ gray' \subseteq Obj
    BY <1>0, <1>13 DEF SetUpvalue, TypeOK, Greyed
  <2> QED BY <1>13, <2>1, <2>2 DEF SetUpvalue, TypeOK, Colors
<1> QED BY <1>1, <1>2, <1>3, <1>4, <1>5, <1>6, <1>7, <1>8, <1>9, <1>10, <1>11, <1>12, <1>13
        DEF Next, Collect, Writes, SweepStrings, SweepOther

\* The shape of every reachable state (all of KeepAlive's actions).
THEOREM TypeCorrect == Spec => []TypeOK
<1>1. Init => TypeOK
  BY TypeInit
<1> QED BY <1>1, TypeStep, PTL DEF Spec

-----------------------------------------------------------------------------
(***************************************************************************)
(* The order of finalizers.                                                *)
(***************************************************************************)
\* A step leaves the queue as it is, adds those that were found, or takes the last one.
LEMMA QueueStep ==
  ASSUME TypeOK, [Next]_vars
  PROVE  Atomic \/ CallFinalizer \/ UNCHANGED udVars
BY DEF Next, vars, Moves, Collect, Writes, Load, Drop, Store, SetMetatable, WriteMode, Freeze, Pin,
       SetUpvalue, StartCycle, PropagateOne, EndCycle, Sweep, SweepStrings, SweepOther

\* What the atomic phase puts behind the queue is in order, and nothing of it waited before.
LEMMA AtomicQueued == TypeOK /\ Queued /\ Atomic => Queued'
<1> SUFFICES ASSUME TypeOK, Queued, Atomic PROVE Queued'
  OBVIOUS
<1>1. PICK lost \in SUBSET (Userdata \ finalized) :
        /\ finalized' = finalized \union lost /\ batch' = lost
        /\ tmudata' = tmudata \o ByAge(lost)
        /\ tmudata' \in Seq(Userdata)
        /\ ToSet(tmudata') = ToSet(tmudata) \union lost
  BY AtomicQueue
<1>2. tmudata \in Seq(Userdata) /\ ByAge(lost) \in Seq(Userdata) /\ Rising(ByAge(lost))
  BY <1>1, ByAgeIs DEF TypeOK
<1> DEFINE n == Len(tmudata)
           m == Len(ByAge(lost))
<1>3. n \in Nat /\ m \in Nat /\ DOMAIN tmudata = 1 .. n /\ DOMAIN ByAge(lost) = 1 .. m
  BY <1>2, LenProperties
<1>4. /\ DOMAIN tmudata' = 1 .. n + m
      /\ \A i \in 1 .. n + m : tmudata'[i] = IF i <= n THEN tmudata[i] ELSE ByAge(lost)[i - n]
  <2>1. Len(tmudata') = n + m
        /\ \A i \in 1 .. n + m : tmudata'[i] = IF i <= n THEN tmudata[i] ELSE ByAge(lost)[i - n]
    BY <1>1, <1>2, ConcatProperties
  <2>2. DOMAIN tmudata' = 1 .. Len(tmudata')
    BY <1>1, LenProperties
  <2> QED BY <2>1, <2>2
<1> HIDE DEF n, m
<1>5. \A i \in 1 .. n : tmudata[i] \in finalized
  BY <1>3 DEF Queued, ToSet
<1>6. ASSUME NEW i \in 1 .. n + m, NEW j \in 1 .. n + m, i < j, tmudata'[i] \in lost, tmudata'[j] \in lost
      PROVE  Age[tmudata'[i]] < Age[tmudata'[j]]
  <2>1. ~ (i <= n) /\ ~ (j <= n)
    <3>1. \A k \in 1 .. n + m : k <= n => k \in 1 .. n
      BY <1>3
    <3>2. \A k \in 1 .. n + m : k <= n => tmudata'[k] \in finalized
      BY <1>4, <1>5, <3>1
    <3> QED BY <1>1, <1>6, <3>2
  <2>2. i - n \in 1 .. m /\ j - n \in 1 .. m /\ i - n < j - n
    BY <1>3, <1>6, <2>1
  <2>3. Age[ByAge(lost)[i - n]] < Age[ByAge(lost)[j - n]]
    BY <1>2, <1>3, <2>2 DEF Rising
  <2> QED BY <1>4, <2>1, <2>3
<1>7. ToSet(tmudata') \union batch' \subseteq finalized'
  BY <1>1 DEF Queued
<1> QED BY <1>1, <1>4, <1>6, <1>7 DEF Queued

\* Taking the last one off the queue leaves the others in order.
LEMMA CallQueued == TypeOK /\ Queued /\ CallFinalizer => Queued'
<1> SUFFICES ASSUME TypeOK, Queued, CallFinalizer PROVE Queued'
  OBVIOUS
<1>1. batch' = batch \ {Last(tmudata)} /\ finalized' = finalized
  BY DEF CallFinalizer
<1>2. /\ \A i \in DOMAIN tmudata' : i \in DOMAIN tmudata /\ tmudata'[i] = tmudata[i]
      /\ ToSet(tmudata') \subseteq ToSet(tmudata)
  BY CallQueue
<1> QED BY <1>1, <1>2 DEF Queued

\* Userdata wait in the order in which those found together were created.
LEMMA QueuedInvariant == Spec => [](TypeOK /\ Queued)
<1>1. Init => TypeOK /\ Queued
  BY TypeInit
<1>2. TypeOK /\ Queued /\ [Next]_vars => (TypeOK /\ Queued)'
  <2> SUFFICES ASSUME TypeOK, Queued, [Next]_vars PROVE TypeOK' /\ Queued'
    OBVIOUS
  <2>1. CASE UNCHANGED udVars
    BY <2>1, TypeStep DEF udVars, Queued
  <2> QED BY <2>1, QueueStep, TypeStep, AtomicQueued, CallQueued
<1> QED BY <1>1, <1>2, PTL DEF Spec

\* Of the userdata found lost in one cycle, the newest is finalized first, whatever else is
\* waiting (separate_userdata, call_gc_finalizer).
THEOREM FinalizersOrdered == Spec => NewestFirst
<1> DEFINE A == batch' # batch /\ Len(tmudata') < Len(tmudata)
                => /\ Last(tmudata) \in batch
                   /\ \A x \in batch \intersect ToSet(tmudata') : Age[x] < Age[Last(tmudata)]
<1>1. TypeOK /\ Queued /\ [Next]_vars => [A]_vars
  <2> SUFFICES ASSUME TypeOK, Queued, [Next]_vars, batch' # batch, Len(tmudata') < Len(tmudata)
               PROVE  /\ Last(tmudata) \in batch
                      /\ \A x \in batch \intersect ToSet(tmudata') : Age[x] < Age[Last(tmudata)]
    OBVIOUS
  <2>1. ~ UNCHANGED udVars
    BY DEF udVars
  <2>2. ~ Atomic
    <3> SUFFICES ASSUME Atomic PROVE FALSE
      OBVIOUS
    <3>1. PICK lost \in SUBSET (Userdata \ finalized) : tmudata' = tmudata \o ByAge(lost)
      BY AtomicQueue
    <3>2. tmudata \in Seq(Userdata) /\ ByAge(lost) \in Seq(Userdata)
      BY ByAgeIs DEF TypeOK
    <3>3. Len(tmudata') = Len(tmudata) + Len(ByAge(lost)) /\ Len(tmudata) \in Nat /\ Len(ByAge(lost)) \in Nat
      BY <3>1, <3>2, ConcatProperties, LenProperties
    <3> QED BY <3>3
  <2>3. CallFinalizer
    BY <2>1, <2>2, QueueStep
  <2>4. batch' = batch \ {Last(tmudata)}
    BY <2>3 DEF CallFinalizer
  <2>5. Last(tmudata) \in batch
    BY <2>4
  <2>6. /\ Last(tmudata) = tmudata[Len(tmudata)]
        /\ \A i \in DOMAIN tmudata' : i \in DOMAIN tmudata /\ i < Len(tmudata) /\ tmudata'[i] = tmudata[i]
    BY <2>3, CallQueue
  <2>7. Len(tmudata) \in DOMAIN tmudata
    <3>1. tmudata \in Seq(Userdata) /\ tmudata # <<>>
      BY <2>3 DEF CallFinalizer, TypeOK
    <3>2. DOMAIN tmudata = 1 .. Len(tmudata) /\ Len(tmudata) \in Nat /\ Len(tmudata) >= 1
      BY <3>1, QueueIs
    <3> QED BY <3>2
  <2>8. ASSUME NEW x \in batch \intersect ToSet(tmudata') PROVE Age[x] < Age[Last(tmudata)]
    <3>1. PICK i \in DOMAIN tmudata' : tmudata'[i] = x
      BY DEF ToSet
    <3>2. i \in DOMAIN tmudata /\ i < Len(tmudata) /\ tmudata[i] = x
      BY <2>6, <3>1
    <3> QED BY <2>5, <2>6, <2>7, <2>8, <3>2 DEF Queued
  <2> QED BY <2>5, <2>8
<1> QED BY <1>1, QueuedInvariant, PTL DEF Spec, NewestFirst

-----------------------------------------------------------------------------
(***************************************************************************)
(* What stays when parts of the state do.                                  *)
(***************************************************************************)
\* Objects mention what they did, or less.
LEMMA WithinKept ==
  ASSUME NEW o, o \in Tables => fields'[o] \subseteq fields[o],
         o \in Functions_ => holds'[o] = holds[o]
  PROVE  Within(o)' \subseteq Within(o)
<1>1. CASE o \in Tables
  <2>1. Mentioned(o)' \subseteq Mentioned(o)
    BY <1>1 DEF Mentioned
  <2> QED BY <1>1, <2>1 DEF Within
<1>2. CASE o \notin Tables
  BY <1>2 DEF Within
<1> QED BY <1>1, <1>2

\* Of an object that is followed, everything still is.
LEMMA FollowedKept ==
  ASSUME NEW o, Followed(color, weak, o),
         o \in Tables => fields'[o] \subseteq fields[o] /\ mode[o] \subseteq mode'[o],
         o \in Functions_ => holds'[o] = holds[o],
         o \in weak => o \in weak',
         white' = white, frozen \subseteq frozen',
         \A x \in Obj : color[x] # white => color'[x] # white
  PROVE  Followed(color, weak, o)'
<1>1. \A x : Marked(color, x) => Marked(color, x)'
  BY DEF Marked
<1> QED BY <1>1 DEF Followed

\* Nothing is live that was not when only marks are made.
LEMMA LiveKept ==
  ASSUME UNCHANGED white, frozen \subseteq frozen', pinned \subseteq pinned',
         phase' = "Sweep" => phase = "Sweep" /\ color' = color,
         phase = "Sweep" => phase' = "Sweep" /\ UNCHANGED <<frozen, pinned>>,
         \A o \in Obj : color'[o] = "free" <=> color[o] = "free"
  PROVE  Live' = Live
BY DEF Live, Other, KeptAlive

\* The parts of the invariant that speak of what is live.
LEMMA LiveStep ==
  ASSUME AllLive, Live' = Live, Roots' \subseteq Live,
         \A o \in Live : Within(o)' \subseteq Live
  PROVE  AllLive'
BY DEF AllLive

-----------------------------------------------------------------------------
(***************************************************************************)
(* The collector marks.                                                    *)
(***************************************************************************)
\* A tint of objects makes nothing white or free, and keeps what is black.
LEMMA TintKeeps ==
  ASSUME TypeOK, NEW c, NEW M
  PROVE  \A o \in Obj : /\ Tint(c, M)[o] = "free" <=> c[o] = "free"
                        /\ c[o] = "black" => Tint(c, M)[o] = "black"
                        /\ c[o] # white => Tint(c, M)[o] # white
                        /\ c[o] # Other => Tint(c, M)[o] # Other
                        /\ o \in M /\ c[o] \in Whites => Tint(c, M)[o] \notin Whites \/ o \in frozen
                        /\ Tint(c, M)[o] \in {"gray", "black", c[o]}
                        /\ o \notin Strings \union Userdata /\ Tint(c, M)[o] = "black" => c[o] = "black"
                        /\ Tint(c, M)[o] = "gray" <=> c[o] = "gray" \/ o \in Greyed(c, M)
<1> SUFFICES ASSUME NEW o \in Obj
             PROVE  /\ Tint(c, M)[o] = "free" <=> c[o] = "free"
                    /\ c[o] = "black" => Tint(c, M)[o] = "black"
                    /\ c[o] # white => Tint(c, M)[o] # white
                    /\ c[o] # Other => Tint(c, M)[o] # Other
                    /\ o \in M /\ c[o] \in Whites => Tint(c, M)[o] \notin Whites \/ o \in frozen
                    /\ Tint(c, M)[o] \in {"gray", "black", c[o]}
                    /\ o \notin Strings \union Userdata /\ Tint(c, M)[o] = "black" => c[o] = "black"
                    /\ Tint(c, M)[o] = "gray" <=> c[o] = "gray" \/ o \in Greyed(c, M)
  OBVIOUS
<1>1. CASE o \in M /\ Markable(c, o)
  BY <1>1, TintIs, WhitesAre DEF Markable, Whites
<1>2. CASE ~ (o \in M /\ Markable(c, o))
  BY <1>2, TintIs, WhitesAre DEF Markable, Whites
<1> QED BY <1>1, <1>2

\* A cycle starts: all is white, and what the stack holds is marked.
LEMMA StartSafe == TypeOK /\ Safe /\ StartCycle => Safe'
<1> SUFFICES ASSUME TypeOK, Safe, StartCycle PROVE Safe'
  OBVIOUS
<1>1. /\ phase \in {"Pause", "Finalize"} /\ phase' = "Propagate"
      /\ color' = Tint(color, held) /\ gray' = Greyed(color, held) /\ again' = {} /\ weak' = {}
      /\ UNCHANGED <<fields, mode, holds, held, frozen, pinned, tmudata, white>>
  BY DEF StartCycle, heapVars, flagVars, udVars
<1>2. \A o \in Obj : color[o] \in {"free", white}
  BY <1>1 DEF Safe, Colored
<1>3. Other' = Other /\ white \in Whites /\ Whites = {white, Other} /\ white # Other
      /\ Other \notin {"free", "gray", "black"} /\ white \notin {"free", "gray", "black"}
  BY <1>1, WhitesAre DEF Other
<1>4. gray' \subseteq Tables \union Functions_
  BY <1>1, Kinds DEF Greyed, TypeOK
<1>5. Colored'
  BY <1>1, <1>2, <1>3, <1>4, TintKeeps DEF Colored
<1>6. \A o : Within(o)' = Within(o)
  BY <1>1 DEF Within, Mentioned
<1>7. Live' = Live
  BY <1>1, TintKeeps, LiveKept
<1>8. Flagged'
  BY <1>1, <1>6 DEF Safe, Flagged
<1>9. AllLive'
  BY <1>1, <1>6, <1>7, LiveStep DEF Safe, AllLive, Roots
<1>10. \A o \in Tables \union Functions_ : color'[o] # "black"
  BY <1>1, <1>2, <1>3, Kinds, TintKeeps
<1> QED BY <1>1, <1>5, <1>8, <1>9, <1>10 DEF Safe, BlackFollowed

\* A gray object turns black, and what it refers to is marked.
LEMMA PropagateSafe == TypeOK /\ Safe /\ PropagateOne => Safe'
<1> SUFFICES ASSUME TypeOK, Safe, PropagateOne PROVE Safe'
  OBVIOUS
<1>1. /\ phase = "Propagate" /\ phase' = "Propagate"
      /\ UNCHANGED <<fields, mode, holds, held, frozen, pinned, tmudata, white, again>>
  BY DEF PropagateOne, heapVars, flagVars, udVars
<1>2. PICK o \in gray :
        LET c == [color EXCEPT ![o] = "black"]
        IN /\ color' = Tint(c, Walked(o))
           /\ gray' = (gray \ {o}) \union Greyed(c, Walked(o))
           /\ weak' = IF IsWeak(o) THEN weak \union {o} ELSE weak
  BY DEF PropagateOne
<1> DEFINE c == [color EXCEPT ![o] = "black"]
<1>3. color' = Tint(c, Walked(o)) /\ gray' = (gray \ {o}) \union Greyed(c, Walked(o))
  BY <1>2
<1>4. o \in Obj /\ o \in Tables \union Functions_ /\ color[o] = "gray" /\ o \notin again
  BY <1>1, Kinds DEF Safe, Colored
<1>5. Other' = Other /\ Whites = {white, Other} /\ white # Other
      /\ Other \notin {"free", "gray", "black"} /\ white \notin {"free", "gray", "black"}
  BY <1>1, WhitesAre DEF Other
<1>6. \A x \in Obj : c[x] = IF x = o THEN "black" ELSE color[x]
  BY <1>4 DEF TypeOK
<1> HIDE DEF c
<1>7. \A x \in Obj : /\ color'[x] = "free" <=> color[x] = "free"
                     /\ color[x] # white => color'[x] # white
                     /\ color'[x] # Other
                     /\ color'[x] = "gray" <=> x # o /\ (color[x] = "gray" \/ x \in Greyed(c, Walked(o)))
                     /\ x \notin Strings \union Userdata /\ color'[x] = "black" => x = o \/ color[x] = "black"
  <2> SUFFICES ASSUME NEW x \in Obj
               PROVE  /\ color'[x] = "free" <=> color[x] = "free"
                      /\ color[x] # white => color'[x] # white
                      /\ color'[x] # Other
                      /\ color'[x] = "gray" <=> x # o /\ (color[x] = "gray" \/ x \in Greyed(c, Walked(o)))
                      /\ x \notin Strings \union Userdata /\ color'[x] = "black" => x = o \/ color[x] = "black"
    OBVIOUS
  <2>1. /\ color'[x] = "free" <=> c[x] = "free"
        /\ c[x] = "black" => color'[x] = "black"
        /\ c[x] # white => color'[x] # white
        /\ c[x] # Other => color'[x] # Other
        /\ x \notin Strings \union Userdata /\ color'[x] = "black" => c[x] = "black"
        /\ color'[x] = "gray" <=> c[x] = "gray" \/ x \in Greyed(c, Walked(o))
    BY <1>3, TintKeeps
  <2>2. color[x] # Other
    BY <1>1 DEF Safe, Colored
  <2>3. CASE x = o
    BY <1>4, <1>5, <1>6, <2>1, <2>3
  <2>4. CASE x # o
    BY <1>5, <1>6, <2>1, <2>2, <2>4
  <2> QED BY <2>3, <2>4
<1>8. gray' \subseteq Tables \union Functions_ /\ gray' \intersect again' = {} /\ o \notin gray'
  <2>1. \A x \in Greyed(c, Walked(o)) : x \in Obj /\ x \in Tables \union Functions_ /\ c[x] \in Whites
    BY WithinObj, Kinds DEF Greyed, Markable, Walked
  <2>2. \A x \in Greyed(c, Walked(o)) : x # o /\ color[x] # "gray"
    BY <1>5, <1>6, <2>1
  <2> QED BY <1>1, <1>3, <2>1, <2>2 DEF Safe, Colored
<1>9. Colored'
  <2>1. \A x \in Obj : color'[x] = "gray" <=> x \in gray' \union again'
    BY <1>1, <1>3, <1>4, <1>7, <1>8 DEF Safe, Colored
  <2>2. \A x \in Obj : color'[x] # Other'
    BY <1>5, <1>7
  <2>3. gray' \union again' \subseteq Tables \union Functions_ /\ gray' \intersect again' = {}
    BY <1>1, <1>8 DEF Safe, Colored
  <2> QED BY <1>1, <2>1, <2>2, <2>3 DEF Colored
<1>10. \A x : Within(x)' = Within(x)
  BY <1>1 DEF Within, Mentioned
<1>11. Flagged'
  BY <1>1, <1>10 DEF Safe, Flagged
<1>12. AllLive'
  <2>1. Live' = Live
    BY <1>1, <1>7, LiveKept
  <2> QED BY <1>1, <1>10, <2>1, LiveStep DEF Safe, AllLive, Roots
<1>13. ASSUME NEW x \in (Tables \union Functions_) \ frozen, color'[x] = "black" PROVE Followed(color, weak, x)'
  <2>1. CASE color[x] = "black"
    <3>1. Followed(color, weak, x)
      BY <1>1, <1>13, <2>1 DEF Safe, BlackFollowed
    <3>2. x \in weak => x \in weak'
      BY <1>2
    <3> QED BY <1>1, <1>7, <3>1, <3>2, FollowedKept
  <2>2. CASE color[x] # "black"
    <3>1. x = o
      BY <1>7, <1>13, <2>2, Kinds
    <3>2. Walked(o) = Children(o)
      BY <1>13, <3>1 DEF Walked
    <3>3. \A y \in Children(o) : y \in Obj /\ Marked(color, y)'
      <4> SUFFICES ASSUME NEW y \in Children(o) PROVE y \in Obj /\ Marked(color, y)'
        OBVIOUS
      <4>1. y \in Obj
        BY WithinObj
      <4>2. c[y] \in Whites => color'[y] \notin Whites \/ y \in frozen
        BY <1>3, <3>2, <4>1, TintKeeps
      <4>3. c[y] # white => color'[y] # white
        BY <1>3, <4>1, TintKeeps
      <4>4. c[y] = white => c[y] \in Whites
        BY <1>5
      <4> QED BY <1>1, <1>5, <4>1, <4>2, <4>3, <4>4 DEF Marked
    <3>4. CASE o \in Functions_
      <4>1. o \notin Tables
        BY <3>4, Kinds
      <4>2. holds[o] \in Obj => holds[o] \in Children(o)
        BY <3>4, <4>1 DEF Children, Within
      <4>3. Marked(color, holds[o])'
        BY <1>1, <3>3, <4>2 DEF Marked
      <4> QED BY <3>1, <4>1, <4>3 DEF Followed
    <3>5. CASE o \in Tables
      <4>1. o \notin Functions_
        BY <3>5, Kinds
      <4>2. Children(o) = Strong(o)
        BY <3>5 DEF Children
      <4>3. mode[o] # {} => o \in weak'
        BY <1>2, <1>13, <3>1, <3>5 DEF IsWeak
      <4>4. ASSUME NEW f \in fields[o]
            PROVE  /\ Marked(color, f[1])' \/ (o \in weak' /\ "key" \in mode[o])
                   /\ Marked(color, f[2])' \/ (o \in weak' /\ "value" \in mode[o])
        <5>1. f[1] \in Obj /\ "key" \notin mode[o] => f[1] \in Strong(o)
          BY <4>4 DEF Strong
        <5>2. f[2] \in Obj /\ "value" \notin mode[o] => f[2] \in Strong(o)
          BY <4>4 DEF Strong
        <5>3. \A y : y \notin Obj => Marked(color, y)'
          BY DEF Marked
        <5> QED BY <3>3, <4>2, <4>3, <5>1, <5>2, <5>3
      <4> QED BY <1>1, <3>1, <3>5, <4>1, <4>4 DEF Followed
    <3> QED BY <1>4, <3>4, <3>5
  <2> QED BY <2>1, <2>2
<1> QED BY <1>1, <1>9, <1>11, <1>12, <1>13 DEF Safe, BlackFollowed

\* An object is followed when all its strong children are marked and its mode is known.
LEMMA ChildrenFollowed ==
  ASSUME NEW o \in Tables \union Functions_, NEW d, NEW W,
         \A y \in Children(o) : Marked(d, y),
         o \in Tables /\ mode[o] # {} => o \in W,
         TypeOK
  PROVE  Followed(d, W, o)
<1>1. \A y : y \notin Obj => Marked(d, y)
  BY DEF Marked
<1>2. CASE o \in Functions_
  <2>1. o \notin Tables
    BY <1>2, Kinds
  <2>2. holds[o] \in Obj => holds[o] \in Children(o)
    BY <1>2, <2>1 DEF Children, Within
  <2> QED BY <1>1, <2>1, <2>2 DEF Followed
<1>3. CASE o \in Tables
  <2>1. o \notin Functions_
    BY <1>3, Kinds
  <2>2. Children(o) = Strong(o)
    BY <1>3 DEF Children
  <2>3. ASSUME NEW f \in fields[o]
        PROVE  /\ Marked(d, f[1]) \/ (o \in W /\ "key" \in mode[o])
               /\ Marked(d, f[2]) \/ (o \in W /\ "value" \in mode[o])
    <3>1. f[1] \in Obj /\ "key" \notin mode[o] => f[1] \in Strong(o)
      BY <2>3 DEF Strong
    <3>2. f[2] \in Obj /\ "value" \notin mode[o] => f[2] \in Strong(o)
      BY <2>3 DEF Strong
    <3> QED BY <1>1, <1>3, <2>2, <3>1, <3>2
  <2> QED BY <2>1, <2>3 DEF Followed
<1> QED BY <1>2, <1>3

\* What the atomic phase has marked when it comes to the userdata: everything that the stack
\* holds, and of what is black all that is not weak.
LEMMA AtomicMarks ==
  ASSUME TypeOK, Safe, phase = "Propagate", gray = {},
         NEW d, d = ThroughMarks(color).color,
         NEW W, W = ThroughMarks(color).weak
  PROVE  /\ \A o \in Obj : /\ d[o] \in {"free", white, "black"}
                           /\ d[o] = "free" <=> color[o] = "free"
         /\ \A o \in held : d[o] = "black" \/ o \in frozen
         /\ \A o \in (Tables \union Functions_) \ frozen : d[o] = "black" => Followed(d, W, o)
<1> DEFINE c == Tint(color, held)
           S == gray \union again \union Greyed(color, held)
           goes(o) == o \in S \/ (Markable(c, o) /\ o \notin Strings \union Userdata)
           links == UNION {{o} \X Walked(o) : o \in {o \in Obj : goes(o)}}
           all == Closure(S, links)
<1>1. d = [o \in Obj |-> IF o \in all /\ (goes(o) \/ Markable(c, o)) THEN "black" ELSE c[o]]
  BY DEF ThroughMarks, PropagateAll
<1>2. W = weak \union {t \in Tables : IsWeak(t) /\ d[t] = "black" /\ (color[t] # "black" \/ t \in again)}
  BY DEF ThroughMarks
<1>3. Whites = {white, Other} /\ white # Other
      /\ Other \notin {"free", "gray", "black"} /\ white \notin {"free", "gray", "black"}
  BY WhitesAre DEF TypeOK
<1>4. S \subseteq Obj
  BY Kinds DEF Greyed, TypeOK
<1>5. \A o \in Obj : goes(o) => \A y \in Walked(o) : <<o, y>> \in links
  OBVIOUS
<1> HIDE DEF S, links
<1>6. /\ S \subseteq all /\ all \subseteq Obj
      /\ \A l \in links : l[1] \in all /\ l[2] \in Obj => l[2] \in all
  BY <1>4, ClosureLeast
<1> USE DEF S
<1>7. \A o \in Obj : color[o] \in {"free", white, "gray", "black"} /\ (color[o] = "gray" <=> o \in gray \union again)
  BY <1>3 DEF Safe, Colored, TypeOK
<1>8. \A o \in Obj : /\ c[o] = "free" <=> color[o] = "free"
                     /\ color[o] = "black" => c[o] = "black"
                     /\ color[o] # white => c[o] # white
                     /\ c[o] \in {"free", white, "gray", "black"}
                     /\ o \in held /\ color[o] = white => c[o] # white \/ o \in frozen
                     /\ o \notin Strings \union Userdata /\ c[o] = "black" => color[o] = "black"
                     /\ c[o] = "gray" <=> o \in S
  <2> SUFFICES ASSUME NEW o \in Obj
               PROVE  /\ c[o] = "free" <=> color[o] = "free"
                      /\ color[o] = "black" => c[o] = "black"
                      /\ color[o] # white => c[o] # white
                      /\ c[o] \in {"free", white, "gray", "black"}
                      /\ o \in held /\ color[o] = white => c[o] # white \/ o \in frozen
                      /\ o \notin Strings \union Userdata /\ c[o] = "black" => color[o] = "black"
                      /\ c[o] = "gray" <=> o \in S
    OBVIOUS
  <2>1. /\ c[o] = "free" <=> color[o] = "free"
        /\ color[o] = "black" => c[o] = "black"
        /\ color[o] # white => c[o] # white
        /\ c[o] \in {"gray", "black", color[o]}
        /\ o \in held /\ color[o] \in Whites => c[o] \notin Whites \/ o \in frozen
        /\ o \notin Strings \union Userdata /\ c[o] = "black" => color[o] = "black"
        /\ c[o] = "gray" <=> color[o] = "gray" \/ o \in Greyed(color, held)
    BY TintKeeps
  <2> QED BY <1>3, <1>7, <2>1
<1>9. \A o \in Obj : Markable(c, o) <=> c[o] = white /\ o \notin frozen
  BY <1>3, <1>8 DEF Markable
<1> HIDE DEF c, S, all, links
<1>10. \A o \in Obj : d[o] = IF o \in all /\ (o \in S \/ Markable(c, o)) THEN "black" ELSE c[o]
  BY <1>1
<1>11. \A o \in Obj : /\ d[o] \in {"free", white, "black"}
                      /\ d[o] = "free" <=> color[o] = "free"
  <2> SUFFICES ASSUME NEW o \in Obj
               PROVE  d[o] \in {"free", white, "black"} /\ (d[o] = "free" <=> color[o] = "free")
    OBVIOUS
  <2>1. CASE o \in S
    BY <1>3, <1>6, <1>8, <1>10, <2>1
  <2>2. CASE o \notin S
    BY <1>3, <1>8, <1>9, <1>10, <2>2
  <2> QED BY <2>1, <2>2
<1>12. ASSUME NEW o \in held PROVE d[o] = "black" \/ o \in frozen
  <2>1. o \in Obj /\ color[o] # "free"
    BY DEF Safe, AllLive, Roots, Live
  <2>2. c[o] \in {"gray", "black"} \/ o \in frozen
    BY <1>3, <1>8, <2>1
  <2>3. o \in S => d[o] = "black"
    BY <1>6, <1>10, <2>1
  <2>4. c[o] = "black" => d[o] = "black"
    BY <1>10, <2>1
  <2> QED BY <1>8, <2>1, <2>2, <2>3, <2>4
<1>13. ASSUME NEW o \in (Tables \union Functions_) \ frozen, d[o] = "black" PROVE Followed(d, W, o)
  <2>1. o \in Obj /\ o \notin Strings \union Userdata
    BY <1>13, Kinds
  <2>2. CASE c[o] = "black"
    <3>1. color[o] = "black"
      BY <1>8, <2>1, <2>2
    <3>2. Followed(color, weak, o)
      BY <1>13, <3>1 DEF Safe, BlackFollowed
    <3>3. \A x \in Obj : color[x] # white => d[x] # white
      BY <1>3, <1>8, <1>10
    <3>4. \A x : Marked(color, x) => Marked(d, x)
      BY <3>3 DEF Marked
    <3>5. weak \subseteq W
      BY <1>2
    <3> QED BY <3>2, <3>4, <3>5 DEF Followed
  <2>3. CASE c[o] # "black"
    <3>1. o \in all /\ goes(o)
      BY <1>10, <1>13, <2>1, <2>3
    <3>2. Walked(o) = Children(o)
      BY <1>13 DEF Walked
    <3>3. ASSUME NEW y \in Children(o) PROVE Marked(d, y)
      <4>1. y \in Obj /\ y \in all
        <5>1. y \in Obj
          BY WithinObj
        <5>2. <<o, y>> \in links
          BY <1>5, <2>1, <3>1, <3>2
        <5> QED BY <1>6, <3>1, <5>1, <5>2
      <4>2. CASE Markable(c, y)
        BY <1>3, <1>10, <4>1, <4>2 DEF Marked
      <4>3. CASE ~ Markable(c, y)
        BY <1>3, <1>9, <1>10, <4>1, <4>3 DEF Marked
      <4> QED BY <4>2, <4>3
    <3>4. color[o] # "black"
      BY <1>8, <2>1, <2>3
    <3>5. o \in Tables /\ mode[o] # {} => o \in W
      BY <1>2, <1>13, <3>4 DEF IsWeak
    <3> QED BY <1>13, <3>3, <3>5, ChildrenFollowed
  <2> QED BY <2>2, <2>3
<1> QED BY <1>11, <1>12, <1>13

\* The atomic phase: what it leaves white is what the sweep may free.
LEMMA AtomicSafe == TypeOK /\ Queued /\ Safe /\ Atomic => Safe'
<1> SUFFICES ASSUME TypeOK, Queued, Safe, Atomic PROVE Safe'
  OBVIOUS
<1> DEFINE d == ThroughMarks(color).color
           W == ThroughMarks(color).weak
           lost == Lost(d)
           c == [o \in Obj |-> IF o \in lost \union ToSet(tmudata) THEN "black" ELSE d[o]]
           done == finalized \union lost
<1>1. /\ phase = "Propagate" /\ gray = {} /\ phase' = "Sweep"
      /\ UNCHANGED <<mode, holds, held, frozen, pinned>>
      /\ white' = Other
      /\ tmudata' = tmudata \o ByAge(lost)
      /\ fields' = [t \in Tables |-> IF t \in W THEN fields[t] \ Cleared(c, done, t, white) ELSE fields[t]]
      /\ color' = [o \in Obj |-> IF o \in KeptStrings(W) /\ c[o] # "free" THEN Other ELSE c[o]]
      /\ unswept' = {o \in Obj : color[o] # "free"}
  BY DEF Atomic, flagVars
<1>2. /\ \A o \in Obj : /\ d[o] \in {"free", white, "black"}
                        /\ d[o] = "free" <=> color[o] = "free"
      /\ \A o \in held : d[o] = "black" \/ o \in frozen
      /\ \A o \in (Tables \union Functions_) \ frozen : d[o] = "black" => Followed(d, W, o)
  BY <1>1, AtomicMarks
<1>3. /\ Whites = {white, Other} /\ white # Other /\ Other' = white
      /\ Other \notin {"free", "gray", "black"} /\ white \notin {"free", "gray", "black"}
  BY <1>1, WhitesAre DEF TypeOK, Other
<1>4. lost \subseteq Userdata /\ \A u \in lost : d[u] = white
  BY DEF Lost
<1>5. ToSet(tmudata) \subseteq Userdata /\ \A u \in ToSet(tmudata) : color[u] # "free"
  BY DEF Safe, AllLive, Roots, Live, TypeOK, ToSet
<1>6. ToSet(tmudata') = ToSet(tmudata) \union lost
  BY <1>1, AtomicQueue
<1>7. \A o \in Obj : c[o] = IF o \in lost \union ToSet(tmudata) THEN "black" ELSE d[o]
  OBVIOUS
<1> HIDE DEF d, W, lost, c, done
<1>8. \A o \in Obj : /\ c[o] \in {"free", white, "black"}
                     /\ c[o] = "free" <=> color[o] = "free"
                     /\ d[o] = "black" => c[o] = "black"
  BY <1>2, <1>3, <1>4, <1>5, <1>7, Kinds
<1>9. \A o \in Obj : color'[o] = IF o \in KeptStrings(W) /\ c[o] # "free" THEN Other ELSE c[o]
  BY <1>1
<1>10. \A o \in Obj \ Strings : color'[o] = c[o]
  BY <1>9 DEF KeptStrings
<1>11. \A o \in Tables : fields'[o] = IF o \in W THEN fields[o] \ Cleared(c, done, o, white) ELSE fields[o]
  BY <1>1
<1>12. \A o : Within(o)' \subseteq Within(o)
  BY <1>1, <1>11, WithinKept
<1>13. Colored'
  <2>1. \A o \in Obj \ unswept' : color'[o] \in {"free", white'}
    BY <1>1, <1>8, <1>9
  <2>2. \A o \in unswept' : color'[o] \in {white', Other', "black"}
    BY <1>1, <1>3, <1>8, <1>9
  <2> QED BY <1>1, <2>1, <2>2 DEF Colored
<1>14. Flagged'
  BY <1>1, <1>12 DEF Safe, Flagged
<1>15. ASSUME NEW y \in Obj, color[y] # "free",
              c[y] # white \/ KeptAlive(y) \/ y \in KeptStrings(W)
       PROVE  y \in Live'
  <2>1. color'[y] # "free"
    BY <1>3, <1>8, <1>9, <1>15
  <2>2. color'[y] = white => c[y] = white /\ y \notin KeptStrings(W)
    BY <1>3, <1>8, <1>9, <1>15
  <2>3. KeptAlive(y)' <=> KeptAlive(y)
    BY <1>1 DEF KeptAlive
  <2> QED BY <1>3, <1>15, <2>1, <2>2, <2>3 DEF Live
<1>16. Live = {o \in Obj : color[o] # "free"}
  BY <1>1 DEF Live
<1>17. Roots' \subseteq Live'
  <2>1. Roots \subseteq Live
    BY DEF Safe, AllLive
  <2>2. ASSUME NEW y \in held PROVE y \in Live'
    <3>1. y \in Obj /\ color[y] # "free"
      BY <1>16, <2>1 DEF Roots
    <3> QED BY <1>2, <1>3, <1>8, <1>15, <2>2, <3>1 DEF KeptAlive
  <2>3. ASSUME NEW y \in frozen \union pinned PROVE y \in Live'
    BY <1>15, <1>16, <2>1, <2>3 DEF Roots, KeptAlive
  <2>4. ASSUME NEW y \in ToSet(tmudata) \union lost PROVE y \in Live'
    <3>1. y \in Obj /\ color[y] # "free"
      BY <1>2, <1>3, <1>4, <1>5, Kinds
    <3> QED BY <1>3, <1>7, <1>15, <3>1
  <2> QED BY <1>1, <1>6, <2>2, <2>3, <2>4 DEF Roots
<1>18. ASSUME NEW o \in Live' PROVE Within(o)' \subseteq Live'
  <2>1. o \in Obj /\ color'[o] # "free" /\ (color'[o] # white \/ KeptAlive(o))
    BY <1>1, <1>3 DEF Live, KeptAlive
  <2>2. color[o] # "free"
    BY <1>8, <1>9, <2>1
  <2>3. \A y \in Within(o) : y \in Obj /\ color[y] # "free"
    BY <1>16, <2>1, <2>2 DEF Safe, AllLive
  <2>4. CASE o \in frozen
    BY <1>1, <1>12, <1>17, <2>4 DEF Safe, Flagged, Roots
  <2>5. CASE o \in Strings \union Userdata
    <3>1. o \notin Tables /\ o \notin Functions_
      BY <2>5, Kinds
    <3> QED BY <1>12, <3>1 DEF Within
  <2>6. CASE o \in (Tables \union Functions_) \ frozen
    <3>1. o \notin Strings /\ o \notin Userdata
      BY <2>6, Kinds
    <3>2. d[o] = "black"
      BY <1>2, <1>4, <1>5, <1>7, <1>10, <2>1, <2>6, <3>1 DEF Safe, Flagged, KeptAlive
    <3>3. Followed(d, W, o)
      BY <1>2, <2>6, <3>2
    <3>4. ASSUME NEW y \in Within(o), Marked(d, y) PROVE y \in Live'
      BY <1>3, <1>7, <1>15, <2>3, <3>4 DEF Marked, KeptAlive
    <3>5. CASE o \in Functions_
      <4>1. o \notin Tables
        BY <3>5, Kinds
      <4>2. Within(o) \subseteq {holds[o]}
        BY <3>5, <4>1 DEF Within
      <4> QED BY <1>12, <3>3, <3>4, <3>5, <4>2 DEF Followed
    <3>6. CASE o \in Tables
      <4> SUFFICES ASSUME NEW y \in Within(o)' PROVE y \in Live'
        OBVIOUS
      <4>1. y \in Within(o) /\ y \in Obj /\ color[y] # "free"
        BY <1>12, <2>3
      <4>2. PICK f \in fields'[o] : y \in {f[1], f[2]}
        BY <3>6 DEF Within, Mentioned
      <4>3. f \in fields[o] /\ (o \in W => f \notin Cleared(c, done, o, white))
        BY <1>11, <3>6, <4>2
      <4>4. CASE Marked(d, y)
        BY <3>4, <4>1, <4>4
      <4>5. CASE o \in W /\ y \in Strings
        <5>1. y \in Mentioned(o)
          BY <3>6, <4>1 DEF Within
        <5>2. y \in KeptStrings(W)
          BY <4>5, <5>1 DEF KeptStrings
        <5> QED BY <1>15, <4>1, <5>2
      <4>6. CASE o \in W /\ y \notin Strings /\ ~ Marked(d, y)
        <5>1. \/ y = f[1] /\ "key" \in mode[o]
              \/ y = f[2] /\ "value" \in mode[o]
          BY <3>3, <3>6, <4>2, <4>3, <4>6 DEF Followed
        <5>2. ~ DeadKey(c, y, white)
          BY <4>3, <4>6, <5>1 DEF Cleared, DeadValue
        <5>3. c[y] # white
          BY <4>1, <4>6, <5>2 DEF DeadKey
        <5> QED BY <1>15, <4>1, <5>3
      <4>7. CASE o \notin W
        <5>1. Marked(d, f[1]) /\ Marked(d, f[2])
          BY <3>3, <3>6, <4>3, <4>7 DEF Followed
        <5> QED BY <3>4, <4>1, <4>2, <5>1
      <4> QED BY <4>4, <4>5, <4>6, <4>7
    <3> QED BY <2>6, <3>5, <3>6
  <2> QED BY <2>1, <2>4, <2>5, <2>6 DEF Obj
<1> QED BY <1>1, <1>13, <1>14, <1>17, <1>18 DEF Safe, AllLive, BlackFollowed

-----------------------------------------------------------------------------
(***************************************************************************)
(* The collector sweeps, and the program takes its finalizers.             *)
(***************************************************************************)
\* A step of the sweep frees what is not live, and nothing else.
LEMMA SweepSafe ==
  ASSUME TypeOK, Safe, NEW S, Sweep(S)
  PROVE  Safe'
<1> DEFINE gone == {o \in S : color[o] = Other /\ ~KeptAlive(o)}
<1>1. /\ phase = "Sweep" /\ S \subseteq unswept /\ unswept' = unswept \ S
      /\ phase' = IF unswept' = {} THEN "Finalize" ELSE phase
      /\ UNCHANGED <<mode, held, frozen, pinned, white, gray, again, weak, tmudata>>
      /\ color' = [o \in Obj |-> IF o \in gone THEN "free" ELSE IF o \in S THEN white ELSE color[o]]
      /\ fields' = [t \in Tables |-> IF t \in gone THEN {} ELSE fields[t]]
      /\ holds' = [f \in Functions_ |-> IF f \in gone THEN Nil ELSE holds[f]]
  BY DEF Sweep, flagVars, udVars
<1>2. /\ Whites = {white, Other} /\ white # Other /\ Other' = Other
      /\ Other \notin {"free", "gray", "black"} /\ white \notin {"free", "gray", "black"}
  BY <1>1, WhitesAre DEF TypeOK, Other
<1>3. gone \subseteq S /\ \A o \in S : o \in gone <=> color[o] = Other /\ ~KeptAlive(o)
  OBVIOUS
<1> HIDE DEF gone
<1>4. \A o \in Obj : color'[o] = IF o \in gone THEN "free" ELSE IF o \in S THEN white ELSE color[o]
  BY <1>1
<1>5. /\ \A o \in Obj \ unswept : color[o] \in {"free", white}
      /\ \A o \in unswept : color[o] \in {white, Other, "black"}
  BY <1>1 DEF Safe, Colored
<1>6. \A o \in unswept' : color'[o] \in {white, Other, "black"}
  BY <1>1, <1>3, <1>4, <1>5 DEF TypeOK
<1>7. \A o \in Obj \ unswept' : color'[o] \in {"free", white}
  BY <1>1, <1>4, <1>5
<1>8. Colored'
  BY <1>1, <1>2, <1>6, <1>7 DEF Colored
<1>9. ASSUME NEW o \in Obj PROVE o \in Live' <=> o \in Live
  <2>1. KeptAlive(o)' <=> KeptAlive(o)
    BY <1>1 DEF KeptAlive
  <2>2. CASE o \in S
    <3>1. color[o] # "free"
      BY <1>1, <1>2, <1>5, <2>2
    <3>2. o \in Live <=> o \notin gone
      BY <1>1, <1>3, <2>2, <3>1 DEF Live
    <3> QED BY <1>2, <1>4, <2>2, <3>2 DEF Live
  <2>3. CASE o \notin S
    <3>1. color'[o] = color[o]
      BY <1>3, <1>4, <2>3
    <3>2. phase' # "Sweep" => color[o] # Other
      BY <1>1, <1>2, <1>7, <3>1
    <3> QED BY <1>1, <1>2, <2>1, <3>1, <3>2 DEF Live
  <2> QED BY <2>2, <2>3
<1>10. Live' = Live
  BY <1>9 DEF Live
<1>11. ASSUME NEW o \in Live PROVE Within(o)' \subseteq Within(o)
  <2>1. o \notin gone
    BY <1>1, <1>3, <1>11 DEF Live
  <2>2. o \in Tables => fields'[o] \subseteq fields[o]
    BY <1>1
  <2>3. o \in Functions_ => holds'[o] = holds[o]
    BY <1>1, <2>1
  <2> QED BY <2>2, <2>3, WithinKept
<1>12. Flagged'
  BY <1>1, <1>11 DEF Safe, Flagged, AllLive, Roots
<1>13. AllLive'
  BY <1>1, <1>10, <1>11, LiveStep DEF Safe, AllLive, Roots
<1>14. phase' # "Propagate"
  BY <1>1
<1> QED BY <1>8, <1>12, <1>13, <1>14 DEF Safe, BlackFollowed

\* Only what is live gets to be a root.
LEMMA RootsSafe ==
  ASSUME Safe, UNCHANGED <<color, white, fields, mode, holds, frozen, pinned>>,
         UNCHANGED <<phase, gray, again, weak, unswept>>, Roots' \subseteq Live
  PROVE  Safe'
<1>1. /\ \A o : Within(o)' = Within(o)
      /\ Other' = Other /\ \A o : KeptAlive(o)' <=> KeptAlive(o)
  BY DEF Within, Mentioned, Other, KeptAlive
<1>2. Live' = Live
  BY <1>1 DEF Live
<1>3. Colored'
  BY <1>1 DEF Safe, Colored
<1>4. Flagged'
  BY <1>1 DEF Safe, Flagged
<1>5. AllLive'
  BY <1>1, <1>2, LiveStep DEF Safe, AllLive
<1>6. \A o : Followed(color, weak, o)' <=> Followed(color, weak, o)
  BY DEF Followed, Marked
<1>7. BlackFollowed'
  BY <1>6 DEF Safe, BlackFollowed
<1> QED BY <1>3, <1>4, <1>5, <1>7 DEF Safe

\* The steps of the program that only move objects, and the end of a cycle.
LEMMA MovesSafe == TypeOK /\ Safe /\ (Moves \/ CallFinalizer \/ EndCycle) => Safe'
<1> SUFFICES ASSUME TypeOK, Safe, Moves \/ CallFinalizer \/ EndCycle PROVE Safe'
  OBVIOUS
<1>1. Roots \subseteq Live /\ \A o \in Live : Within(o) \subseteq Live
  BY DEF Safe, AllLive
<1>2. ASSUME NEW o \in Obj, Drop(o) PROVE Safe'
  BY <1>1, <1>2, RootsSafe DEF Drop, Roots, flagVars, udVars, gcVars
<1>3. ASSUME NEW o \in Obj, NEW t, Load(t, o) PROVE Safe'
  <2>1. o \in Live
    BY <1>1, <1>3 DEF Load, Roots
  <2> QED BY <1>1, <1>3, <2>1, RootsSafe DEF Load, Roots, flagVars, udVars, gcVars
<1>4. CASE CallFinalizer
  <2>1. Last(tmudata) \in ToSet(tmudata) /\ ToSet(tmudata') \subseteq ToSet(tmudata)
    BY <1>4, CallQueue
  <2>2. Last(tmudata) \in Live /\ held' \subseteq held \union {Last(tmudata)}
    BY <1>1, <1>4, <2>1 DEF Roots, CallFinalizer
  <2> QED BY <1>1, <1>4, <2>1, <2>2, RootsSafe DEF CallFinalizer, Roots, flagVars, gcVars
<1>5. CASE EndCycle
  <2>1. /\ phase = "Finalize" /\ phase' = "Pause"
        /\ UNCHANGED <<fields, mode, holds, held, frozen, pinned, tmudata, color, white, gray, again, weak, unswept>>
    BY <1>5 DEF EndCycle, heapVars, flagVars, udVars
  <2>2. \A o : Within(o)' = Within(o)
    BY <2>1 DEF Within, Mentioned
  <2>3. Live' = Live
    BY <2>1, LiveKept
  <2>4. Colored'
    BY <2>1 DEF Safe, Colored
  <2>5. Flagged'
    BY <2>1, <2>2 DEF Safe, Flagged
  <2>6. AllLive'
    BY <1>1, <2>1, <2>2, <2>3, LiveStep DEF Safe, Roots
  <2> QED BY <2>1, <2>4, <2>5, <2>6 DEF Safe, BlackFollowed
<1> QED BY <1>2, <1>3, <1>4, <1>5 DEF Moves

-----------------------------------------------------------------------------
(***************************************************************************)
(* The program writes.                                                     *)
(***************************************************************************)
\* What the barrier on a table does.
LEMMA BarrierIs ==
  ASSUME TypeOK, Colored, NEW t \in Tables, BarrierBack(t),
         UNCHANGED <<white, phase, gray, unswept>>
  PROVE  /\ Colored'
         /\ \A o \in Obj : /\ color'[o] = "free" <=> color[o] = "free"
                           /\ color[o] # white => color'[o] # white
                           /\ color'[o] = "black" => color[o] = "black"
         /\ phase = "Propagate" => color'[t] # "black"
         /\ phase # "Propagate" => color' = color
<1>1. t \in Obj /\ Other' = Other /\ white \in Whites /\ Other \in Whites /\ white # Other
      /\ \A w \in Whites : w \notin {"free", "gray", "black"}
  BY Kinds, WhitesAre DEF TypeOK, Other
<1>2. CASE phase = "Propagate" /\ color[t] = "black"
  <2>1. again' = again \union {t} /\ \A o \in Obj : color'[o] = IF o = t THEN "gray" ELSE color[o]
    BY <1>2 DEF BarrierBack, TypeOK
  <2>2. Colored'
    BY <1>1, <1>2, <2>1 DEF Colored
  <2> QED BY <1>1, <1>2, <2>1, <2>2
<1>3. CASE ~ (phase = "Propagate" /\ color[t] = "black")
  <2>1. UNCHANGED <<color, again>>
    BY <1>3 DEF BarrierBack
  <2>2. Colored'
    BY <1>1, <2>1 DEF Colored
  <2> QED BY <1>3, <2>1, <2>2
<1> QED BY <1>2, <1>3

\* A store: the table is put back if it was black.
LEMMA StoreSafe ==
  ASSUME TypeOK, Safe, NEW t \in Tables, NEW k \in Obj \union {Plain}, NEW v \in Obj \union {Plain},
         Store(t, k, v)
  PROVE  Safe'
<1>1. /\ t \in held /\ t \notin frozen /\ {k, v} \subseteq held \union {Plain}
      /\ fields' = [fields EXCEPT ![t] = {f \in @ : f[1] # k} \union {<<k, v>>}]
      /\ BarrierBack(t)
      /\ UNCHANGED <<mode, holds, held, frozen, pinned, tmudata, white, phase, gray, weak, unswept>>
  BY DEF Store, flagVars, udVars
<1>2. /\ Colored'
      /\ \A o \in Obj : /\ color'[o] = "free" <=> color[o] = "free"
                        /\ color[o] # white => color'[o] # white
                        /\ color'[o] = "black" => color[o] = "black"
      /\ phase = "Propagate" => color'[t] # "black"
      /\ phase # "Propagate" => color' = color
  BY <1>1, BarrierIs DEF Safe
<1>3. /\ fields'[t] = {f \in fields[t] : f[1] # k} \union {<<k, v>>}
      /\ \A x \in Tables : x # t => fields'[x] = fields[x]
  BY <1>1 DEF TypeOK
<1>4. \A x : x # t => Within(x)' \subseteq Within(x)
  BY <1>1, <1>3, WithinKept
<1>5. Within(t)' \subseteq Within(t) \union held
  <2>1. Mentioned(t)' \subseteq Mentioned(t) \union held
    <3> SUFFICES ASSUME NEW y \in Mentioned(t)' PROVE y \in Mentioned(t) \union held
      OBVIOUS
    <3>1. y \in Obj /\ \E f \in fields'[t] : y \in {f[1], f[2]}
      BY DEF Mentioned
    <3>2. PICK f \in fields'[t] : y \in {f[1], f[2]}
      BY <3>1
    <3>3. CASE f \in fields[t]
      BY <3>1, <3>2, <3>3 DEF Mentioned
    <3>4. CASE f = <<k, v>>
      <4>1. y \in {k, v}
        BY <3>2, <3>4
      <4> QED BY <1>1, <3>1, <4>1, KeepAliveAssumption
    <3> QED BY <1>3, <3>2, <3>3, <3>4
  <2> QED BY <2>1 DEF Within
<1>6. Live' = Live
  BY <1>1, <1>2, LiveKept
<1>7. Flagged'
  BY <1>1, <1>4 DEF Safe, Flagged
<1>8. AllLive'
  <2>1. \A o \in Live : Within(o)' \subseteq Live
    BY <1>4, <1>5 DEF Safe, AllLive, Roots
  <2> QED BY <1>1, <1>6, <2>1, LiveStep DEF Safe, AllLive, Roots
<1>9. BlackFollowed'
  <2> SUFFICES ASSUME phase = "Propagate", NEW o \in (Tables \union Functions_) \ frozen, color'[o] = "black"
               PROVE  Followed(color, weak, o)'
    BY <1>1 DEF BlackFollowed
  <2>1. o # t /\ color[o] = "black"
    BY <1>2, Kinds
  <2>2. Followed(color, weak, o)
    BY <2>1 DEF Safe, BlackFollowed
  <2> QED BY <1>1, <1>2, <1>3, <2>1, <2>2, FollowedKept
<1> QED BY <1>2, <1>7, <1>8, <1>9 DEF Safe

\* A table is given another mode: with a barrier, or by a write to its metatable.
LEMMA ModeSafe ==
  ASSUME TypeOK, Safe, ~Careless, NEW t \in Tables, NEW m \in Modes, SetMetatable(t, m) \/ WriteMode(t, m)
  PROVE  Safe'
<1>1. /\ mode' = [mode EXCEPT ![t] = m]
      /\ UNCHANGED <<fields, holds, held, frozen, pinned, tmudata, white, phase, gray, weak, unswept>>
  BY DEF SetMetatable, WriteMode, flagVars, udVars, gcVars
<1>2. /\ Colored'
      /\ \A o \in Obj : /\ color'[o] = "free" <=> color[o] = "free"
                        /\ color[o] # white => color'[o] # white
                        /\ color'[o] = "black" => color[o] = "black"
      /\ phase # "Propagate" => color' = color
      /\ phase = "Propagate" => color'[t] # "black" \/ mode[t] \subseteq m
  <2>1. CASE SetMetatable(t, m)
    <3>1. BarrierBack(t)
      BY <2>1 DEF SetMetatable
    <3> QED BY <1>1, <3>1, BarrierIs DEF Safe
  <2>2. CASE WriteMode(t, m)
    <3>1. UNCHANGED <<color, again>> /\ (phase = "Propagate" => mode[t] \subseteq m)
      BY <2>2 DEF WriteMode, gcVars
    <3>2. Other' = Other
      BY <1>1 DEF Other
    <3>3. Colored'
      BY <1>1, <3>1, <3>2 DEF Safe, Colored
    <3> QED BY <3>1, <3>3
  <2> QED BY <2>1, <2>2
<1>3. mode'[t] = m /\ \A x \in Tables : x # t => mode'[x] = mode[x]
  BY <1>1 DEF TypeOK
<1>4. \A x : Within(x)' = Within(x)
  BY <1>1 DEF Within, Mentioned
<1>5. Live' = Live
  BY <1>1, <1>2, LiveKept
<1>6. Flagged'
  BY <1>1, <1>4 DEF Safe, Flagged
<1>7. AllLive'
  BY <1>1, <1>4, <1>5, LiveStep DEF Safe, AllLive, Roots
<1>8. BlackFollowed'
  <2> SUFFICES ASSUME phase = "Propagate", NEW o \in (Tables \union Functions_) \ frozen, color'[o] = "black"
               PROVE  Followed(color, weak, o)'
    BY <1>1 DEF BlackFollowed
  <2>1. color[o] = "black" /\ Followed(color, weak, o)
    BY <1>2, Kinds DEF Safe, BlackFollowed
  <2>2. o \in Tables => mode[o] \subseteq mode'[o]
    BY <1>2, <1>3
  <2> QED BY <1>1, <1>2, <2>1, <2>2, FollowedKept
<1> QED BY <1>2, <1>6, <1>7, <1>8 DEF Safe

\* A write to an upvalue: what a black function gets is marked.
LEMMA UpvalueSafe ==
  ASSUME TypeOK, Safe, ~Careless, NEW f \in Functions_, NEW v \in Obj, SetUpvalue(f, v)
  PROVE  Safe'
<1>1. /\ f \in held /\ v \in held /\ f \notin frozen
      /\ holds' = [holds EXCEPT ![f] = v]
      /\ UNCHANGED <<fields, mode, held, frozen, pinned, tmudata, white, phase, again, weak, unswept>>
  BY DEF SetUpvalue, flagVars, udVars
<1>2. /\ Other' = Other /\ white \in Whites /\ Other \in Whites /\ white # Other
      /\ \A w \in Whites : w \notin {"free", "gray", "black"}
  BY <1>1, WhitesAre DEF TypeOK, Other
<1>3. /\ Colored'
      /\ \A o \in Obj : /\ color'[o] = "free" <=> color[o] = "free"
                        /\ color[o] # white => color'[o] # white
                        /\ o \notin Strings \union Userdata /\ color'[o] = "black" => color[o] = "black"
      /\ phase # "Propagate" => color' = color
      /\ phase = "Propagate" /\ color[f] = "black" => Marked(color, v)'
  <2>1. CASE phase = "Propagate" /\ color[f] = "black" /\ color[v] = white
    <3>1. color' = Tint(color, {v}) /\ gray' = gray \union Greyed(color, {v})
      BY <2>1 DEF SetUpvalue
    <3>2. \A o \in Obj : /\ color'[o] = "free" <=> color[o] = "free"
                         /\ color[o] # white => color'[o] # white
                         /\ color[o] # Other => color'[o] # Other
                         /\ o \notin Strings \union Userdata /\ color'[o] = "black" => color[o] = "black"
                         /\ color'[o] = "gray" <=> color[o] = "gray" \/ o \in Greyed(color, {v})
      BY <3>1, TintKeeps
    <3>3. color'[v] # white \/ v \in frozen
      BY <1>2, <2>1, <3>1, TintKeeps
    <3>4. \A o \in Greyed(color, {v}) : o \in Obj /\ o \in Tables \union Functions_ /\ color[o] # "gray"
      BY <1>2, Kinds DEF Greyed, Markable
    <3>5. Colored'
      <4>1. gray' \union again' \subseteq Tables \union Functions_ /\ gray' \intersect again' = {}
        BY <1>1, <2>1, <3>1, <3>4, Kinds DEF Safe, Colored
      <4>2. \A o \in Obj : color'[o] # Other'
        BY <1>2, <2>1, <3>2 DEF Safe, Colored
      <4>3. \A o \in Obj : color'[o] = "gray" <=> o \in gray' \union again'
        BY <1>1, <2>1, <3>1, <3>2 DEF Safe, Colored
      <4> QED BY <1>1, <2>1, <4>1, <4>2, <4>3 DEF Colored
    <3> QED BY <1>1, <2>1, <3>2, <3>3, <3>5 DEF Marked
  <2>2. CASE ~ (phase = "Propagate" /\ color[f] = "black" /\ color[v] = white)
    <3>1. UNCHANGED <<color, gray>>
      BY <2>2 DEF SetUpvalue
    <3>2. Colored'
      BY <1>1, <1>2, <3>1 DEF Safe, Colored
    <3>3. phase = "Propagate" /\ color[f] = "black" => Marked(color, v)'
      BY <1>1, <2>2, <3>1 DEF Marked
    <3> QED BY <3>1, <3>2, <3>3
  <2> QED BY <2>1, <2>2
<1>4. holds'[f] = v /\ \A x \in Functions_ : x # f => holds'[x] = holds[x]
  BY <1>1 DEF TypeOK
<1>5. \A x : x # f => Within(x)' \subseteq Within(x)
  BY <1>1, <1>4, WithinKept
<1>6. Within(f)' \subseteq held
  <2>1. f \notin Tables
    BY Kinds
  <2> QED BY <1>1, <1>4, <2>1 DEF Within
<1>7. Live' = Live
  BY <1>1, <1>3, LiveKept
<1>8. Flagged'
  BY <1>1, <1>5 DEF Safe, Flagged
<1>9. AllLive'
  <2>1. \A o \in Live : Within(o)' \subseteq Live
    BY <1>5, <1>6 DEF Safe, AllLive, Roots
  <2> QED BY <1>1, <1>7, <2>1, LiveStep DEF Safe, AllLive, Roots
<1>10. BlackFollowed'
  <2> SUFFICES ASSUME phase = "Propagate", NEW o \in (Tables \union Functions_) \ frozen, color'[o] = "black"
               PROVE  Followed(color, weak, o)'
    BY <1>1 DEF BlackFollowed
  <2>1. color[o] = "black" /\ Followed(color, weak, o)
    BY <1>3, Kinds DEF Safe, BlackFollowed
  <2>2. CASE o = f
    <3>1. o \notin Tables /\ Marked(color, holds[o])'
      BY <1>3, <1>4, <2>1, <2>2, Kinds
    <3> QED BY <3>1 DEF Followed
  <2>3. CASE o # f
    BY <1>1, <1>3, <1>4, <2>1, <2>3, FollowedKept
  <2> QED BY <2>2, <2>3
<1> QED BY <1>3, <1>8, <1>9, <1>10 DEF Safe

-----------------------------------------------------------------------------
(***************************************************************************)
(* The host flags.                                                         *)
(***************************************************************************)
\* Flags on what is live keep what is live.
LEMMA FlagsSafe ==
  ASSUME TypeOK, Safe, frozen \subseteq frozen', pinned \subseteq pinned', Flagged',
         frozen' \union pinned' \subseteq Live,
         UNCHANGED <<heapVars, udVars, gcVars>>
  PROVE  Safe'
<1>1. UNCHANGED <<fields, mode, holds, held, tmudata, color, white, phase, gray, again, weak, unswept>>
  BY DEF heapVars, udVars, gcVars
<1>2. /\ \A o : Within(o)' = Within(o)
      /\ Other' = Other
  BY <1>1 DEF Within, Mentioned, Other
<1>3. Live' = Live
  BY <1>1, <1>2 DEF Live, KeptAlive
<1>4. Colored'
  BY <1>1, <1>2 DEF Safe, Colored
<1>5. AllLive'
  BY <1>1, <1>2, <1>3, LiveStep DEF Safe, AllLive, Roots
<1>6. \A o : Followed(color, weak, o) => Followed(color, weak, o)'
  BY <1>1, FollowedKept
<1>7. BlackFollowed'
  BY <1>1, <1>6 DEF Safe, BlackFollowed
<1> QED BY <1>4, <1>5, <1>7 DEF Safe

\* freeze_table and pin_object, of a host that takes care.
LEMMA HostSafe ==
  ASSUME TypeOK, Safe, ~Careless,
         (\E t \in Tables : Freeze(t)) \/ (\E o \in Obj : Pin(o))
  PROVE  Safe'
<1>1. Roots \subseteq Live /\ Live \subseteq Obj /\ \A o \in Live : Within(o) \subseteq Live
  BY DEF Safe, AllLive, Live
<1>2. ASSUME NEW t \in Tables, Freeze(t) PROVE Safe'
  <2>1. /\ t \in held /\ Graph(t) \intersect (Strings \union Userdata) = {}
        /\ frozen' = frozen \union (Graph(t) \ Strings)
        /\ UNCHANGED <<heapVars, pinned, udVars, gcVars>>
    BY <1>2 DEF Freeze
  <2>2. /\ {t} \in SUBSET Obj
        /\ \A l \in Contents : l[1] \in Live => l[2] \in Live
    BY <1>1, <2>1, LinksAre DEF TypeOK
  <2>3. Graph(t) \subseteq Obj /\ Graph(t) \subseteq Live
    <3> DEFINE S == {t}
               links == Contents
    <3>1. Graph(t) = Closure(S, links)
      BY DEF Graph
    <3>2. S \subseteq Live /\ Live \in SUBSET Obj
      BY <1>1, <2>1 DEF Roots
    <3>3. S \in SUBSET Obj /\ \A l \in links : l[1] \in Live => l[2] \in Live
      BY <2>2
    <3> HIDE DEF S, links
    <3>4. Closure(S, links) \subseteq Live
      BY <3>2, <3>3, ClosureLeast
    <3> QED BY <3>1, <3>2, <3>4
  <2>4. \A o \in Graph(t) : Within(o) \subseteq Graph(t)
    <3>1. \A l \in Contents : l[1] \in Graph(t) /\ l[2] \in Obj => l[2] \in Graph(t)
      BY <2>2, ClosureLeast DEF Graph
    <3> SUFFICES ASSUME NEW o \in Graph(t), NEW y \in Within(o) PROVE y \in Graph(t)
      OBVIOUS
    <3>2. <<o, y>> \in Contents /\ y \in Obj
      BY <2>3, WithinObj DEF Contents
    <3> QED BY <3>1, <3>2
  <2>5. Graph(t) \subseteq Tables \union Functions_ /\ Graph(t) \ Strings = Graph(t)
    BY <2>1, <2>3 DEF Obj
  <2>6. \A o : Within(o)' = Within(o)
    BY <2>1 DEF heapVars, Within, Mentioned
  <2>7. Flagged'
    BY <2>1, <2>4, <2>5, <2>6 DEF Safe, Flagged
  <2>8. frozen' \union pinned' \subseteq Live
    BY <1>1, <2>1, <2>3 DEF Roots
  <2> QED BY <2>1, <2>7, <2>8, FlagsSafe
<1>3. ASSUME NEW o \in Obj, Pin(o) PROVE Safe'
  <2>1. /\ o \in held /\ o \in Strings /\ pinned' = pinned \union {o}
        /\ UNCHANGED <<heapVars, frozen, udVars, gcVars>>
    BY <1>3 DEF Pin
  <2>2. \A x : Within(x)' = Within(x)
    BY <2>1 DEF heapVars, Within, Mentioned
  <2>3. Flagged'
    BY <2>1, <2>2 DEF Safe, Flagged
  <2>4. frozen' \union pinned' \subseteq Live
    BY <1>1, <2>1 DEF Roots
  <2> QED BY <2>1, <2>3, <2>4, FlagsSafe
<1> QED BY <1>2, <1>3

-----------------------------------------------------------------------------
(***************************************************************************)
(* The invariant, and what follows from it.                                *)
(***************************************************************************)
\* All is white to start with.
LEMMA SafeInit == Init => Safe
<1> SUFFICES ASSUME Init PROVE Safe
  OBVIOUS
<1>1. /\ phase = "Pause" /\ white = "white0" /\ color = [o \in Obj |-> "white0"]
      /\ frozen = {} /\ pinned = {} /\ tmudata = <<>>
  BY DEF Init
<1>2. TypeOK
  BY TypeInit
<1>3. Live = Obj
  BY <1>1 DEF Live
<1>4. ToSet(tmudata) = {}
  BY <1>1 DEF ToSet
<1>5. AllLive
  BY <1>1, <1>2, <1>3, <1>4, WithinObj DEF AllLive, Roots, TypeOK
<1>6. Colored
  BY <1>1 DEF Colored
<1> QED BY <1>1, <1>5, <1>6 DEF Safe, Flagged, BlackFollowed

\* Every step of a careful program and host keeps what is live.
LEMMA SafeStep ==
  ASSUME ~Careless, TypeOK, Queued, Safe, [Next]_vars
  PROVE  Safe'
<1>1. CASE Moves
  BY <1>1, MovesSafe
<1>2. CASE Collect
  BY <1>2, StartSafe, PropagateSafe, AtomicSafe, MovesSafe, SweepSafe DEF Collect, SweepStrings, SweepOther
<1>3. CASE Writes
  BY <1>3, StoreSafe, ModeSafe, UpvalueSafe, HostSafe DEF Writes
<1>4. CASE UNCHANGED vars
  BY <1>4, RootsSafe DEF vars, heapVars, flagVars, gcVars, udVars, Safe, AllLive, Roots
<1> QED BY <1>1, <1>2, <1>3, <1>4 DEF Next

\* The whole invariant holds, if nothing of what loses objects is done.
THEOREM Invariance ==
  ASSUME ~Careless
  PROVE  Spec => []IInv
<1>1. Init => Safe
  BY SafeInit
<1>2. TypeOK /\ Queued /\ Safe /\ [Next]_vars => Safe'
  BY SafeStep
<1> QED BY <1>1, <1>2, QueuedInvariant, PTL DEF Spec, IInv

\* Whatever the program or the host can get at, through weak fields too, is allocated
\* (clear_weak_tables, sweep_partial, freeze_table, pin_object).
THEOREM NothingFreed ==
  ASSUME ~Careless
  PROVE  Spec => []NoneFreed
<1>1. IInv => NoneFreed
  <2> SUFFICES ASSUME IInv PROVE NoneFreed
    OBVIOUS
  <2>1. Roots \subseteq Live /\ Live \subseteq Obj /\ \A o \in Live : Within(o) \subseteq Live
    BY DEF IInv, Safe, AllLive, Live
  <2>2. \A l \in Contents : l[1] \in Live => l[2] \in Live
    BY <2>1, LinksAre
  <2>3. Accessible \subseteq Live
    <3> DEFINE S == Roots
               links == Contents
    <3>1. Accessible = Closure(S, links)
      BY DEF Accessible, Roots
    <3>2. S \in SUBSET Obj /\ Live \in SUBSET Obj /\ S \subseteq Live /\ \A l \in links : l[1] \in Live => l[2] \in Live
      BY <2>1, <2>2
    <3> HIDE DEF S, links
    <3> QED BY <3>1, <3>2, ClosureLeast
  <2> QED BY <2>3 DEF NoneFreed, Live
<1> QED BY <1>1, Invariance, PTL

\* All that is reachable is black, frozen or pinned when the atomic phase comes to the userdata.
LEMMA ReachedMarked ==
  ASSUME TypeOK, Safe, phase = "Propagate", gray = {}
  PROVE  \A o \in Reachable : ThroughMarks(color).color[o] = "black" \/ o \in frozen \union pinned
<1> DEFINE d == ThroughMarks(color).color
           W == ThroughMarks(color).weak
           R == {o \in Obj : d[o] = "black" \/ o \in frozen \union pinned}
           links == UNION {{o} \X Children(o) : o \in Obj}
           S == held \union pinned \union frozen
<1>1. /\ \A o \in Obj : /\ d[o] \in {"free", white, "black"}
                        /\ d[o] = "free" <=> color[o] = "free"
      /\ \A o \in held : d[o] = "black" \/ o \in frozen
      /\ \A o \in (Tables \union Functions_) \ frozen : d[o] = "black" => Followed(d, W, o)
  BY AtomicMarks
<1>2. Reachable = Closure(S, links)
  BY DEF Reachable
<1>3. \A l \in links : l[1] \in Obj /\ l[2] \in Children(l[1])
  BY LinksAre
<1> HIDE DEF d, W, links
<1>4. S \in SUBSET Obj /\ S \subseteq R
  BY <1>1 DEF TypeOK
<1>5. white # "free"
  BY WhitesAre
<1>6. ASSUME NEW o \in R, NEW y \in Children(o) PROVE y \in R
  <2>1. o \in Obj /\ y \in Obj /\ y \in Within(o)
    BY WithinObj
  <2>2. CASE o \in frozen
    BY <2>1, <2>2 DEF Safe, Flagged
  <2>3. CASE o \in Strings \union Userdata
    <3>1. Within(o) = {}
      BY <2>1, <2>3, Kinds DEF Within
    <3> QED BY <2>1, <3>1
  <2>4. CASE o \in (Tables \union Functions_) \ frozen
    <3>1. o \notin Strings \union Userdata /\ d[o] = "black"
      BY <2>4, <2>1, Kinds DEF Safe, Flagged
    <3>2. Followed(d, W, o)
      BY <1>1, <2>4, <3>1
    <3>3. color[o] # "free"
      BY <1>1, <2>1, <3>1
    <3>4. color[y] # "free"
      BY <2>1, <3>3 DEF Safe, AllLive, Live
    <3>5. Marked(d, y)
      <4>1. CASE o \in Functions_
        <5>1. y = holds[o]
          BY <2>1, <4>1, Kinds DEF Within
        <5> QED BY <3>2, <4>1, <5>1 DEF Followed
      <4>2. CASE o \in Tables
        <5>1. y \in Strong(o)
          BY <4>2 DEF Children
        <5>2. PICK f \in fields[o] : \/ y = f[1] /\ "key" \notin mode[o]
                                     \/ y = f[2] /\ "value" \notin mode[o]
          BY <5>1 DEF Strong
        <5> QED BY <3>2, <4>2, <5>2 DEF Followed
      <4> QED BY <2>4, <4>1, <4>2
    <3> QED BY <1>1, <2>1, <3>4, <3>5 DEF Marked
  <2> QED BY <2>1, <2>2, <2>3, <2>4 DEF Obj
<1>7. \A l \in links : l[1] \in R => l[2] \in R
  BY <1>3, <1>6
<1>8. R \in SUBSET Obj
  OBVIOUS
<1> HIDE DEF R, S
<1>9. Closure(S, links) \subseteq R
  BY <1>4, <1>7, <1>8, ClosureLeast
<1> QED BY <1>2, <1>9 DEF R, d

\* A cycle takes a field from a weak table only if a weak part of it is not reachable, or is kept by
\* a flag alone; and it hands a userdata to its finalizer once, and only if it is not reachable
\* (clear_weak_tables, separate_userdata).
THEOREM OnlyLostAreTaken ==
  ASSUME ~Careless
  PROVE  Spec => OnlyLostTaken
<1> DEFINE A == /\ phase = "Propagate" /\ phase' = "Sweep" =>
                     \A t \in Tables : \A f \in fields[t] \ fields'[t] :
                       \/ "key" \in mode[t] /\ Takable(f[1])
                       \/ "value" \in mode[t] /\ (Takable(f[2]) \/ f[2] \in finalized')
                /\ \A u \in finalized' \ finalized : u \notin Reachable
                /\ finalized \subseteq finalized'
<1>1. ASSUME IInv, Atomic PROVE A
  <2> DEFINE d == ThroughMarks(color).color
             W == ThroughMarks(color).weak
             lost == Lost(d)
             c == [o \in Obj |-> IF o \in lost \union ToSet(tmudata) THEN "black" ELSE d[o]]
             done == finalized \union lost
  <2>1. /\ phase = "Propagate" /\ gray = {} /\ finalized' = done
        /\ fields' = [t \in Tables |-> IF t \in W THEN fields[t] \ Cleared(c, done, t, white) ELSE fields[t]]
    BY <1>1 DEF Atomic
  <2>2. TypeOK /\ Safe
    BY <1>1 DEF IInv
  <2>3. \A o \in Reachable : d[o] = "black" \/ o \in frozen \union pinned
    BY <2>1, <2>2, ReachedMarked
  <2>4. white # "black"
    BY <2>2, WhitesAre
  <2>5. lost \subseteq Userdata /\ \A u \in lost : d[u] = white
    BY DEF Lost
  <2>6. \A o \in Obj : c[o] = IF o \in lost \union ToSet(tmudata) THEN "black" ELSE d[o]
    OBVIOUS
  <2> HIDE DEF d, W, lost, c
  <2>7. ASSUME NEW u \in finalized' \ finalized PROVE u \notin Reachable
    <3>1. u \in lost /\ u \in Userdata /\ u \in Obj
      BY <2>1, <2>5, <2>7, Kinds
    <3>2. u \notin frozen \union pinned
      BY <2>2, <3>1, Kinds, KeepAliveAssumption DEF Safe, Flagged
    <3> QED BY <2>3, <2>4, <2>5, <3>1, <3>2
  <2>8. ASSUME NEW o, DeadKey(c, o, white) PROVE Takable(o)
    <3>1. o \in Obj /\ d[o] = white
      BY <2>4, <2>6, <2>8 DEF DeadKey
    <3> QED BY <2>3, <2>4, <3>1 DEF Takable
  <2>9. ASSUME NEW t \in Tables, NEW f \in fields[t] \ fields'[t]
        PROVE  \/ "key" \in mode[t] /\ Takable(f[1])
               \/ "value" \in mode[t] /\ (Takable(f[2]) \/ f[2] \in finalized')
    <3>1. f \in Cleared(c, done, t, white)
      BY <2>1, <2>9
    <3>2. \/ "key" \in mode[t] /\ DeadKey(c, f[1], white)
          \/ "value" \in mode[t] /\ (DeadKey(c, f[2], white) \/ f[2] \in done)
      BY <3>1 DEF Cleared, DeadValue
    <3> QED BY <2>1, <2>8, <3>2
  <2> QED BY <2>1, <2>7, <2>9
<1>2. IInv /\ [Next]_vars => [A]_vars
  <2> SUFFICES ASSUME IInv, [Next]_vars PROVE A
    OBVIOUS
  <2>1. CASE CallFinalizer \/ UNCHANGED udVars
    <3>1. finalized' = finalized
      BY <2>1 DEF CallFinalizer, udVars
    <3>2. CASE phase = "Propagate" /\ phase' = "Sweep"
      <4>1. Atomic
        BY <3>2 DEF Next, vars, heapVars, flagVars, gcVars, Moves, Collect, Writes, Load, Drop, Store,
                    SetMetatable, WriteMode, Freeze, Pin, SetUpvalue, StartCycle, PropagateOne, EndCycle,
                    CallFinalizer, Sweep, SweepStrings, SweepOther
      <4> QED BY <1>1, <4>1
    <3> QED BY <3>1, <3>2
  <2>2. CASE Atomic
    BY <1>1, <2>2
  <2> QED BY <2>1, <2>2, QueueStep DEF IInv
<1> QED BY <1>2, Invariance, PTL DEF Spec, OnlyLostTaken
=============================================================================
