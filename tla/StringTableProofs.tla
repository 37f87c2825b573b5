------------------------- MODULE StringTableProofs -------------------------
(***************************************************************************)
(* Proofs about interned strings: a text has one reference, a reference    *)
(* outside the roots is never mistaken for a later string, and the free    *)
(* list of the arena is exact.                                             *)
(***************************************************************************)
EXTENDS StringTable, FiniteSetTheorems, SequenceTheorems, WellFoundedInduction, TLAPS

-----------------------------------------------------------------------------
Colors == Whites \union {"black", "free"}
Phases == {"Pause", "Propagate", "SweepString", "Sweep"}
Generations == 0 .. GenMod - 1
Entries == [gen : Generations, text : Texts \union {Nothing}, color : Colors, next : Nat]
Refs == [slot : Nat, gen : Generations]

Table(B) == \E n \in Nat \ {0} : B \in [0 .. n - 1 -> SUBSET Refs]

TypeOK ==
  /\ entries \in Seq(Entries) /\ head \in Nat
  /\ Table(buckets)
  /\ DOMAIN cache \subseteq Pointers /\ \A p \in DOMAIN cache : cache[p] \in Refs
  /\ white \in Whites /\ phase \in Phases /\ cursor \in Nat \ {0}
  /\ held \subseteq [ref : Refs, text : Texts]
  /\ kept \subseteq [ref : Refs, text : Texts, age : 0 .. GenMod]

(***************************************************************************)
(* The slots are free exactly when they say so.  The first free slot and   *)
(* those that the others link to are free, and no two links are the same:  *)
(* alloc can never take a slot that is in use.                             *)
(***************************************************************************)
Free(E) == {i \in DOMAIN E : E[i].text = Nothing}
Living(E) == {i \in DOMAIN E : E[i].text # Nothing}

Colored(E) == \A i \in DOMAIN E : i \in Free(E) <=> E[i].color = "free"

Linked(E, h) ==
  /\ h = 0 \/ h \in Free(E)
  /\ \A i \in Free(E) : E[i].next = 0 \/ (E[i].next \in Free(E) /\ E[i].next # h)
  /\ \A i, j \in Free(E) : E[i].next = E[j].next => i = j \/ E[i].next = 0

(***************************************************************************)
(* Every string is in the bucket of its text, so that intern finds it, and *)
(* no other slot has its text.                                             *)
(***************************************************************************)
RefAt(E, i) == [slot |-> i, gen |-> E[i].gen]

Filed(E, B) ==
  \A i \in Living(E) : RefAt(E, i) \in B[Bucket(E[i].text, Cardinality(DOMAIN B))]

Single(E) == \A i, j \in Living(E) : E[i].text = E[j].text => i = j

Sound(E, h, B) == Colored(E) /\ Linked(E, h) /\ Filed(E, B) /\ Single(E)

(***************************************************************************)
(* What is about to be swept is in front of the cursor, and no root is     *)
(* among it: the cache is black while the marking goes on, and what intern *)
(* handed out since then was revived.                                      *)
(***************************************************************************)
Passed ==
  \A i \in DOMAIN entries : Dead(entries[i]) => phase = "SweepString" /\ i >= cursor

Lives(r, text) == Get(entries, r) = text /\ ~Dead(entries[r.slot])

Rooted ==
  /\ \A h \in held : Lives(h.ref, h.text)
  /\ \A p \in DOMAIN cache :
       /\ Lives(cache[p], At[p])
       /\ phase = "Propagate" => entries[cache[p].slot].color = "black"

(***************************************************************************)
(* How often the slot of a kept reference was freed tells its generation.  *)
(***************************************************************************)
Aged ==
  \A k \in kept :
    /\ k.ref.slot \in DOMAIN entries
    /\ k.age < GenMod => entries[k.ref.slot].gen \in {k.ref.gen + k.age, k.ref.gen + k.age - GenMod}
    /\ k.age = 0 => entries[k.ref.slot].text = k.text

Inv == TypeOK /\ Sound(entries, head, buckets) /\ Passed /\ Rooted /\ Aged

-----------------------------------------------------------------------------
(***************************************************************************)
(* Numbers.                                                                *)
(***************************************************************************)
LEMMA LeastExists ==
  ASSUME NEW S \in SUBSET Nat, S # {}
  PROVE  \E x \in S : \A y \in S : x <= y
<1> DEFINE R == OpToRel(<, Nat)
<1>1. IsWellFoundedOn(R, Nat)
  BY NatLessThanWellFounded, Zenon
<1>2. \A x, y \in Nat : <<y, x>> \in R <=> y < x
  BY DEF OpToRel
<1> HIDE DEF R
<1>3. \E x \in S : \A y \in S : ~ (<<y, x>> \in R)
  BY <1>1, WFMin, Zenon
<1>4. \E x \in S : \A y \in S : x \in Nat /\ y \in Nat /\ ~ (y < x)
  BY <1>2, <1>3, Zenon
<1> QED BY <1>4

\* Induction, on the set of the numbers for which something holds.
LEMMA Inducts ==
  ASSUME NEW S, 0 \in S, \A n \in Nat : n \in S => n + 1 \in S
  PROVE  \A n \in Nat : n \in S
<1> SUFFICES ASSUME Nat \ S # {} PROVE FALSE
  OBVIOUS
<1>1. PICK m \in Nat \ S : \A k \in Nat \ S : m <= k
  BY LeastExists
<1>2. m \in Nat \ {0}
  BY <1>1
<1>3. m - 1 \in Nat /\ m - 1 \in S
  BY <1>1, <1>2
<1>4. (m - 1) + 1 = m
  BY <1>2
<1> QED BY <1>1, <1>3, <1>4

\* A bounded set of numbers has a greatest one.
LEMMA GreatestExists ==
  ASSUME NEW n \in Nat, NEW S \in SUBSET (1 .. n), S # {}
  PROVE  \E x \in S : \A y \in S : x >= y
<1> DEFINE T == {m \in Nat : \A y \in S : y <= m}
<1>1. n \in T
  OBVIOUS
<1>2. PICK m \in T : \A k \in T : m <= k
  BY <1>1, LeastExists
<1>3. m \in S
  <2>1. SUFFICES ASSUME m \notin S PROVE FALSE
    OBVIOUS
  <2>2. \A y \in S : y <= m /\ y # m /\ y \in Nat /\ y >= 1
    BY <2>1
  <2>3. m \in Nat /\ m >= 1
    <3>1. PICK y \in S : TRUE
      OBVIOUS
    <3>2. m \in Nat
      BY <1>2
    <3> QED BY <2>2, <3>1, <3>2
  <2>4. m - 1 \in Nat /\ \A y \in S : y <= m - 1
    BY <2>2, <2>3
  <2>5. m - 1 \in T
    BY <2>4
  <2> QED BY <1>2, <2>3, <2>5
<1> QED BY <1>2, <1>3

\* Max of a set of slots is its greatest member.
LEMMA MaxIs ==
  ASSUME NEW n \in Nat, NEW S \in SUBSET (1 .. n), S # {}
  PROVE  Max(S) \in S /\ \A y \in S : y <= Max(S)
<1>1. \E x \in S : \A y \in S : x >= y
  BY GreatestExists
<1> QED BY <1>1 DEF Max

\* The generation of a slot stays in its range.
LEMMA GenerationIs ==
  ASSUME NEW g \in Generations
  PROVE  /\ NextGeneration(g) \in Generations
         /\ NextGeneration(g) = IF g + 1 = GenMod THEN 0 ELSE g + 1
BY StringTableAssumption DEF NextGeneration, Generations

\* The number of buckets of a table.
LEMMA SizeIs ==
  ASSUME NEW n \in Nat \ {0}, NEW S, NEW B \in [0 .. n - 1 -> S]
  PROVE  DOMAIN B = 0 .. n - 1 /\ Cardinality(DOMAIN B) = n
BY FS_Interval

\* Each text has a bucket.
LEMMA BucketIs ==
  ASSUME NEW n \in Nat \ {0}, NEW text \in Texts
  PROVE  Bucket(text, n) \in 0 .. n - 1
BY StringTableAssumption DEF Bucket

-----------------------------------------------------------------------------
(***************************************************************************)
(* References.                                                             *)
(***************************************************************************)
LEMMA Reads ==
  ASSUME NEW E, NEW r, NEW text \in Texts, Get(E, r) = text
  PROVE  r.slot \in Living(E) /\ E[r.slot].gen = r.gen /\ E[r.slot].text = text
BY StringTableAssumption DEF Get, Valid, Living

\* A valid reference reads as the text in its slot.
LEMMA ReadsAt ==
  ASSUME NEW E, NEW r, r.slot \in Living(E), E[r.slot].gen = r.gen
  PROVE  Get(E, r) = E[r.slot].text
BY DEF Get, Valid, Living

\* What a slot holds.
LEMMA EntryIs ==
  ASSUME NEW E \in Seq(Entries), NEW i \in DOMAIN E
  PROVE  /\ E[i] \in Entries /\ E[i].gen \in Generations /\ E[i].color \in Colors
         /\ E[i].next \in Nat /\ i \in 1 .. Len(E)
         /\ E[i].text # Nothing => E[i].text \in Texts
<1>1. i \in 1 .. Len(E) /\ E[i] \in Entries
  BY LenProperties
<1> QED BY <1>1 DEF Entries

\* The reference to a slot.
LEMMA RefIs ==
  ASSUME NEW E \in Seq(Entries), NEW i \in DOMAIN E
  PROVE  RefAt(E, i) \in Refs /\ RefAt(E, i).slot = i /\ RefAt(E, i).gen = E[i].gen
<1>1. i \in Nat /\ E[i].gen \in Generations
  BY EntryIs
<1> QED BY <1>1 DEF RefAt, Refs

(***************************************************************************)
(* What alloc, revival and marking do to the slots: what lives goes on     *)
(* living, what is black stays black, and nothing more is to be swept.     *)
(***************************************************************************)
Continues(E, F) ==
  /\ \A i \in DOMAIN E :
       /\ i \in DOMAIN F /\ F[i].gen = E[i].gen
       /\ i \in Living(E) => F[i].text = E[i].text
       /\ E[i].color = "black" => F[i].color = "black"
  /\ \A i \in DOMAIN F : Dead(F[i]) => i \in DOMAIN E /\ Dead(E[i])

\* What reads as a text and is not to be swept still does where the arena continues.
LEMMA LivesOn ==
  ASSUME NEW E, NEW F, Continues(E, F), NEW r, NEW text \in Texts,
         Get(E, r) = text, ~ Dead(E[r.slot])
  PROVE  /\ Get(F, r) = text /\ ~ Dead(F[r.slot])
         /\ E[r.slot].color = "black" => F[r.slot].color = "black"
<1>1. r.slot \in Living(E) /\ r.slot \in DOMAIN E /\ E[r.slot].gen = r.gen /\ E[r.slot].text = text
  BY Reads DEF Living
<1>2. r.slot \in DOMAIN F /\ F[r.slot].gen = r.gen /\ F[r.slot].text = text
  BY <1>1 DEF Continues
<1>3. r.slot \in Living(F)
  BY <1>1, <1>2 DEF Living
<1> QED BY <1>1, <1>2, <1>3, ReadsAt DEF Continues

(***************************************************************************)
(* Slots that only change their colour.                                    *)
(***************************************************************************)
Recolors(E, F) ==
  /\ F \in [DOMAIN E -> Entries]
  /\ \A i \in DOMAIN E : /\ F[i].gen = E[i].gen /\ F[i].text = E[i].text /\ F[i].next = E[i].next
                         /\ F[i].color = "free" <=> E[i].color = "free"

\* A change of colours alone keeps the arena and the table sound.
LEMMA RecoloredSound ==
  ASSUME NEW E \in Seq(Entries), NEW F, Recolors(E, F), NEW h, NEW B, Sound(E, h, B)
  PROVE  F \in Seq(Entries) /\ Sound(F, h, B)
<1>1. F \in Seq(Entries) /\ DOMAIN F = DOMAIN E
  <2>1. Len(E) \in Nat /\ DOMAIN E = 1 .. Len(E)
    BY LenProperties
  <2>2. F \in [1 .. Len(E) -> Entries]
    BY <2>1 DEF Recolors
  <2> QED BY <2>1, <2>2, SeqDef
<1>2. Free(F) = Free(E) /\ Living(F) = Living(E)
  BY <1>1 DEF Free, Living, Recolors
<1>3. \A i \in DOMAIN E : RefAt(F, i) = RefAt(E, i)
  BY DEF RefAt, Recolors
<1>4. Colored(F)
  BY <1>1, <1>2 DEF Colored, Sound, Recolors
<1>5. Linked(F, h)
  <2>1. \A i \in Free(E) : F[i].next = E[i].next
    BY DEF Free, Recolors
  <2> QED BY <1>2, <2>1 DEF Linked, Sound
<1>6. \A i \in Living(E) : i \in DOMAIN E /\ F[i].text = E[i].text
  BY DEF Living, Recolors
<1>7. Filed(F, B)
  BY <1>2, <1>3, <1>6 DEF Filed, Sound
<1>8. Single(F)
  BY <1>2, <1>6 DEF Single, Sound
<1> QED BY <1>1, <1>4, <1>5, <1>7, <1>8 DEF Sound

\* Painting one living slot is a change of colours.
LEMMA Painted ==
  ASSUME NEW E \in Seq(Entries), Colored(E), NEW i \in Living(E),
         NEW e, e \in {[E[i] EXCEPT !.color = c] : c \in Whites \union {"black"}}
  PROVE  Recolors(E, [E EXCEPT ![i] = e])
<1>1. PICK c \in Whites \union {"black"} : e = [E[i] EXCEPT !.color = c]
  OBVIOUS
<1>2. i \in DOMAIN E /\ E[i].color # "free"
  BY DEF Living, Colored, Free
<1>3. E[i] \in Entries
  BY <1>2, EntryIs
<1>4. c \in Colors /\ c # "free"
  BY DEF Colors, Whites
<1>5. /\ e \in Entries /\ e.gen = E[i].gen /\ e.text = E[i].text /\ e.next = E[i].next
      /\ e.color # "free"
  BY <1>1, <1>3, <1>4 DEF Entries
<1>6. E \in [DOMAIN E -> Entries]
  BY LenProperties
<1> QED BY <1>2, <1>5, <1>6 DEF Recolors

(***************************************************************************)
(* The table after it has grown.                                           *)
(***************************************************************************)
LEMMA RehashedFiled ==
  ASSUME NEW E \in Seq(Entries), NEW B, Table(B), Filed(E, B), NEW n \in Nat \ {0}
  PROVE  Table(Rehashed(B, E, n)) /\ Filed(E, Rehashed(B, E, n))
<1> DEFINE all == UNION {B[c] : c \in DOMAIN B}
           R == [b \in 0 .. n - 1 |-> {r \in all : Get(E, r) # Nothing /\ Bucket(Get(E, r), n) = b}]
<1>1. R = Rehashed(B, E, n)
  BY DEF Rehashed
<1>2. PICK m \in Nat \ {0} : B \in [0 .. m - 1 -> SUBSET Refs]
  BY DEF Table
<1>3. all \subseteq Refs
  BY <1>2
<1>4. R \in [0 .. n - 1 -> SUBSET Refs]
  BY <1>3
<1>5. Cardinality(DOMAIN R) = n
  BY <1>4, SizeIs
<1>6. ASSUME NEW i \in Living(E)
      PROVE  RefAt(E, i) \in R[Bucket(E[i].text, n)]
  <2>1. i \in DOMAIN E /\ E[i].text \in Texts /\ E[i].text # Nothing
    BY EntryIs DEF Living
  <2>2. RefAt(E, i).slot = i /\ RefAt(E, i).gen = E[i].gen
    BY DEF RefAt
  <2>3. Get(E, RefAt(E, i)) = E[i].text
    BY <2>2, ReadsAt
  <2>4. Bucket(E[i].text, m) \in DOMAIN B
    BY <1>2, <2>1, BucketIs
  <2>5. RefAt(E, i) \in B[Bucket(E[i].text, m)]
    BY <1>2, SizeIs DEF Filed
  <2>6. RefAt(E, i) \in all
    BY <2>4, <2>5
  <2>7. Bucket(E[i].text, n) \in 0 .. n - 1
    BY <2>1, BucketIs
  <2> QED BY <2>1, <2>3, <2>6, <2>7
<1> QED BY <1>1, <1>4, <1>5, <1>6 DEF Filed, Table

(***************************************************************************)
(* alloc puts the text into a slot that was free, or new, and leaves the   *)
(* other slots and the rest of the free list alone.                        *)
(***************************************************************************)
Taken(E, F, h, r) ==
  /\ F \in Seq(Entries) /\ h \in Nat /\ r \in Refs
  /\ DOMAIN F = DOMAIN E \union {r.slot}
  /\ r.slot \notin Living(E)
  /\ r.slot \in DOMAIN E => E[r.slot].gen = r.gen
  /\ \A i \in DOMAIN E \ {r.slot} : F[i] = E[i]
  /\ Linked(F, h)

\* alloc takes a free slot or a new one and leaves the others alone.
LEMMA AllocTakes ==
  ASSUME TypeOK, Sound(entries, head, buckets), NEW text \in Texts
  PROVE  LET a == Alloc(text, white)
         IN  /\ Taken(entries, a.entries, a.head, a.ref)
             /\ a.entries[a.ref.slot] = Occupied(text, a.ref.gen, white)
<1> DEFINE a == Alloc(text, white)
           E == entries
<1>0. /\ E \in Seq(Entries) /\ Len(E) \in Nat /\ DOMAIN E = 1 .. Len(E) /\ head \in Nat
      /\ E \in [DOMAIN E -> Entries] /\ white \in Colors
  BY LenProperties DEF TypeOK, Colors
<1>l. Linked(E, head)
  BY DEF Sound
<1>o. ASSUME NEW g \in Generations
      PROVE  /\ Occupied(text, g, white) \in Entries /\ Occupied(text, g, white).text = text
             /\ Occupied(text, g, white).gen = g
  BY <1>0 DEF Occupied, Entries
<1>n. text # Nothing
  BY StringTableAssumption
<1>1. CASE head # 0
  <2>1. head \in DOMAIN E /\ E[head].text = Nothing /\ head \in Free(E)
    BY <1>1, <1>l DEF Linked, Free
  <2>2. E[head] \in Entries /\ E[head].gen \in Generations /\ E[head].next \in Nat
    BY <1>0, <2>1, EntryIs
  <2> DEFINE F == [E EXCEPT ![head] = Occupied(text, @.gen, white)]
  <2>3. /\ a.entries = F /\ a.head = E[head].next
        /\ a.ref = [slot |-> head, gen |-> E[head].gen]
    BY <1>1 DEF Alloc
  <2>4. a.ref \in Refs /\ a.ref.slot = head /\ a.ref.gen = E[head].gen
    BY <1>0, <2>2, <2>3 DEF Refs
  <2>5. /\ DOMAIN F = DOMAIN E /\ F[head] = Occupied(text, E[head].gen, white)
        /\ \A i \in DOMAIN E \ {head} : F[i] = E[i]
    BY <1>0, <2>1
  <2>6. F \in Seq(Entries)
    BY <1>0, <1>o, <2>1, <2>2, ExceptSeq
  <2>7. Free(F) = Free(E) \ {head}
    BY <1>n, <1>o, <2>1, <2>2, <2>5 DEF Free
  <2>8. \A i \in Free(F) : F[i].next = E[i].next
    BY <2>5, <2>7 DEF Free
  <2> HIDE DEF F
  <2>9. Linked(F, E[head].next)
    BY <1>l, <2>1, <2>7, <2>8 DEF Linked
  <2>10. head \notin Living(E)
    BY <2>1 DEF Living
  <2>11. Taken(E, F, E[head].next, a.ref)
    BY <2>1, <2>2, <2>4, <2>5, <2>6, <2>9, <2>10 DEF Taken
  <2> QED BY <2>3, <2>4, <2>5, <2>11
<1>2. CASE head = 0
  <2> DEFINE F == Append(E, Occupied(text, 0, white))
             s == Len(E) + 1
  <2>1. 0 \in Generations
    BY StringTableAssumption DEF Generations
  <2>2. a.entries = F /\ a.head = 0 /\ a.ref = [slot |-> s, gen |-> 0]
    BY <1>2 DEF Alloc
  <2>3. a.ref \in Refs /\ a.ref.slot = s /\ a.ref.gen = 0
    BY <1>0, <2>1, <2>2 DEF Refs
  <2>4. Occupied(text, 0, white) \in Entries
    BY <1>o, <2>1
  <2>5. F \in Seq(Entries) /\ Len(F) = Len(E) + 1 /\ F[s] = Occupied(text, 0, white)
    BY <1>0, <2>4
  <2>6. \A i \in DOMAIN E : F[i] = E[i]
    BY <1>0, <2>4
  <2>7. DOMAIN F = DOMAIN E \union {s} /\ s \notin DOMAIN E
    <3>1. DOMAIN F = 1 .. s
      BY <2>5, LenProperties
    <3> HIDE DEF F
    <3> QED BY <1>0, <3>1
  <2>8. F[s].text = text
    BY <1>o, <2>1, <2>5
  <2> HIDE DEF F, s
  <2>9. Free(F) = Free(E)
    BY <1>n, <2>6, <2>7, <2>8 DEF Free
  <2>10. \A i \in Free(F) : F[i].next = E[i].next
    BY <2>6, <2>9 DEF Free
  <2>11. Linked(F, 0)
    BY <1>2, <1>l, <2>9, <2>10 DEF Linked
  <2>12. s \notin Living(E)
    BY <2>7 DEF Living
  <2>13. Taken(E, F, 0, a.ref)
    BY <2>3, <2>5, <2>6, <2>7, <2>11, <2>12 DEF Taken
  <2> QED BY <2>2, <2>3, <2>5, <2>13
<1> QED BY <1>1, <1>2

\* A string put into a free or new slot and into its bucket keeps the arena sound.
LEMMA TakenSound ==
  ASSUME TypeOK, Sound(entries, head, buckets), NEW text \in Texts,
         \A i \in Living(entries) : entries[i].text # text,
         NEW F, NEW h, NEW r, Taken(entries, F, h, r),
         F[r.slot] = Occupied(text, r.gen, white)
  PROVE  LET b == Bucket(text, Size)
             B == [buckets EXCEPT ![b] = @ \union {r}]
         IN  /\ Colored(F) /\ Single(F) /\ Table(B) /\ Filed(F, B)
             /\ DOMAIN B = DOMAIN buckets
             /\ Continues(entries, F)
             /\ Get(F, r) = text /\ ~ Dead(F[r.slot])
<1> DEFINE E == entries
           b == Bucket(text, Size)
           B == [buckets EXCEPT ![b] = @ \union {r}]
           s == r.slot
<1>n. text # Nothing /\ Nothing \notin Texts
  BY StringTableAssumption
<1>1. /\ F[s].text = text /\ F[s].gen = r.gen /\ F[s].color = white
      /\ F[s].color # "free" /\ F[s].color # Other(white)
  BY DEF Occupied, TypeOK, Whites, Other
<1>2. DOMAIN F = DOMAIN E \union {s} /\ s \in DOMAIN F /\ \A i \in DOMAIN E \ {s} : F[i] = E[i]
  BY DEF Taken
<1>3. s \in DOMAIN E => E[s].text = Nothing
  BY DEF Taken, Living
<1>4. Living(F) = Living(E) \union {s}
  BY <1>n, <1>1, <1>2, <1>3 DEF Living
<1>5. \A i \in Living(E) : i # s /\ i \in DOMAIN E /\ F[i] = E[i]
  BY <1>2, <1>3 DEF Living
<1>6. Colored(F)
  <2>1. Colored(E)
    BY DEF Sound
  <2> QED BY <1>n, <1>1, <1>2, <2>1 DEF Colored, Free
<1>7. Single(F)
  <2>1. Single(E)
    BY DEF Sound
  <2> QED BY <1>1, <1>4, <1>5, <2>1 DEF Single
<1>8. PICK n \in Nat \ {0} : buckets \in [0 .. n - 1 -> SUBSET Refs]
  BY DEF TypeOK, Table
<1>9. Size = n /\ DOMAIN buckets = 0 .. n - 1
  BY <1>8, SizeIs DEF Size
<1>10. b \in 0 .. n - 1 /\ r \in Refs
  BY <1>9, BucketIs DEF Taken
<1>11. B \in [0 .. n - 1 -> SUBSET Refs]
  BY <1>8, <1>10
<1>12. /\ DOMAIN B = DOMAIN buckets /\ r \in B[b]
       /\ \A c \in 0 .. n - 1 : buckets[c] \subseteq B[c]
  BY <1>8, <1>9, <1>10
<1> HIDE DEF B
<1>13. Cardinality(DOMAIN B) = n /\ Cardinality(DOMAIN buckets) = n
  BY <1>8, <1>12, SizeIs
<1>14. Filed(F, B)
  <2>1. ASSUME NEW i \in Living(E) PROVE RefAt(F, i) \in B[Bucket(F[i].text, n)]
    <3>1. RefAt(E, i) \in buckets[Bucket(E[i].text, n)]
      BY <1>13 DEF Filed, Sound
    <3>2. E[i].text \in Texts
      BY <1>5, EntryIs DEF TypeOK, Living
    <3>3. Bucket(E[i].text, n) \in 0 .. n - 1
      BY <3>2, BucketIs
    <3>4. RefAt(F, i) = RefAt(E, i) /\ F[i].text = E[i].text
      BY <1>5 DEF RefAt
    <3> QED BY <1>12, <3>1, <3>3, <3>4
  <2>2. RefAt(F, s) = r
    <3>1. r = [slot |-> r.slot, gen |-> r.gen]
      BY <1>10 DEF Refs
    <3> QED BY <1>1, <3>1 DEF RefAt
  <2>3. RefAt(F, s) \in B[Bucket(F[s].text, n)]
    BY <1>1, <1>9, <1>12, <2>2
  <2> QED BY <1>4, <1>13, <2>1, <2>3 DEF Filed
<1>15. Continues(E, F)
  <2>1. ASSUME NEW i \in DOMAIN E
        PROVE  /\ i \in DOMAIN F /\ F[i].gen = E[i].gen
               /\ i \in Living(E) => F[i].text = E[i].text
               /\ E[i].color = "black" => F[i].color = "black"
    <3>1. CASE i = s
      <4>1. E[i].gen = r.gen
        BY <3>1 DEF Taken
      <4>2. E[i].color = "free"
        BY <1>3, <3>1 DEF Sound, Colored, Free
      <4>3. i \notin Living(E)
        BY <3>1 DEF Taken
      <4> QED BY <1>1, <1>2, <3>1, <4>1, <4>2, <4>3
    <3>2. CASE i # s
      BY <1>2, <3>2
    <3> QED BY <3>1, <3>2
  <2>2. ASSUME NEW i \in DOMAIN F, Dead(F[i])
        PROVE  i \in DOMAIN E /\ Dead(E[i])
    <3>1. i # s
      BY <1>1, <2>2 DEF Dead
    <3> QED BY <1>2, <2>2, <3>1
  <2> QED BY <2>1, <2>2 DEF Continues
<1>16. Get(F, r) = text /\ ~ Dead(F[s])
  BY <1>1, <1>4, ReadsAt DEF Dead
<1>17. Table(B)
  BY <1>11 DEF Table
<1> QED BY <1>6, <1>7, <1>12, <1>14, <1>15, <1>16, <1>17 DEF B

(***************************************************************************)
(* intern returns a reference that reads as the text and that the sweep    *)
(* spares: the one in use, or a new one if no slot has the text.           *)
(***************************************************************************)
Interns(s, text) ==
  /\ s.entries \in Seq(Entries) /\ s.head \in Nat /\ s.ref \in Refs /\ Table(s.buckets)
  /\ Sound(s.entries, s.head, s.buckets)
  /\ Continues(entries, s.entries)
  /\ Get(s.entries, s.ref) = text /\ ~ Dead(s.entries[s.ref.slot])

\* What interning gives: a living reference that reads as the text, everything else kept.
LEMMA InternIs ==
  ASSUME TypeOK, Sound(entries, head, buckets), NEW text \in Texts
  PROVE  Interns(Intern(text), text)
<1> DEFINE E == entries
           b == Bucket(text, Size)
           hits == {r \in buckets[b] : Get(E, r) = text}
           s == Intern(text)
<1>0. /\ E \in Seq(Entries) /\ head \in Nat /\ Table(buckets)
      /\ E \in [DOMAIN E -> Entries] /\ white \in Whites
  BY LenProperties DEF TypeOK
<1>1. PICK n \in Nat \ {0} : buckets \in [0 .. n - 1 -> SUBSET Refs]
  BY DEF TypeOK, Table
<1>2. Size = n /\ b \in 0 .. n - 1
  BY <1>1, SizeIs, BucketIs DEF Size
<1>3. CASE hits # {}
  <2> DEFINE r == CHOOSE hit \in hits : TRUE
             i == r.slot
             F == [E EXCEPT ![i] = Revived(@)]
  <2>1. r \in hits
    BY <1>3
  <2>2. s = [ref |-> r, entries |-> F, head |-> head, len |-> len,
             buckets |-> buckets, count |-> count]
    BY <1>3 DEF Intern
  <2>3. r \in Refs /\ Get(E, r) = text
    BY <1>1, <1>2, <2>1
  <2> HIDE DEF r, hits
  <2>4. i \in Living(E) /\ E[i].gen = r.gen /\ E[i].text = text
    BY <2>3, Reads
  <2>5. i \in DOMAIN E /\ E[i].color # "free" /\ E[i].color \in Colors
    BY <1>0, <2>4, EntryIs DEF Living, Sound, Colored, Free
  <2>6. /\ F \in Seq(Entries) /\ Sound(F, head, buckets) /\ Continues(E, F)
        /\ Get(F, r) = text /\ ~ Dead(F[i])
    <3>1. CASE E[i].color = Other(white)
      <4>1. F = [E EXCEPT ![i] = [E[i] EXCEPT !.color = white]]
        BY <1>0, <2>5, <3>1 DEF Revived
      <4>2. Recolors(E, F)
        <5>1. [E[i] EXCEPT !.color = white]
                \in {[E[i] EXCEPT !.color = c] : c \in Whites \union {"black"}}
          BY <1>0
        <5>2. Colored(E)
          BY DEF Sound
        <5> QED BY <1>0, <2>4, <4>1, <5>1, <5>2, Painted
      <4>3. F \in Seq(Entries) /\ Sound(F, head, buckets)
        BY <1>0, <4>2, RecoloredSound
      <4>4. /\ DOMAIN F = DOMAIN E /\ F[i].color = white
            /\ \A j \in DOMAIN E \ {i} : F[j] = E[j]
        BY <1>0, <2>5, <4>1, EntryIs DEF Entries
      <4>5. white # Other(white) /\ E[i].color # "black"
        BY <1>0, <3>1 DEF Whites, Other
      <4> HIDE DEF F
      <4>6. Continues(E, F)
        BY <4>2, <4>4, <4>5 DEF Continues, Recolors, Dead
      <4>7. i \in Living(F) /\ F[i].gen = r.gen /\ F[i].text = text
        BY <2>4, <4>2, <4>4 DEF Recolors, Living
      <4> QED BY <4>3, <4>4, <4>5, <4>6, <4>7, ReadsAt DEF Dead
    <3>2. CASE E[i].color # Other(white)
      <4>1. F = E
        BY <1>0, <3>2 DEF Revived
      <4>2. Continues(E, E)
        BY DEF Continues
      <4> QED BY <1>0, <2>3, <3>2, <4>1, <4>2 DEF Dead
    <3> QED BY <3>1, <3>2
  <2> HIDE DEF F, s
  <2> QED BY <1>0, <2>2, <2>3, <2>6 DEF Interns, s
<1>4. CASE hits = {}
  <2> DEFINE a == Alloc(text, white)
             B == [buckets EXCEPT ![b] = @ \union {a.ref}]
             R == Rehashed(B, a.entries, 2 * Size)
             grows == count + 1 > Size
  <2>1. s = [ref |-> a.ref, entries |-> a.entries, head |-> a.head, len |-> len + 1,
             buckets |-> IF grows THEN R ELSE B, count |-> count + 1]
    BY <1>4 DEF Intern
  <2>2. \A j \in Living(E) : E[j].text # text
    <3>1. SUFFICES ASSUME NEW j \in Living(E), E[j].text = text PROVE FALSE
      OBVIOUS
    <3>2. RefAt(E, j) \in buckets[b]
      BY <3>1 DEF Sound, Filed, Size
    <3>3. Get(E, RefAt(E, j)) = text
      BY <3>1, ReadsAt DEF RefAt
    <3> QED BY <1>4, <3>2, <3>3
  <2>3. /\ Taken(E, a.entries, a.head, a.ref)
        /\ a.entries[a.ref.slot] = Occupied(text, a.ref.gen, white)
    BY AllocTakes
  <2> HIDE DEF a, hits
  <2>4. /\ Colored(a.entries) /\ Single(a.entries) /\ Table(B) /\ Filed(a.entries, B)
        /\ Continues(E, a.entries)
        /\ Get(a.entries, a.ref) = text /\ ~ Dead(a.entries[a.ref.slot])
    BY <2>2, <2>3, TakenSound
  <2> HIDE DEF B
  <2>5. a.entries \in Seq(Entries) /\ a.head \in Nat /\ a.ref \in Refs /\ Linked(a.entries, a.head)
    BY <2>3 DEF Taken
  <2>6. 2 * Size \in Nat \ {0}
    BY <1>2
  <2>7. Table(R) /\ Filed(a.entries, R)
    BY <2>4, <2>5, <2>6, RehashedFiled
  <2> HIDE DEF R, grows, s, b
  <2>8. s.entries = a.entries /\ s.head = a.head /\ s.ref = a.ref /\ s.buckets \in {R, B}
    BY <2>1
  <2>9. Table(s.buckets) /\ Filed(s.entries, s.buckets)
    BY <2>4, <2>7, <2>8
  <2> QED BY <2>4, <2>5, <2>8, <2>9 DEF Interns, Sound, s
<1> QED BY <1>3, <1>4

-----------------------------------------------------------------------------
(***************************************************************************)
(* Steps that leave the sweep where it is.                                 *)
(***************************************************************************)
LEMMA AgedOn ==
  ASSUME Inv, Continues(entries, entries'), UNCHANGED kept
  PROVE  Aged'
<1>1. SUFFICES ASSUME NEW k \in kept
      PROVE  /\ k.ref.slot \in DOMAIN entries'
             /\ k.age < GenMod =>
                  entries'[k.ref.slot].gen \in {k.ref.gen + k.age, k.ref.gen + k.age - GenMod}
             /\ k.age = 0 => entries'[k.ref.slot].text = k.text
  BY DEF Aged
<1>2. /\ k.ref.slot \in DOMAIN entries
      /\ k.age < GenMod =>
           entries[k.ref.slot].gen \in {k.ref.gen + k.age, k.ref.gen + k.age - GenMod}
      /\ k.age = 0 => entries[k.ref.slot].text = k.text
  BY DEF Inv, Aged
<1>3. k.text \in Texts /\ k.text # Nothing
  BY StringTableAssumption DEF Inv, TypeOK
<1>4. k.age = 0 => k.ref.slot \in Living(entries)
  BY <1>2, <1>3 DEF Living
<1> QED BY <1>2, <1>4 DEF Continues

\* Where the arena continues outside a sweep step, the rest of the invariant does.
LEMMA Carried ==
  ASSUME Inv, Continues(entries, entries'), UNCHANGED <<white, phase, cursor, kept>>
  PROVE  /\ Passed' /\ Aged'
         /\ \A r : \A text \in Texts : Lives(r, text) => Lives(r, text)'
<1>1. Passed'
  BY DEF Inv, Passed, Continues, Dead
<1>2. Aged'
  BY AgedOn
<1>3. ASSUME NEW r, NEW text \in Texts, Lives(r, text) PROVE Lives(r, text)'
  <2>1. Get(entries', r) = text /\ ~ Dead(entries'[r.slot])
    BY <1>3, LivesOn DEF Lives
  <2> QED BY <2>1 DEF Lives, Dead
<1> QED BY <1>1, <1>2, <1>3

\* The references of the program and the cache, and the texts they are for.
LEMMA RootTexts ==
  ASSUME TypeOK
  PROVE  /\ \A h \in held : h.text \in Texts /\ h.ref \in Refs
         /\ \A p \in DOMAIN cache : At[p] \in Texts /\ cache[p] \in Refs
         /\ \A k \in kept : k.text \in Texts /\ k.ref \in Refs /\ k.age \in 0 .. GenMod
BY StringTableAssumption DEF TypeOK

\* Roots stay rooted where the arena continues.
LEMMA StillRooted ==
  ASSUME Inv, Continues(entries, entries'), UNCHANGED <<white, phase, cursor, kept>>
  PROVE  /\ \A h \in held : Lives(h.ref, h.text)'
         /\ \A p \in DOMAIN cache :
              /\ Get(entries', cache[p]) = At[p] /\ ~ Dead(entries'[cache[p].slot])
              /\ phase = "Propagate" => entries'[cache[p].slot].color = "black"
<1>1. ASSUME NEW h \in held PROVE Lives(h.ref, h.text)'
  BY Carried, RootTexts DEF Inv, Rooted
<1>2. ASSUME NEW p \in DOMAIN cache
      PROVE  /\ Get(entries', cache[p]) = At[p] /\ ~ Dead(entries'[cache[p].slot])
             /\ phase = "Propagate" => entries'[cache[p].slot].color = "black"
  <2>1. Lives(cache[p], At[p]) /\ At[p] \in Texts
    BY RootTexts DEF Inv, Rooted
  <2>2. phase = "Propagate" => entries[cache[p].slot].color = "black"
    BY DEF Inv, Rooted
  <2> QED BY <2>1, <2>2, LivesOn DEF Lives
<1> QED BY <1>1, <1>2

\* intern_string keeps the invariant.
LEMMA InternStringStep ==
  ASSUME Inv, NEW text \in Texts, InternString(text)
  PROVE  Inv'
<1>0. PICK s : s = Intern(text)
  OBVIOUS
<1>1. Interns(s, text)
  BY <1>0, InternIs DEF Inv
<1>2. /\ entries' = s.entries /\ head' = s.head /\ buckets' = s.buckets
      /\ held' = held \union {[ref |-> s.ref, text |-> text]}
      /\ UNCHANGED <<cache, white, phase, cursor, kept>>
  BY <1>0 DEF InternString, Interned, gcVars
<1>3. TypeOK'
  <2>1. [ref |-> s.ref, text |-> text] \in [ref : Refs, text : Texts]
    BY <1>1 DEF Interns
  <2>2. entries' \in Seq(Entries) /\ head' \in Nat /\ Table(buckets')
    BY <1>1, <1>2 DEF Interns
  <2> QED BY <1>2, <2>1, <2>2 DEF Inv, TypeOK, Table
<1>4. Sound(entries', head', buckets')
  BY <1>1, <1>2 DEF Interns
<1>5. Continues(entries, entries')
  BY <1>1, <1>2 DEF Interns
<1>6. Passed' /\ Aged'
  BY <1>2, <1>5, Carried
<1>7. Rooted'
  <2>1. \A h \in held : Lives(h.ref, h.text)'
    BY <1>2, <1>5, StillRooted
  <2>2. Lives(s.ref, text)'
    BY <1>1, <1>2 DEF Interns, Lives, Dead
  <2>3. \A p \in DOMAIN cache :
              /\ Get(entries', cache[p]) = At[p] /\ ~ Dead(entries'[cache[p].slot])
              /\ phase = "Propagate" => entries'[cache[p].slot].color = "black"
    BY <1>2, <1>5, StillRooted
  <2>4. \A h \in held' : Lives(h.ref, h.text)'
    BY <1>2, <2>1, <2>2
  <2> QED BY <1>2, <2>3, <2>4 DEF Rooted, Lives, Dead
<1> QED BY <1>3, <1>4, <1>6, <1>7 DEF Inv

\* Continuing is transitive.
LEMMA ContinuesOn ==
  ASSUME NEW E, NEW F, NEW G, Continues(E, F), Continues(F, G),
         \A i \in Living(E) : i \in Living(F)
  PROVE  Continues(E, G)
BY DEF Continues, Living

\* intern_string_static keeps the invariant.
LEMMA InternStaticStep ==
  ASSUME Inv, NEW p \in Pointers, InternStatic(p)
  PROVE  Inv'
<1>t. At[p] \in Texts /\ At[p] # Nothing /\ Nothing \notin Texts
  BY StringTableAssumption
<1>0. PICK s : s = Intern(At[p])
  OBVIOUS
<1>1. Interns(s, At[p])
  BY <1>0, <1>t, InternIs DEF Inv
<1> DEFINE F == StaticColor(s.entries, s.ref)
           i == s.ref.slot
<1>2. /\ entries' = F /\ head' = s.head /\ buckets' = s.buckets
      /\ cache' = [q \in DOMAIN cache \union {p} |-> IF q = p THEN s.ref ELSE cache[q]]
      /\ UNCHANGED <<held, white, phase, cursor, kept>>
  BY <1>0 DEF InternStatic, Interned, gcVars
<1>3. i \in Living(s.entries) /\ s.entries[i].gen = s.ref.gen /\ s.entries[i].text = At[p]
  BY <1>t, <1>1, Reads DEF Interns
<1>4. s.entries \in Seq(Entries) /\ Sound(s.entries, s.head, s.buckets)
  BY <1>1 DEF Interns
<1>5. /\ F \in Seq(Entries) /\ Sound(F, s.head, s.buckets) /\ Continues(s.entries, F)
      /\ phase = "Propagate" => F[i].color = "black"
  <2>1. CASE phase = "Pause"
    <3>1. F = s.entries
      BY <2>1 DEF StaticColor
    <3>2. Continues(s.entries, s.entries)
      BY DEF Continues
    <3> QED BY <1>4, <2>1, <3>1, <3>2
  <2>2. CASE phase # "Pause"
    <3> DEFINE e == [s.entries[i] EXCEPT !.color = "black"]
    <3>1. F = [s.entries EXCEPT ![i] = e]
      BY <2>2 DEF StaticColor
    <3>2. e \in {[s.entries[i] EXCEPT !.color = c] : c \in Whites \union {"black"}}
      OBVIOUS
    <3>3. Recolors(s.entries, [s.entries EXCEPT ![i] = e])
      <4>1. Colored(s.entries)
        BY <1>4 DEF Sound
      <4> HIDE DEF e
      <4> QED BY <1>3, <1>4, <3>2, <4>1, Painted
    <3>4. Recolors(s.entries, F)
      BY <3>1, <3>3
    <3>5. F \in Seq(Entries) /\ Sound(F, s.head, s.buckets)
      BY <1>4, <3>4, RecoloredSound
    <3>6. /\ s.entries[i] \in Entries /\ i \in DOMAIN s.entries
          /\ s.entries \in [DOMAIN s.entries -> Entries]
      BY <1>3, <1>4, EntryIs, LenProperties DEF Living
    <3>7. e.color = "black"
      BY <3>6 DEF Entries
    <3>8. /\ F[i] = e /\ DOMAIN F = DOMAIN s.entries
          /\ \A j \in DOMAIN s.entries \ {i} : F[j] = s.entries[j]
      BY <3>1, <3>6
    <3>9. "black" # Other(white)
      BY DEF Other
    <3> HIDE DEF F, e
    <3>10. Continues(s.entries, F)
      BY <3>4, <3>7, <3>8, <3>9 DEF Continues, Recolors, Dead
    <3> QED BY <3>5, <3>7, <3>8, <3>10
  <2> QED BY <2>1, <2>2
<1> HIDE DEF F
<1>6. Continues(entries, entries')
  <2>1. Continues(entries, s.entries)
    BY <1>1 DEF Interns
  <2>2. \A j \in Living(entries) : j \in Living(s.entries)
    BY <2>1 DEF Continues, Living
  <2> QED BY <1>2, <1>5, <2>1, <2>2, ContinuesOn
<1>7. /\ Get(entries', s.ref) = At[p] /\ ~ Dead(entries'[i])
      /\ phase = "Propagate" => entries'[i].color = "black"
  <2>1. Get(s.entries, s.ref) = At[p] /\ ~ Dead(s.entries[i])
    BY <1>1 DEF Interns
  <2> QED BY <1>t, <1>2, <1>5, <2>1, LivesOn
<1>8. /\ DOMAIN cache' = DOMAIN cache \union {p}
      /\ \A q \in DOMAIN cache' : cache'[q] = IF q = p THEN s.ref ELSE cache[q]
  BY <1>2
<1>9. TypeOK'
  <2>1. entries' \in Seq(Entries) /\ head' \in Nat /\ Table(buckets') /\ s.ref \in Refs
    BY <1>1, <1>2, <1>5 DEF Interns
  <2>2. DOMAIN cache' \subseteq Pointers /\ \A q \in DOMAIN cache' : cache'[q] \in Refs
    BY <1>8, <2>1 DEF Inv, TypeOK
  <2> QED BY <1>2, <2>1, <2>2 DEF Inv, TypeOK, Table
<1>10. Passed' /\ Aged'
  BY <1>2, <1>6, Carried
<1>11. Rooted'
  <2>1. \A h \in held' : Lives(h.ref, h.text)'
    BY <1>2, <1>6, StillRooted
  <2>2. ASSUME NEW q \in DOMAIN cache'
        PROVE  /\ Get(entries', cache'[q]) = At[q] /\ ~ Dead(entries'[cache'[q].slot])
               /\ phase = "Propagate" => entries'[cache'[q].slot].color = "black"
    <3>1. CASE q = p
      <4>1. cache'[q] = s.ref
        BY <1>8, <3>1
      <4> QED BY <1>7, <3>1, <4>1
    <3>2. CASE q # p
      <4>1. q \in DOMAIN cache /\ cache'[q] = cache[q]
        BY <1>8, <2>2, <3>2
      <4> QED BY <1>2, <1>6, <4>1, StillRooted
    <3> QED BY <3>1, <3>2
  <2> QED BY <1>2, <2>1, <2>2 DEF Rooted, Lives, Dead
<1>12. Sound(entries', head', buckets')
  BY <1>2, <1>5
<1> QED BY <1>9, <1>10, <1>11, <1>12 DEF Inv

(***************************************************************************)
(* The program moves references about.                                     *)
(***************************************************************************)
LEMMA ProgramStep ==
  ASSUME Inv,
         \/ \E p \in Pointers : HoldStatic(p)
         \/ \E h \in held : Release(h) \/ Remember(h)
         \/ \E k \in kept : Forget(k)
  PROVE  Inv'
<1>1. UNCHANGED <<entries, head, buckets, cache, white, phase, cursor>>
  BY DEF HoldStatic, Release, Remember, Forget, arenaVars, tableVars, gcVars
<1>2. /\ \A h \in held' : h \in [ref : Refs, text : Texts] /\ Lives(h.ref, h.text)
      /\ kept' \subseteq [ref : Refs, text : Texts, age : 0 .. GenMod]
      /\ \A k \in kept' :
           /\ k.ref.slot \in DOMAIN entries
           /\ k.age < GenMod =>
                entries[k.ref.slot].gen \in {k.ref.gen + k.age, k.ref.gen + k.age - GenMod}
           /\ k.age = 0 => entries[k.ref.slot].text = k.text
  <2>0. /\ \A h \in held : h \in [ref : Refs, text : Texts] /\ Lives(h.ref, h.text)
        /\ kept \subseteq [ref : Refs, text : Texts, age : 0 .. GenMod]
        /\ \A k \in kept :
             /\ k.ref.slot \in DOMAIN entries
             /\ k.age < GenMod =>
                entries[k.ref.slot].gen \in {k.ref.gen + k.age, k.ref.gen + k.age - GenMod}
             /\ k.age = 0 => entries[k.ref.slot].text = k.text
    BY DEF Inv, TypeOK, Rooted, Aged
  <2>1. ASSUME NEW p \in Pointers, HoldStatic(p)
        PROVE  /\ kept' = kept /\ held' = held \union {[ref |-> cache[p], text |-> At[p]]}
               /\ [ref |-> cache[p], text |-> At[p]] \in [ref : Refs, text : Texts]
               /\ Lives(cache[p], At[p])
    BY <2>1, RootTexts DEF HoldStatic, Inv, Rooted
  <2>2. ASSUME NEW h \in held, Release(h)
        PROVE  kept' = kept /\ held' \subseteq held
    BY <2>2 DEF Release
  <2>3. ASSUME NEW h \in held, Remember(h)
        PROVE  /\ held' \subseteq held
               /\ kept' = kept \union {[ref |-> h.ref, text |-> h.text, age |-> 0]}
               /\ [ref |-> h.ref, text |-> h.text, age |-> 0]
                    \in [ref : Refs, text : Texts, age : 0 .. GenMod]
               /\ h.ref.slot \in DOMAIN entries /\ h.ref.gen \in Nat
               /\ entries[h.ref.slot].gen = h.ref.gen
               /\ entries[h.ref.slot].text = h.text
    <3>1. h.ref \in Refs /\ h.text \in Texts /\ Lives(h.ref, h.text)
      BY <2>0
    <3>2. /\ h.ref.slot \in Living(entries) /\ entries[h.ref.slot].gen = h.ref.gen
          /\ entries[h.ref.slot].text = h.text
      BY <3>1, Reads DEF Lives
    <3>3. h.ref.gen \in Nat /\ 0 \in 0 .. GenMod
      BY <3>1, StringTableAssumption DEF Refs, Generations
    <3> QED BY <2>3, <3>1, <3>2, <3>3 DEF Remember, Living
  <2>4. ASSUME NEW k \in kept, Forget(k)
        PROVE  held' = held /\ kept' \subseteq kept
    BY <2>4 DEF Forget
  <2>5. CASE \E p \in Pointers : HoldStatic(p)
    BY <2>0, <2>1, <2>5
  <2>6. CASE \E h \in held : Release(h)
    BY <2>0, <2>2, <2>6
  <2>7. CASE \E h \in held : Remember(h)
    BY <2>0, <2>3, <2>7
  <2>8. CASE \E k \in kept : Forget(k)
    BY <2>0, <2>4, <2>8
  <2> QED BY <2>5, <2>6, <2>7, <2>8
<1>3. TypeOK'
  BY <1>1, <1>2 DEF Inv, TypeOK, Table
<1>4. Sound(entries', head', buckets') /\ Passed'
  BY <1>1 DEF Inv, Passed, Dead
<1>5. Aged'
  BY <1>1, <1>2 DEF Aged
<1>6. Rooted'
  BY <1>1, <1>2 DEF Inv, Rooted, Lives, Dead
<1> QED BY <1>3, <1>4, <1>5, <1>6 DEF Inv

(***************************************************************************)
(* The steps of the cycle.                                                 *)
(***************************************************************************)
LEMMA MarkedIs ==
  ASSUME TypeOK, Sound(entries, head, buckets), NEW R
  PROVE  /\ Recolors(entries, Marked(R)) /\ Continues(entries, Marked(R))
         /\ \A i \in Living(entries) :
              (\E r \in R : r.slot = i /\ r.gen = entries[i].gen) => Marked(R)[i].color = "black"
<1> DEFINE E == entries
           F == Marked(R)
           hit(i) == E[i].color \in Whites /\ \E r \in R : r.slot = i /\ r.gen = E[i].gen
           black(i) == [E[i] EXCEPT !.color = "black"]
<1>1. E \in Seq(Entries) /\ Colored(E)
  BY DEF TypeOK, Sound
<1>2. ASSUME NEW i \in DOMAIN E
      PROVE  /\ F[i] = IF hit(i) THEN black(i) ELSE E[i]
             /\ E[i] \in Entries
  BY <1>1, EntryIs DEF Marked
<1>3. ASSUME NEW i \in DOMAIN E
      PROVE  /\ black(i) \in Entries /\ black(i).gen = E[i].gen /\ black(i).text = E[i].text
             /\ black(i).next = E[i].next /\ black(i).color = "black"
  BY <1>2, <1>3 DEF Entries, Colors
<1>4. DOMAIN F = DOMAIN E /\ F = [i \in DOMAIN E |-> F[i]]
  BY DEF Marked
<1> HIDE DEF F, black
<1>5. Recolors(E, F)
  <2>1. \A i \in DOMAIN E : F[i] \in Entries
    BY <1>2, <1>3
  <2>2. F \in [DOMAIN E -> Entries]
    BY <1>4, <2>1
  <2>3. \A i \in DOMAIN E : hit(i) => E[i].color # "free"
    BY DEF Whites
  <2> QED BY <1>2, <1>3, <2>2, <2>3 DEF Recolors
<1>6. Continues(E, F)
  <2>1. "black" # Other(white)
    BY DEF Other
  <2> QED BY <1>2, <1>3, <1>4, <2>1 DEF Continues, Dead
<1>7. ASSUME NEW i \in Living(E), \E r \in R : r.slot = i /\ r.gen = E[i].gen
      PROVE  F[i].color = "black"
  <2>1. i \in DOMAIN E /\ E[i].color # "free" /\ E[i].color \in Colors
    BY <1>1, EntryIs DEF Living, Colored, Free
  <2>2. E[i].color \in Whites \/ E[i].color = "black"
    BY <2>1 DEF Colors
  <2> QED BY <1>2, <1>3, <1>7, <2>1, <2>2
<1> QED BY <1>5, <1>6, <1>7 DEF F

\* Marking keeps the arena and the table sound.
LEMMA MarkedSound ==
  ASSUME Inv, NEW R, entries' = Marked(R), UNCHANGED <<head, buckets, kept>>
  PROVE  /\ entries' \in Seq(Entries) /\ Sound(entries', head', buckets') /\ Aged'
<1>1. Recolors(entries, Marked(R)) /\ Continues(entries, Marked(R))
  BY MarkedIs DEF Inv
<1>2. Marked(R) \in Seq(Entries) /\ Sound(Marked(R), head, buckets)
  BY <1>1, RecoloredSound DEF Inv, TypeOK
<1>3. Continues(entries, entries')
  BY <1>1
<1>4. Aged'
  BY <1>3, AgedOn
<1> QED BY <1>2, <1>4

\* A root that is marked is black and reads as before.
LEMMA MarkedBlack ==
  ASSUME Inv, NEW R, NEW r \in R, NEW text \in Texts, Lives(r, text)
  PROVE  Get(Marked(R), r) = text /\ Marked(R)[r.slot].color = "black"
<1>1. Continues(entries, Marked(R))
  BY MarkedIs DEF Inv
<1>2. Get(Marked(R), r) = text
  BY <1>1, LivesOn DEF Lives
<1>3. r.slot \in Living(entries) /\ entries[r.slot].gen = r.gen
  BY Reads DEF Lives
<1>4. Marked(R)[r.slot].color = "black"
  BY <1>3, MarkedIs DEF Inv
<1> QED BY <1>2, <1>4

\* mark_gc_roots keeps the invariant.
LEMMA StartCycleStep ==
  ASSUME Inv, StartCycle
  PROVE  Inv'
<1> DEFINE R == {cache[p] : p \in DOMAIN cache}
<1>1. /\ entries' = Marked(R) /\ phase = "Pause" /\ phase' = "Propagate"
      /\ UNCHANGED <<head, buckets, cache, white, cursor, held, kept>>
  BY DEF StartCycle, tableVars
<1> HIDE DEF R
<1>2. entries' \in Seq(Entries) /\ Sound(entries', head', buckets') /\ Aged'
  BY <1>1, MarkedSound
<1>3. Continues(entries, entries')
  BY <1>1, MarkedIs DEF Inv
<1>4. Passed'
  <2>1. \A i \in DOMAIN entries' : ~ Dead(entries'[i])
    BY <1>1, <1>3 DEF Continues, Inv, Passed
  <2> QED BY <1>1, <2>1 DEF Passed, Dead
<1>5. TypeOK'
  BY <1>1, <1>2 DEF Inv, TypeOK, Table, Phases
<1>6. Rooted'
  <2>1. ASSUME NEW h \in held PROVE Get(entries', h.ref) = h.text /\ ~ Dead(entries'[h.ref.slot])
    <3>1. Lives(h.ref, h.text) /\ h.text \in Texts
      BY RootTexts DEF Inv, Rooted
    <3> QED BY <1>3, <3>1, LivesOn DEF Lives
  <2>2. ASSUME NEW p \in DOMAIN cache
        PROVE  /\ Get(entries', cache[p]) = At[p] /\ ~ Dead(entries'[cache[p].slot])
               /\ entries'[cache[p].slot].color = "black"
    <3>1. Lives(cache[p], At[p]) /\ At[p] \in Texts /\ cache[p] \in R
      BY RootTexts DEF Inv, Rooted, R
    <3>2. Get(entries', cache[p]) = At[p] /\ entries'[cache[p].slot].color = "black"
      BY <1>1, <3>1, MarkedBlack
    <3> QED BY <3>2 DEF Dead, Other
  <2> QED BY <1>1, <2>1, <2>2 DEF Rooted, Lives, Dead
<1> QED BY <1>2, <1>4, <1>5, <1>6 DEF Inv

\* The atomic phase keeps the invariant: everything rooted escapes the sweep to come.
LEMMA AtomicStep ==
  ASSUME Inv, Atomic
  PROVE  Inv'
<1> DEFINE R == {h.ref : h \in held}
<1>1. /\ entries' = Marked(R) /\ phase = "Propagate" /\ phase' = "SweepString"
      /\ white' = Other(white) /\ cursor' = 1
      /\ UNCHANGED <<head, buckets, cache, held, kept>>
  BY DEF Atomic, tableVars
<1> HIDE DEF R
<1>2. entries' \in Seq(Entries) /\ Sound(entries', head', buckets') /\ Aged'
  BY <1>1, MarkedSound
<1>3. Continues(entries, entries')
  BY <1>1, MarkedIs DEF Inv
<1>4. Passed'
  <2>1. \A i \in DOMAIN entries' : i >= 1
    BY <1>2, LenProperties
  <2> QED BY <1>1, <2>1 DEF Passed
<1>5. TypeOK'
  <2>1. white' \in Whites
    BY <1>1 DEF Other, Whites
  <2> QED BY <1>1, <1>2, <2>1, SMTT(60) DEF Inv, TypeOK, Table, Phases
<1>b. "black" # Other(white')
  BY DEF Other
<1>6. Rooted'
  <2>1. ASSUME NEW h \in held
        PROVE  Get(entries', h.ref) = h.text /\ entries'[h.ref.slot].color = "black"
    <3>1. Lives(h.ref, h.text) /\ h.text \in Texts /\ h.ref \in R
      BY RootTexts DEF Inv, Rooted, R
    <3> QED BY <1>1, <3>1, MarkedBlack
  <2>2. ASSUME NEW p \in DOMAIN cache
        PROVE  /\ Get(entries', cache[p]) = At[p] /\ entries'[cache[p].slot].color = "black"
    <3>1. /\ Lives(cache[p], At[p]) /\ At[p] \in Texts
          /\ entries[cache[p].slot].color = "black"
      BY <1>1, RootTexts DEF Inv, Rooted
    <3> QED BY <1>3, <3>1, LivesOn DEF Lives
  <2> QED BY <1>1, <1>b, <2>1, <2>2 DEF Rooted, Lives, Dead
<1> QED BY <1>2, <1>4, <1>5, <1>6 DEF Inv

\* Giving a marking up keeps the invariant: nothing is of the other white yet.
LEMMA AbandonStep ==
  ASSUME Inv, Abandon
  PROVE  Inv'
<1>1. /\ phase' = "SweepString" /\ cursor' = 1
      /\ UNCHANGED <<entries, head, buckets, cache, white, held, kept>>
  BY DEF Abandon, arenaVars, tableVars
<1>2. \A i \in DOMAIN entries : i >= 1
  BY LenProperties DEF Inv, TypeOK
<1>3. TypeOK'
  BY <1>1 DEF Inv, TypeOK, Table, Phases
<1>4. Passed' /\ Aged'
  BY <1>1, <1>2 DEF Inv, Passed, Aged
<1>5. Rooted'
  BY <1>1 DEF Inv, Rooted, Lives, Dead
<1> QED BY <1>1, <1>3, <1>4, <1>5 DEF Inv

\* The end of a sweep keeps the invariant.
LEMMA EndCycleStep ==
  ASSUME Inv, EndCycle
  PROVE  Inv'
<1>1. /\ phase = "Sweep" /\ phase' = "Pause"
      /\ UNCHANGED <<entries, head, buckets, cache, white, cursor, held, kept>>
  BY DEF EndCycle, arenaVars, tableVars
<1>2. TypeOK'
  BY <1>1 DEF Inv, TypeOK, Table, Phases
<1>3. Passed' /\ Aged'
  BY <1>1 DEF Inv, Passed, Aged, Dead
<1>4. Rooted'
  BY <1>1 DEF Inv, Rooted, Lives, Dead
<1> QED BY <1>1, <1>2, <1>3, <1>4 DEF Inv

-----------------------------------------------------------------------------
(***************************************************************************)
(* The sweep: what it frees goes in front of the free list, each slot      *)
(* linked to the one freed before it.                                      *)
(***************************************************************************)
LEMMA PushedIs ==
  ASSUME NEW n \in Nat, NEW gone \in SUBSET (1 .. n), NEW i \in gone
  PROVE  \/ Pushed(gone)[i] = head /\ \A j \in gone : ~ (j < i)
         \/ /\ Pushed(gone)[i] \in gone /\ Pushed(gone)[i] < i
            /\ \A j \in gone : j < i => j <= Pushed(gone)[i]
<1> DEFINE before == {j \in gone : j < i}
<1>1. Pushed(gone)[i] = IF before = {} THEN head ELSE Max(before)
  BY DEF Pushed
<1>2. CASE before = {}
  BY <1>1, <1>2
<1>3. CASE before # {}
  <2>1. before \in SUBSET (1 .. n)
    OBVIOUS
  <2> HIDE DEF before
  <2>2. Max(before) \in before /\ \A j \in before : j <= Max(before)
    BY <1>3, <2>1, MaxIs
  <2> QED BY <1>1, <1>3, <2>2 DEF before
<1> QED BY <1>2, <1>3

\* What a sweep step leaves in each slot.
LEMMA SweptIs ==
  ASSUME TypeOK, NEW seen \in SUBSET Living(entries), NEW gone \in SUBSET seen
  PROVE  /\ DOMAIN Swept(seen, gone) = DOMAIN entries
         /\ \A i \in gone :
              LET e == Swept(seen, gone)[i]
              IN  /\ e.gen = NextGeneration(entries[i].gen) /\ e.text = Nothing
                  /\ e.color = "free" /\ e.next = Pushed(gone)[i]
         /\ \A i \in seen \ gone :
              LET e == Swept(seen, gone)[i]
              IN  /\ e.gen = entries[i].gen /\ e.text = entries[i].text
                  /\ e.color = white /\ e.next = entries[i].next
         /\ \A i \in DOMAIN entries \ seen : Swept(seen, gone)[i] = entries[i]
<1> DEFINE F == Swept(seen, gone)
<1>1. DOMAIN F = DOMAIN entries
  BY DEF Swept
<1>2. gone \subseteq DOMAIN entries /\ seen \subseteq DOMAIN entries
  BY DEF Living
<1>3. ASSUME NEW i \in gone
      PROVE  F[i] = [gen |-> NextGeneration(entries[i].gen), text |-> Nothing,
                     color |-> "free", next |-> Pushed(gone)[i]]
  BY <1>2 DEF Swept, Freed
<1>4. ASSUME NEW i \in seen \ gone
      PROVE  F[i] = [entries[i] EXCEPT !.color = white]
  BY <1>2 DEF Swept
<1>5. ASSUME NEW i \in DOMAIN entries \ seen PROVE F[i] = entries[i]
  BY DEF Swept
<1>6. \A i \in seen : entries[i] \in Entries
  BY <1>2, EntryIs DEF TypeOK
<1> HIDE DEF F
<1>7. ASSUME NEW i \in seen \ gone
      PROVE  /\ F[i].gen = entries[i].gen /\ F[i].text = entries[i].text
             /\ F[i].color = white /\ F[i].next = entries[i].next
  BY <1>4, <1>6 DEF Entries
<1>8. ASSUME NEW i \in gone
      PROVE  /\ F[i].gen = NextGeneration(entries[i].gen) /\ F[i].text = Nothing
             /\ F[i].color = "free" /\ F[i].next = Pushed(gone)[i]
  <2> DEFINE g == NextGeneration(entries[i].gen)
             l == Pushed(gone)[i]
  <2>1. F[i] = [gen |-> g, text |-> Nothing, color |-> "free", next |-> l]
    BY <1>3
  <2> HIDE DEF g, l
  <2>2. F[i].gen = g /\ F[i].text = Nothing /\ F[i].color = "free" /\ F[i].next = l
    BY <2>1
  <2> QED BY <2>2 DEF g, l
<1> QED BY <1>1, <1>5, <1>7, <1>8 DEF F

\* Swept slots are slots.
LEMMA SweptTyped ==
  ASSUME TypeOK, NEW seen \in SUBSET Living(entries), NEW gone \in SUBSET seen
  PROVE  Swept(seen, gone) \in Seq(Entries)
<1> DEFINE F == Swept(seen, gone)
<1>1. /\ Len(entries) \in Nat /\ DOMAIN entries = 1 .. Len(entries)
      /\ head \in Nat /\ white \in Colors
  BY LenProperties DEF TypeOK, Colors
<1>2. seen \subseteq DOMAIN entries /\ gone \subseteq 1 .. Len(entries)
  BY <1>1 DEF Living
<1>3. \A i \in DOMAIN entries : entries[i] \in Entries /\ entries[i].gen \in Generations
  BY EntryIs DEF TypeOK
<1>4. ASSUME NEW i \in gone PROVE F[i] \in Entries
  <2>1. Pushed(gone)[i] \in Nat
    <3>1. Pushed(gone)[i] = head \/ Pushed(gone)[i] \in gone
      BY <1>1, <1>2, PushedIs
    <3> QED BY <1>1, <1>2, <3>1
  <2>2. NextGeneration(entries[i].gen) \in Generations
    BY <1>2, <1>3, GenerationIs
  <2>3. F[i] = [gen |-> NextGeneration(entries[i].gen), text |-> Nothing,
                color |-> "free", next |-> Pushed(gone)[i]]
    BY <1>2 DEF Swept, Freed
  <2> QED BY <2>1, <2>2, <2>3 DEF Entries, Colors
<1>5. ASSUME NEW i \in DOMAIN entries \ gone PROVE F[i] \in Entries
  <2>1. F[i] = entries[i] \/ F[i] = [entries[i] EXCEPT !.color = white]
    BY DEF Swept
  <2> HIDE DEF F
  <2> QED BY <1>1, <1>3, <2>1 DEF Entries
<1>6. F \in [1 .. Len(entries) -> Entries]
  <2>1. F = [i \in DOMAIN entries |-> F[i]]
    BY DEF Swept
  <2> HIDE DEF F
  <2> QED BY <1>1, <1>4, <1>5, <2>1
<1> QED BY <1>1, <1>6, SeqDef

\* The free list of a sweep step is linked.
LEMMA SweptLinked ==
  ASSUME TypeOK, Linked(entries, head), NEW seen \in SUBSET Living(entries), NEW gone \in SUBSET seen
  PROVE  /\ Linked(Swept(seen, gone), IF gone = {} THEN head ELSE Max(gone))
         /\ Free(Swept(seen, gone)) = Free(entries) \union gone
         /\ Living(Swept(seen, gone)) = Living(entries) \ gone
<1> DEFINE F == Swept(seen, gone)
           E == entries
           top == IF gone = {} THEN head ELSE Max(gone)
<1>1. Len(E) \in Nat /\ DOMAIN E = 1 .. Len(E)
  BY LenProperties DEF TypeOK
<1>2. gone \in SUBSET (1 .. Len(E)) /\ gone \subseteq DOMAIN E /\ gone \cap Free(E) = {}
  BY <1>1 DEF Living, Free
<1>3. DOMAIN F = DOMAIN E /\ \A i \in DOMAIN E : F[i].text = IF i \in gone THEN Nothing ELSE E[i].text
  BY SweptIs
<1>4. /\ \A i \in gone : F[i].next = Pushed(gone)[i]
      /\ \A i \in DOMAIN E \ gone : F[i].next = E[i].next
  BY SweptIs, ZenonT(60)
<1> HIDE DEF F
<1>5. Free(F) = Free(E) \union gone /\ Living(F) = Living(E) \ gone
  BY <1>2, <1>3 DEF Free, Living
<1>6. \A i \in Free(E) : i \in DOMAIN E \ gone /\ F[i].next = E[i].next
  BY <1>2, <1>4 DEF Free
<1>7. Linked(F, top)
  <2>1. CASE gone = {}
    BY <1>5, <1>6, <2>1 DEF Linked
  <2>2. CASE gone # {}
    <3>1. top = Max(gone) /\ Max(gone) \in gone /\ \A j \in gone : j <= Max(gone)
      BY <1>1, <1>2, <2>2, MaxIs
    <3>2. \A i \in gone : \/ F[i].next = head /\ \A j \in gone : ~ (j < i)
                          \/ /\ F[i].next \in gone /\ F[i].next < i
                             /\ \A j \in gone : j < i => j <= F[i].next
      BY <1>1, <1>2, <1>4, PushedIs
    <3>3. /\ head = 0 \/ head \in Free(E)
          /\ \A i \in Free(E) : F[i].next = 0 \/ (F[i].next \in Free(E) /\ F[i].next # head)
          /\ \A i, j \in Free(E) : F[i].next = F[j].next => i = j \/ F[i].next = 0
      BY <1>6 DEF Linked
    <3>4. \A i \in gone : i \in Nat /\ i # 0
      BY <1>1, <1>2
    <3> HIDE DEF top
    <3>5. top \in Free(F)
      BY <1>5, <3>1
    <3>6. ASSUME NEW i \in Free(F)
          PROVE  F[i].next = 0 \/ (F[i].next \in Free(F) /\ F[i].next # top)
      <4>1. CASE i \in gone
        <5>1. CASE F[i].next = head
          BY <1>2, <1>5, <3>1, <3>3, <5>1
        <5>2. CASE F[i].next \in gone /\ F[i].next < i
          BY <1>5, <3>1, <3>4, <4>1, <5>2
        <5> QED BY <3>2, <4>1, <5>1, <5>2
      <4>2. CASE i \in Free(E)
        BY <1>2, <1>5, <3>1, <3>3, <4>2
      <4> QED BY <1>5, <4>1, <4>2
    <3>7. ASSUME NEW i \in Free(F), NEW j \in Free(F), F[i].next = F[j].next, F[i].next # 0
          PROVE  i = j
      <4>1. CASE i \in gone /\ j \in gone
        <5>1. CASE F[i].next \in gone
          <6>1. F[i].next # head
            BY <1>2, <3>3, <3>4, <5>1
          <6>2. /\ F[i].next < i /\ \A k \in gone : k < i => k <= F[i].next
                /\ F[i].next < j /\ \A k \in gone : k < j => k <= F[i].next
            BY <3>2, <3>7, <4>1, <6>1
          <6>3. ~ (i < j) /\ ~ (j < i)
            BY <3>4, <4>1, <5>1, <6>2
          <6> QED BY <3>4, <4>1, <6>3
        <5>2. CASE F[i].next \notin gone
          <6>1. (\A k \in gone : ~ (k < i)) /\ (\A k \in gone : ~ (k < j))
            BY <3>2, <3>7, <4>1, <5>2
          <6> QED BY <3>4, <4>1, <6>1
        <5> QED BY <5>1, <5>2
      <4>2. CASE i \in Free(E) /\ j \in Free(E)
        BY <3>3, <3>7, <4>2
      <4>3. ASSUME NEW a \in gone, NEW b \in Free(E), F[a].next = F[b].next, F[a].next # 0
            PROVE  FALSE
        <5>1. F[b].next \in Free(E) /\ F[b].next # head
          BY <3>3, <4>3
        <5> QED BY <1>2, <3>2, <4>3, <5>1
      <4> QED BY <1>5, <3>7, <4>1, <4>2, <4>3
    <3> QED BY <3>5, <3>6, <3>7 DEF Linked
  <2> QED BY <2>1, <2>2
<1> QED BY <1>5, <1>7 DEF F

\* The swept slots, one fact for each fate.
LEMMA SweptParts ==
  ASSUME TypeOK, NEW seen \in SUBSET Living(entries), NEW gone \in SUBSET seen
  PROVE  /\ DOMAIN Swept(seen, gone) = DOMAIN entries
         /\ \A i \in gone : /\ Swept(seen, gone)[i].color = "free"
                             /\ Swept(seen, gone)[i].gen = NextGeneration(entries[i].gen)
         /\ \A i \in seen \ gone : Swept(seen, gone)[i].color = white
         /\ \A i \in DOMAIN entries \ seen : Swept(seen, gone)[i] = entries[i]
         /\ \A i \in DOMAIN entries \ gone : /\ Swept(seen, gone)[i].gen = entries[i].gen
                                            /\ Swept(seen, gone)[i].text = entries[i].text
<1> DEFINE F == Swept(seen, gone)
<1>1. /\ DOMAIN F = DOMAIN entries
      /\ \A i \in gone : F[i].color = "free" /\ F[i].gen = NextGeneration(entries[i].gen)
      /\ \A i \in seen \ gone : /\ F[i].gen = entries[i].gen /\ F[i].text = entries[i].text
                               /\ F[i].color = white
      /\ \A i \in DOMAIN entries \ seen : F[i] = entries[i]
  BY SweptIs, ZenonT(60)
<1> HIDE DEF F
<1>2. /\ DOMAIN F = DOMAIN entries
      /\ \A i \in gone : /\ F[i].color = "free"
                          /\ F[i].gen = NextGeneration(entries[i].gen)
      /\ \A i \in seen \ gone : F[i].color = white
      /\ \A i \in DOMAIN entries \ seen : F[i] = entries[i]
      /\ \A i \in DOMAIN entries \ gone : F[i].gen = entries[i].gen /\ F[i].text = entries[i].text
  BY <1>1
<1> QED BY <1>2 DEF F

\* A sweep step keeps the arena and the table sound, cleaning the buckets or not.
LEMMA SweptSound ==
  ASSUME TypeOK, Sound(entries, head, buckets),
         NEW seen \in SUBSET Living(entries), NEW gone \in SUBSET seen,
         NEW B, \/ B = buckets
                \/ B = [b \in DOMAIN buckets |->
                          buckets[b] \ {r \in References : Get(Swept(seen, gone), r) = Nothing}]
  PROVE  Sound(Swept(seen, gone), IF gone = {} THEN head ELSE Max(gone), B) /\ Table(B)
<1> DEFINE F == Swept(seen, gone)
           E == entries
           lost == {r \in References : Get(F, r) = Nothing}
<1>1. /\ DOMAIN F = DOMAIN E
      /\ \A i \in gone : F[i].color = "free"
      /\ \A i \in seen \ gone : F[i].color = white
      /\ \A i \in DOMAIN E \ seen : F[i] = E[i]
      /\ \A i \in DOMAIN E \ gone : F[i].gen = E[i].gen /\ F[i].text = E[i].text
  <2>1. F = Swept(seen, gone)
    OBVIOUS
  <2> HIDE DEF F
  <2>2. /\ DOMAIN F = DOMAIN entries
        /\ \A i \in gone : /\ F[i].color = "free"
                            /\ F[i].gen = NextGeneration(entries[i].gen)
        /\ \A i \in seen \ gone : F[i].color = white
        /\ \A i \in DOMAIN entries \ seen : F[i] = entries[i]
        /\ \A i \in DOMAIN entries \ gone : F[i].gen = entries[i].gen /\ F[i].text = entries[i].text
    BY <2>1, SweptParts, Zenon
  <2> QED BY <2>2
<1>2. /\ Linked(F, IF gone = {} THEN head ELSE Max(gone))
      /\ Free(F) = Free(E) \union gone /\ Living(F) = Living(E) \ gone
  BY SweptLinked DEF Sound
<1>3. PICK n \in Nat \ {0} : buckets \in [0 .. n - 1 -> SUBSET Refs]
  BY DEF TypeOK, Table
<1>4. B \in [0 .. n - 1 -> SUBSET Refs] /\ \A b \in 0 .. n - 1 : buckets[b] \ lost \subseteq B[b]
  <2>1. CASE B = buckets
    BY <1>3, <2>1
  <2>2. CASE B = [b \in DOMAIN buckets |-> buckets[b] \ lost]
    <3> HIDE DEF lost
    <3> QED BY <1>3, <2>2
  <2> QED BY <2>1, <2>2
<1>5. Cardinality(DOMAIN B) = n /\ Cardinality(DOMAIN buckets) = n
  BY <1>3, <1>4, SizeIs
<1> HIDE DEF F
<1>6. Colored(F)
  <2>1. Colored(E) /\ white # "free"
    BY DEF Sound, TypeOK, Whites
  <2>2. seen \cap Free(E) = {}
    BY DEF Living, Free
  <2> QED BY <1>1, <1>2, <2>1, <2>2 DEF Colored, Living
<1>7. \A i \in Living(F) : /\ i \in Living(E) /\ F[i].text = E[i].text
                           /\ RefAt(F, i) = RefAt(E, i)
  BY <1>1, <1>2 DEF Living, RefAt
<1>8. Single(F)
  BY <1>7 DEF Single, Sound
<1>9. Filed(F, B)
  <2>1. SUFFICES ASSUME NEW i \in Living(F)
        PROVE  RefAt(F, i) \in B[Bucket(F[i].text, n)]
    BY <1>5 DEF Filed
  <2>2. RefAt(E, i) \in buckets[Bucket(E[i].text, n)]
    BY <1>5, <1>7 DEF Filed, Sound
  <2>3. F[i].text \in Texts
    BY <1>7, EntryIs DEF TypeOK, Living
  <2>4. Bucket(F[i].text, n) \in 0 .. n - 1
    BY <2>3, BucketIs
  <2>5. Get(F, RefAt(F, i)) # Nothing
    <3>1. Get(F, RefAt(F, i)) = F[i].text
      BY ReadsAt DEF RefAt
    <3> QED BY <2>3, <3>1, StringTableAssumption
  <2> QED BY <1>4, <1>7, <2>2, <2>4, <2>5
<1> QED BY <1>2, <1>4, <1>6, <1>8, <1>9 DEF Sound, Table, F

\* A kept reference ages with the slot that a sweep step frees.
LEMMA SweptAged ==
  ASSUME Inv, NEW seen \in SUBSET Living(entries), NEW gone \in SUBSET seen,
         entries' = Swept(seen, gone),
         kept' = {[k EXCEPT !.age = IF k.ref.slot \in gone /\ @ < GenMod THEN @ + 1 ELSE @]
                    : k \in kept}
  PROVE  Aged' /\ kept' \subseteq [ref : Refs, text : Texts, age : 0 .. GenMod]
<1> DEFINE later(k) == IF k.ref.slot \in gone /\ k.age < GenMod THEN k.age + 1 ELSE k.age
<1>m. GenMod \in Nat \ {0}
  BY StringTableAssumption
<1>1. ASSUME NEW K \in kept'
      PROVE  \E k \in kept : K = [ref |-> k.ref, text |-> k.text, age |-> later(k)]
  <2>1. PICK k \in kept : K = [k EXCEPT !.age = IF k.ref.slot \in gone /\ @ < GenMod THEN @ + 1 ELSE @]
    BY <1>1
  <2>2. k \in [ref : Refs, text : Texts, age : 0 .. GenMod]
    BY DEF Inv, TypeOK
  <2>3. K = [k EXCEPT !.age = later(k)]
    BY <2>1, <2>2
  <2> HIDE DEF later
  <2>4. K = [ref |-> k.ref, text |-> k.text, age |-> later(k)]
    BY <2>2, <2>3
  <2> QED BY <2>4
<1>2. ASSUME NEW K \in kept'
      PROVE  /\ K \in [ref : Refs, text : Texts, age : 0 .. GenMod]
             /\ K.ref.slot \in DOMAIN entries'
             /\ K.age < GenMod =>
                  entries'[K.ref.slot].gen \in {K.ref.gen + K.age, K.ref.gen + K.age - GenMod}
             /\ K.age = 0 => entries'[K.ref.slot].text = K.text
  <2>1. PICK k \in kept : K = [ref |-> k.ref, text |-> k.text, age |-> later(k)]
    BY <1>1, <1>2
  <2> DEFINE i == k.ref.slot
             g == k.ref.gen
             e == entries[i].gen
  <2>2. k.ref \in Refs /\ k.text \in Texts /\ k.age \in 0 .. GenMod
    BY RootTexts DEF Inv
  <2>3. g \in Generations
    BY <2>2 DEF Refs
  <2>4. /\ i \in DOMAIN entries
        /\ k.age < GenMod => e \in {g + k.age, g + k.age - GenMod}
        /\ k.age = 0 => entries[i].text = k.text
    BY DEF Inv, Aged
  <2>5. e \in Generations
    BY <2>4, EntryIs DEF Inv, TypeOK
  <2>6. DOMAIN entries' = DOMAIN entries
    BY SweptParts DEF Inv
  <2>7. later(k) \in 0 .. GenMod
    BY <1>m, <2>2
  <2>8. K.ref = k.ref /\ K.text = k.text /\ K.age = later(k)
    BY <2>1
  <2>9. K \in [ref : Refs, text : Texts, age : 0 .. GenMod]
    <3> HIDE DEF later
    <3> QED BY <2>1, <2>2, <2>7
  <2>10. CASE i \in gone
    <3>1. entries'[i].gen = IF e + 1 = GenMod THEN 0 ELSE e + 1
      <4>1. entries'[i].gen = NextGeneration(e)
        BY <2>10, SweptParts DEF Inv
      <4> QED BY <2>5, <4>1, GenerationIs
    <3>2. K.age # 0
      BY <1>m, <2>2, <2>8, <2>10
    <3>3. K.age < GenMod => k.age < GenMod /\ K.age = k.age + 1
      BY <1>m, <2>2, <2>8, <2>10
    <3>4. K.age < GenMod => entries'[i].gen \in {g + K.age, g + K.age - GenMod}
      <4>1. \A a \in 0 .. GenMod, x, y \in Generations :
              a + 1 < GenMod /\ y \in {x + a, x + a - GenMod}
                => (IF y + 1 = GenMod THEN 0 ELSE y + 1) \in {x + (a + 1), x + (a + 1) - GenMod}
        BY <1>m DEF Generations
      <4> HIDE DEF e, g
      <4> QED BY <2>2, <2>3, <2>4, <2>5, <3>1, <3>3, <4>1
    <3> QED BY <2>4, <2>6, <2>8, <2>9, <3>2, <3>4
  <2>11. CASE i \notin gone
    <3>1. entries'[i].gen = e /\ entries'[i].text = entries[i].text
      BY <2>4, <2>11, SweptParts DEF Inv
    <3>2. K.age = k.age
      BY <2>8, <2>11
    <3> QED BY <2>4, <2>6, <2>8, <2>9, <3>1, <3>2
  <2> QED BY <2>10, <2>11
<1> QED BY <1>2 DEF Aged

\* A sweep step keeps the invariant.
LEMMA SweepStepKeeps ==
  ASSUME Inv, SweepStep
  PROVE  Inv'
<1>1. PICK next \in cursor .. Len(entries) + 1 :
        LET seen == Seen(cursor, next)
            gone == {i \in seen : Dead(entries[i])}
            done == next > Len(entries)
            lost == {r \in References : Get(Swept(seen, gone), r) = Nothing}
        IN  /\ entries' = Swept(seen, gone)
            /\ head' = IF gone = {} THEN head ELSE Max(gone)
            /\ cursor' = IF done THEN 1 ELSE next
            /\ phase' = IF done THEN "Sweep" ELSE phase
            /\ buckets' = IF done THEN [b \in DOMAIN buckets |-> buckets[b] \ lost] ELSE buckets
            /\ kept' = {[k EXCEPT !.age = IF k.ref.slot \in gone /\ @ < GenMod THEN @ + 1 ELSE @]
                          : k \in kept}
  BY DEF SweepStep
<1> DEFINE E == entries
           seen == Seen(cursor, next)
           gone == {i \in seen : Dead(entries[i])}
           done == next > Len(entries)
           lost == {r \in References : Get(Swept(seen, gone), r) = Nothing}
<1>2. /\ entries' = Swept(seen, gone)
      /\ head' = IF gone = {} THEN head ELSE Max(gone)
      /\ cursor' = IF done THEN 1 ELSE next
      /\ phase' = IF done THEN "Sweep" ELSE phase
      /\ buckets' = IF done THEN [b \in DOMAIN buckets |-> buckets[b] \ lost] ELSE buckets
      /\ kept' = {[k EXCEPT !.age = IF k.ref.slot \in gone /\ @ < GenMod THEN @ + 1 ELSE @]
                    : k \in kept}
  BY <1>1
<1>3. phase = "SweepString" /\ UNCHANGED <<cache, white, held>>
  BY DEF SweepStep
<1>4. /\ Len(E) \in Nat /\ DOMAIN E = 1 .. Len(E) /\ cursor \in Nat \ {0}
      /\ next \in cursor .. Len(E) + 1
  BY LenProperties DEF Inv, TypeOK
<1>5. /\ seen \in SUBSET Living(E) /\ gone \in SUBSET seen
      /\ \A i \in Living(E) : i \in cursor .. next - 1 => i \in seen
      /\ \A i \in gone : Dead(E[i])
      /\ \A i \in seen \ gone : ~ Dead(E[i])
  BY <1>4 DEF Seen, Living
<1> HIDE DEF seen, gone, lost, done
<1>6. /\ DOMAIN entries' = DOMAIN E
      /\ \A i \in gone : entries'[i].color = "free"
      /\ \A i \in seen \ gone : entries'[i].color = white
      /\ \A i \in DOMAIN E \ seen : entries'[i] = E[i]
      /\ \A i \in DOMAIN E \ gone : entries'[i].gen = E[i].gen /\ entries'[i].text = E[i].text
  <2>1. entries' = Swept(seen, gone)
    BY <1>2
  <2>2. TypeOK
    BY DEF Inv
  <2>3. seen \in SUBSET Living(entries) /\ gone \in SUBSET seen
    BY <1>5
  <2>4. /\ DOMAIN entries' = DOMAIN entries
        /\ \A i \in gone : /\ entries'[i].color = "free"
                            /\ entries'[i].gen = NextGeneration(entries[i].gen)
        /\ \A i \in seen \ gone : entries'[i].color = white
        /\ \A i \in DOMAIN entries \ seen : entries'[i] = entries[i]
        /\ \A i \in DOMAIN entries \ gone : /\ entries'[i].gen = entries[i].gen
                                           /\ entries'[i].text = entries[i].text
    BY <2>1, <2>2, <2>3, SweptParts, Zenon
  <2> QED BY <2>4
<1>7. Sound(entries', head', buckets') /\ Table(buckets')
  <2>1. \/ buckets' = buckets
        \/ buckets' = [b \in DOMAIN buckets |->
                         buckets[b] \ {r \in References : Get(Swept(seen, gone), r) = Nothing}]
    BY <1>2 DEF lost
  <2>2. Sound(Swept(seen, gone), IF gone = {} THEN head ELSE Max(gone), buckets') /\ Table(buckets')
    BY <1>5, <2>1, SweptSound DEF Inv
  <2> QED BY <1>2, <2>2
<1>8. Aged' /\ kept' \subseteq [ref : Refs, text : Texts, age : 0 .. GenMod]
  BY <1>2, <1>5, SweptAged
<1>9. white \in Whites /\ white # Other(white) /\ "free" # Other(white) /\ white' = white
  BY <1>3 DEF Inv, TypeOK, Whites, Other
<1>10. TypeOK'
  <2>1. entries' \in Seq(Entries)
    BY <1>2, <1>5, SweptTyped DEF Inv
  <2>2. head' \in Nat
    <3>1. gone # {} => Max(gone) \in gone
      <4>1. gone \in SUBSET (1 .. Len(E))
        BY <1>4, <1>5 DEF Living
      <4> QED BY <1>4, <4>1, MaxIs
    <3> QED BY <1>2, <1>4, <1>5, <3>1 DEF Inv, TypeOK, Living
  <2>3. cursor' \in Nat \ {0} /\ phase' \in Phases
    BY <1>2, <1>3, <1>4 DEF Phases
  <2>4. cache' = cache /\ held' = held /\ white' = white
    BY <1>3
  <2> QED BY <1>7, <1>8, <2>1, <2>2, <2>3, <2>4 DEF Inv, TypeOK, Table
<1>11. Passed'
  <2>1. SUFFICES ASSUME NEW i \in DOMAIN entries', Dead(entries'[i])
        PROVE  phase' = "SweepString" /\ i >= cursor'
    BY <1>3 DEF Passed, Dead
  <2>2. i \notin seen
    BY <1>6, <1>9, <2>1 DEF Dead
  <2>3. i \in DOMAIN E /\ Dead(E[i])
    BY <1>6, <2>1, <2>2
  <2>4. i \in Living(E)
    BY <1>9, <2>3 DEF Inv, Sound, Colored, Free, Living, Dead
  <2>5. i >= cursor
    BY <2>3 DEF Inv, Passed
  <2>6. i >= next /\ i <= Len(E)
    BY <1>4, <1>5, <2>2, <2>3, <2>4, <2>5
  <2>7. ~ done
    BY <1>4, <2>6 DEF done
  <2>8. phase' = "SweepString" /\ cursor' = next
    BY <1>2, <1>3, <2>7
  <2> QED BY <2>6, <2>8
<1>12. ASSUME NEW r, NEW text \in Texts, Lives(r, text)
       PROVE  Get(entries', r) = text /\ ~ Dead(entries'[r.slot])
  <2>1. /\ r.slot \in Living(E) /\ r.slot \in DOMAIN E /\ E[r.slot].gen = r.gen
        /\ E[r.slot].text = text /\ ~ Dead(E[r.slot])
    BY <1>12, Reads DEF Lives, Living
  <2>2. r.slot \notin gone
    BY <1>5, <2>1
  <2>3. entries'[r.slot].gen = r.gen /\ entries'[r.slot].text = text
    BY <1>6, <2>1, <2>2
  <2>4. r.slot \in Living(entries')
    BY <1>6, <2>1, <2>3 DEF Living
  <2>5. ~ Dead(entries'[r.slot])
    BY <1>6, <1>9, <2>1, <2>2 DEF Dead
  <2> QED BY <2>3, <2>4, <2>5, ReadsAt
<1>13. Rooted'
  <2>1. \A h \in held : Get(entries', h.ref) = h.text /\ ~ Dead(entries'[h.ref.slot])
    BY <1>12, RootTexts DEF Inv, Rooted
  <2>2. \A p \in DOMAIN cache : Get(entries', cache[p]) = At[p] /\ ~ Dead(entries'[cache[p].slot])
    BY <1>12, RootTexts DEF Inv, Rooted
  <2>3. phase' # "Propagate"
    BY <1>2, <1>3
  <2> QED BY <1>3, <2>1, <2>2, <2>3 DEF Rooted, Lives, Dead
<1> QED BY <1>7, <1>8, <1>10, <1>11, <1>13 DEF Inv

-----------------------------------------------------------------------------
(***************************************************************************)
(* The theorems.                                                           *)
(***************************************************************************)
LEMMA InvInit == Init => Inv
<1> SUFFICES ASSUME Init PROVE Inv
  OBVIOUS
<1>1. entries = <<>> /\ DOMAIN entries = {} /\ Free(entries) = {} /\ Living(entries) = {}
  BY DEF Init, Free, Living
<1>2. Table(buckets)
  <2>1. MinBuckets \in Nat \ {0}
    BY StringTableAssumption
  <2>2. buckets \in [0 .. MinBuckets - 1 -> SUBSET Refs]
    BY DEF Init
  <2> QED BY <2>1, <2>2 DEF Table
<1>3. TypeOK
  <2>1. entries \in Seq(Entries)
    BY <1>1
  <2>2. DOMAIN cache = {} /\ held = {} /\ kept = {}
    BY DEF Init
  <2>3. head \in Nat /\ white \in Whites /\ phase \in Phases /\ cursor \in Nat \ {0}
    BY DEF Init, Whites, Phases
  <2> QED BY <1>2, <2>1, <2>2, <2>3 DEF TypeOK
<1>4. Sound(entries, head, buckets)
  BY <1>1 DEF Init, Sound, Colored, Linked, Filed, Single
<1>5. Passed /\ Aged
  BY <1>1 DEF Init, Passed, Aged
<1>6. Rooted
  <2>1. DOMAIN cache = {} /\ held = {}
    BY DEF Init
  <2> QED BY <2>1 DEF Rooted
<1> QED BY <1>3, <1>4, <1>5, <1>6 DEF Inv

\* Every step keeps the invariant.
LEMMA InvNext == Inv /\ [Next]_vars => Inv'
<1> SUFFICES ASSUME Inv, [Next]_vars PROVE Inv'
  OBVIOUS
<1>1. ASSUME NEW text \in Texts, InternString(text) PROVE Inv'
  BY <1>1, InternStringStep
<1>2. ASSUME NEW p \in Pointers, InternStatic(p) PROVE Inv'
  BY <1>2, InternStaticStep
<1>3. CASE \/ \E p \in Pointers : HoldStatic(p)
           \/ \E h \in held : Release(h) \/ Remember(h)
           \/ \E k \in kept : Forget(k)
  BY <1>3, ProgramStep
<1>4. CASE StartCycle
  BY <1>4, StartCycleStep
<1>5. CASE Atomic
  BY <1>5, AtomicStep
<1>6. CASE SweepStep
  BY <1>6, SweepStepKeeps
<1>7. CASE Abandon
  BY <1>7, AbandonStep
<1>8. CASE EndCycle
  BY <1>8, EndCycleStep
<1>9. CASE UNCHANGED vars
  BY <1>9 DEF vars, arenaVars, tableVars, gcVars, Inv, TypeOK, Table, Passed, Rooted, Aged, Lives, Dead
<1> QED
  BY <1>1, <1>2, <1>3, <1>4, <1>5, <1>6, <1>7, <1>8, <1>9 DEF Next

(***************************************************************************)
(* The inductive invariant, in every reachable state: intern finds what is *)
(* in the table, alloc takes what is free, the sweep spares the roots.     *)
(***************************************************************************)
THEOREM Invariance == Spec => []Inv
<1> QED BY InvInit, InvNext, PTL DEF Spec

(***************************************************************************)
(* Slots, buckets, references and the cursor keep their shape.             *)
(***************************************************************************)
THEOREM TypeCorrect == Spec => []TypeOK
<1>1. Inv => TypeOK
  BY DEF Inv
<1> QED BY <1>1, Invariance, PTL

(***************************************************************************)
(* A text has one reference (intern_hashed, intern_string_static), however *)
(* interning falls between the steps of a cycle.                           *)
(***************************************************************************)
THEOREM ReferenceUnique == Spec => []OneReference
<1>1. Inv => OneReference
  <2> SUFFICES ASSUME Inv PROVE OneReference
    OBVIOUS
  <2>1. \A h \in held : Get(entries, h.ref) = h.text
    BY DEF Inv, Rooted, Lives
  <2>2. \A p \in DOMAIN cache : Get(entries, cache[p]) = At[p]
    BY DEF Inv, Rooted, Lives
  <2>3. ASSUME NEW i \in DOMAIN entries, NEW j \in DOMAIN entries,
               entries[i].text = entries[j].text, entries[i].text # Nothing
        PROVE  i = j
    BY <2>3 DEF Inv, Sound, Single, Living
  <2> QED BY <2>1, <2>2, <2>3 DEF OneReference
<1> QED BY <1>1, Invariance, PTL

(***************************************************************************)
(* A reference that is no root never reads as another text before its      *)
(* slot has gone through all its generations (get, free).                  *)
(***************************************************************************)
THEOREM StaleRefused == Spec => []NeverMistaken
<1>1. Inv => NeverMistaken
  <2> SUFFICES ASSUME Inv, NEW k \in kept, k.age < GenMod
               PROVE  Get(entries, k.ref) \in {Nothing, k.text}
    BY DEF NeverMistaken
  <2>1. /\ k.ref.slot \in DOMAIN entries
        /\ entries[k.ref.slot].gen \in {k.ref.gen + k.age, k.ref.gen + k.age - GenMod}
        /\ k.age = 0 => entries[k.ref.slot].text = k.text
    BY DEF Inv, Aged
  <2>2. k.ref.gen \in Nat /\ k.age \in Nat
    BY RootTexts DEF Inv, Refs, Generations
  <2>3. CASE k.age = 0
    BY <2>1, <2>3 DEF Get
  <2>4. CASE k.age # 0
    <3>1. entries[k.ref.slot].gen # k.ref.gen
      BY <2>1, <2>2, <2>4, StringTableAssumption
    <3> QED BY <3>1 DEF Get, Valid
  <2> QED BY <2>3, <2>4
<1> QED BY <1>1, Invariance, PTL

-----------------------------------------------------------------------------
(***************************************************************************)
(* The free list, slot by slot: L lists the set S from h on along the      *)
(* links nx.                                                               *)
(***************************************************************************)
Chains(k, L, S, h, nx) ==
  /\ L \in [1 .. k -> S]
  /\ \A x \in S : \E i \in 1 .. k : L[i] = x
  /\ \A i, j \in 1 .. k : L[i] = L[j] => i = j
  /\ h = IF k = 0 THEN 0 ELSE L[1]
  /\ \A i \in 1 .. k : nx[L[i]] = IF i = k THEN 0 ELSE L[i + 1]

Listed(S, h, nx) == \E k \in Nat : \E L \in [1 .. k -> S] : Chains(k, L, S, h, nx)

Links(E) == [i \in DOMAIN E |-> E[i].next]

Exact(E, h, l) == Listed(Free(E), h, Links(E)) /\ l = Len(E) - Cardinality(Free(E))

\* A listing depends on the links inside it only.
LEMMA ListedSame ==
  ASSUME NEW S, NEW h, NEW nx, Listed(S, h, nx), NEW my, \A x \in S : my[x] = nx[x]
  PROVE  Listed(S, h, my)
<1>0. PICK k \in Nat : \E L \in [1 .. k -> S] : Chains(k, L, S, h, nx)
  BY DEF Listed
<1>1. PICK L \in [1 .. k -> S] : Chains(k, L, S, h, nx)
  BY <1>0
<1>2. Chains(k, L, S, h, my)
  BY <1>1 DEF Chains
<1> QED BY <1>1, <1>2 DEF Listed

\* A listing without its first member is a listing.
LEMMA ListedPop ==
  ASSUME NEW S, 0 \notin S, NEW h, h # 0, NEW nx, Listed(S, h, nx),
         NEW my, \A x \in S \ {h} : my[x] = nx[x]
  PROVE  h \in S /\ Listed(S \ {h}, nx[h], my)
<1>0. PICK k \in Nat : \E L \in [1 .. k -> S] : Chains(k, L, S, h, nx)
  BY DEF Listed
<1>1. PICK L \in [1 .. k -> S] : Chains(k, L, S, h, nx)
  BY <1>0
<1>2. k # 0 /\ h = L[1] /\ 1 \in 1 .. k
  BY <1>1 DEF Chains
<1> DEFINE M == [i \in 1 .. k - 1 |-> L[i + 1]]
           T == S \ {h}
<1>3. /\ \A i \in 1 .. k : L[i] \in S /\ nx[L[i]] = IF i = k THEN 0 ELSE L[i + 1]
      /\ \A i, j \in 1 .. k : L[i] = L[j] => i = j
      /\ \A x \in S : \E i \in 1 .. k : L[i] = x
  BY <1>1 DEF Chains
<1>4. k - 1 \in Nat /\ \A i \in 1 .. k - 1 : i + 1 \in 1 .. k /\ i + 1 # 1 /\ i \in 1 .. k
  BY <1>2
<1>5. \A i \in 1 .. k - 1 : M[i] = L[i + 1] /\ M[i] \in T
  BY <1>2, <1>3, <1>4
<1>6. M \in [1 .. k - 1 -> T]
  BY <1>5
<1>7. \A x \in T : \E i \in 1 .. k - 1 : M[i] = x
  <2>1. SUFFICES ASSUME NEW x \in T PROVE \E i \in 1 .. k - 1 : M[i] = x
    OBVIOUS
  <2>2. PICK j \in 1 .. k : L[j] = x
    BY <1>3
  <2>3. j # 1
    BY <1>2, <2>2
  <2>4. j - 1 \in 1 .. k - 1 /\ (j - 1) + 1 = j
    BY <2>3
  <2> QED BY <1>5, <2>2, <2>4
<1>8. \A i, j \in 1 .. k - 1 : M[i] = M[j] => i = j
  <2>1. SUFFICES ASSUME NEW i \in 1 .. k - 1, NEW j \in 1 .. k - 1, M[i] = M[j] PROVE i = j
    OBVIOUS
  <2>2. i + 1 = j + 1
    BY <1>3, <1>4, <1>5, <2>1
  <2> QED BY <2>2
<1>9. nx[h] = IF k - 1 = 0 THEN 0 ELSE M[1]
  <2>1. nx[h] = IF 1 = k THEN 0 ELSE L[1 + 1]
    BY <1>2, <1>3
  <2>2. k - 1 # 0 => 1 \in 1 .. k - 1
    BY <1>4
  <2> QED BY <1>2, <1>5, <2>1, <2>2
<1>10. \A i \in 1 .. k - 1 : my[M[i]] = IF i = k - 1 THEN 0 ELSE M[i + 1]
  <2>1. SUFFICES ASSUME NEW i \in 1 .. k - 1
                 PROVE  my[M[i]] = IF i = k - 1 THEN 0 ELSE M[i + 1]
    OBVIOUS
  <2>2. my[M[i]] = nx[L[i + 1]] /\ i + 1 \in 1 .. k
    BY <1>4, <1>5
  <2>3. my[M[i]] = IF i + 1 = k THEN 0 ELSE L[(i + 1) + 1]
    BY <1>3, <2>2
  <2>4. i # k - 1 => i + 1 # k /\ i + 1 \in 1 .. k - 1
    BY <1>4
  <2>5. i = k - 1 => i + 1 = k
    BY <1>4
  <2> QED BY <1>5, <2>3, <2>4, <2>5
<1> HIDE DEF M
<1>11. Chains(k - 1, M, T, nx[h], my)
  BY <1>6, <1>7, <1>8, <1>9, <1>10 DEF Chains
<1> QED BY <1>2, <1>3, <1>4, <1>6, <1>11 DEF Listed

\* A listing with one more in front is a listing.
LEMMA ListedPush ==
  ASSUME NEW S, NEW h, NEW nx, Listed(S, h, nx), NEW x, x \notin S,
         NEW my, my[x] = h, \A y \in S : my[y] = nx[y]
  PROVE  Listed(S \union {x}, x, my)
<1>0. PICK k \in Nat : \E L \in [1 .. k -> S] : Chains(k, L, S, h, nx)
  BY DEF Listed
<1>1. PICK L \in [1 .. k -> S] : Chains(k, L, S, h, nx)
  BY <1>0
<1> DEFINE M == [i \in 1 .. k + 1 |-> IF i = 1 THEN x ELSE L[i - 1]]
           T == S \union {x}
<1>2. /\ \A i \in 1 .. k : L[i] \in S /\ nx[L[i]] = IF i = k THEN 0 ELSE L[i + 1]
      /\ \A i, j \in 1 .. k : L[i] = L[j] => i = j
      /\ \A y \in S : \E i \in 1 .. k : L[i] = y
      /\ h = IF k = 0 THEN 0 ELSE L[1]
  BY <1>1 DEF Chains
<1>3. k + 1 \in Nat /\ k + 1 # 0 /\ 1 \in 1 .. k + 1
  OBVIOUS
<1>4. \A i \in 1 .. k + 1 : i # 1 => i - 1 \in 1 .. k
  OBVIOUS
<1>5. M[1] = x /\ \A i \in 1 .. k + 1 : i # 1 => M[i] = L[i - 1] /\ M[i] \in S
  BY <1>2, <1>3, <1>4
<1>6. M \in [1 .. k + 1 -> T]
  <2>1. \A i \in 1 .. k + 1 : M[i] \in T
    BY <1>5
  <2> QED BY <2>1
<1> HIDE DEF M
<1>7. \A y \in T : \E i \in 1 .. k + 1 : M[i] = y
  <2>1. SUFFICES ASSUME NEW y \in S PROVE \E i \in 1 .. k + 1 : M[i] = y
    BY <1>3, <1>5
  <2>2. PICK j \in 1 .. k : L[j] = y
    BY <1>2
  <2>3. j + 1 \in 1 .. k + 1 /\ j + 1 # 1 /\ (j + 1) - 1 = j
    OBVIOUS
  <2>4. M[j + 1] = y
    BY <1>5, <2>2, <2>3
  <2> QED BY <2>3, <2>4
<1>8. \A i, j \in 1 .. k + 1 : M[i] = M[j] => i = j
  <2>1. SUFFICES ASSUME NEW i \in 1 .. k + 1, NEW j \in 1 .. k + 1, M[i] = M[j] PROVE i = j
    OBVIOUS
  <2>2. CASE i = 1 \/ j = 1
    BY <1>5, <2>1, <2>2
  <2>3. CASE i # 1 /\ j # 1
    <3>1. i - 1 = j - 1
      BY <1>2, <1>4, <1>5, <2>1, <2>3
    <3> QED BY <3>1
  <2> QED BY <2>2, <2>3
<1>9. ASSUME NEW i \in 1 .. k + 1
      PROVE  my[M[i]] = IF i = k + 1 THEN 0 ELSE M[i + 1]
  <2>1. i # k + 1 => i + 1 \in 1 .. k + 1 /\ i + 1 # 1 /\ (i + 1) - 1 = i
    OBVIOUS
  <2>2. CASE i = 1
    <3>1. my[M[i]] = IF k = 0 THEN 0 ELSE L[1]
      BY <1>2, <1>5, <2>2
    <3>2. i = k + 1 <=> k = 0
      BY <2>2
    <3> QED BY <1>5, <2>1, <2>2, <3>1, <3>2
  <2>3. CASE i # 1
    <3>1. i - 1 \in 1 .. k /\ M[i] = L[i - 1] /\ M[i] \in S
      BY <1>4, <1>5, <2>3
    <3>2. my[M[i]] = IF i - 1 = k THEN 0 ELSE L[(i - 1) + 1]
      BY <1>2, <3>1
    <3>3. (i - 1) + 1 = i /\ (i - 1 = k <=> i = k + 1)
      OBVIOUS
    <3> QED BY <1>5, <2>1, <3>2, <3>3
  <2> QED BY <2>2, <2>3
<1>10. Chains(k + 1, M, T, x, my)
  BY <1>3, <1>5, <1>6, <1>7, <1>8, <1>9 DEF Chains
<1> QED BY <1>3, <1>6, <1>10 DEF Listed

\* The free slots are finitely many slots.
LEMMA FreeCounts ==
  ASSUME NEW E \in Seq(Entries)
  PROVE  /\ IsFiniteSet(Free(E)) /\ Cardinality(Free(E)) \in Nat /\ Len(E) \in Nat
         /\ Free(E) \subseteq 1 .. Len(E) /\ 0 \notin Free(E)
<1>1. Len(E) \in Nat /\ DOMAIN E = 1 .. Len(E)
  BY LenProperties
<1>2. Free(E) \in SUBSET (1 .. Len(E))
  BY <1>1 DEF Free
<1>3. IsFiniteSet(Free(E))
  <2>1. 1 \in Int /\ Len(E) \in Int
    BY <1>1
  <2>2. IsFiniteSet(1 .. Len(E))
    BY <2>1, FS_Interval
  <2> QED BY <1>2, <2>2, FS_Subset
<1> QED BY <1>1, <1>2, <1>3, FS_CardinalityType

\* A change of colours keeps the free list.
LEMMA RecoloredExact ==
  ASSUME NEW E \in Seq(Entries), NEW F, Recolors(E, F), NEW h, NEW l, Exact(E, h, l)
  PROVE  Exact(F, h, l)
<1>1. DOMAIN F = DOMAIN E /\ Free(F) = Free(E)
  BY DEF Free, Recolors
<1>2. Len(F) = Len(E)
  <2>1. Len(E) \in Nat /\ DOMAIN E = 1 .. Len(E)
    BY LenProperties
  <2>2. F \in [1 .. Len(E) -> Entries]
    BY <2>1 DEF Recolors
  <2>3. F \in Seq(Entries)
    BY <2>1, <2>2, SeqDef
  <2> QED BY <1>1, <2>1, <2>3, LenProperties
<1>3. \A i \in Free(E) : Links(F)[i] = Links(E)[i]
  BY <1>1 DEF Links, Free, Recolors
<1>4. Listed(Free(E), h, Links(F))
  BY <1>3, ListedSame DEF Exact
<1> QED BY <1>1, <1>2, <1>4 DEF Exact

\* alloc pops the free list or extends the arena.
LEMMA AllocExact ==
  ASSUME TypeOK, NEW l \in Int, Exact(entries, head, l), Linked(entries, head), NEW text \in Texts
  PROVE  LET a == Alloc(text, white) IN Exact(a.entries, a.head, l + 1)
<1> DEFINE a == Alloc(text, white)
           E == entries
           o(g) == Occupied(text, g, white)
<1>0. /\ E \in Seq(Entries) /\ Len(E) \in Nat /\ DOMAIN E = 1 .. Len(E)
      /\ E \in [DOMAIN E -> Entries] /\ white \in Colors
  BY LenProperties DEF TypeOK, Colors
<1>o. \A g \in Generations : o(g) \in Entries /\ o(g).text = text /\ o(g).text # Nothing
  BY <1>0, StringTableAssumption DEF Occupied, Entries
<1>f. IsFiniteSet(Free(E)) /\ Cardinality(Free(E)) \in Nat /\ 0 \notin Free(E)
  BY <1>0, FreeCounts
<1>e. Listed(Free(E), head, Links(E)) /\ l = Len(E) - Cardinality(Free(E))
  BY DEF Exact
<1> HIDE DEF o
<1>1. CASE head # 0
  <2> DEFINE F == [E EXCEPT ![head] = o(@.gen)]
  <2>1. a.entries = F /\ a.head = E[head].next
    BY <1>1 DEF Alloc, o
  <2>2. head \in Free(E) /\ head \in DOMAIN E /\ E[head].gen \in Generations
    BY <1>0, <1>1, EntryIs DEF Linked, Free
  <2>3. /\ DOMAIN F = DOMAIN E /\ F[head] = o(E[head].gen)
        /\ \A i \in DOMAIN E \ {head} : F[i] = E[i]
    BY <1>0, <2>2
  <2>4. F \in Seq(Entries)
    BY <1>0, <1>o, <2>2, ExceptSeq
  <2> HIDE DEF F
  <2>5. Len(F) = Len(E)
    BY <1>0, <2>3, <2>4, LenProperties
  <2>6. Free(F) = Free(E) \ {head}
    BY <1>o, <2>2, <2>3 DEF Free
  <2>7. \A i \in Free(E) \ {head} : Links(F)[i] = Links(E)[i]
    BY <2>3 DEF Links, Free
  <2>8. Links(E)[head] = E[head].next
    BY <2>2 DEF Links
  <2>9. Listed(Free(E) \ {head}, Links(E)[head], Links(F))
    BY <1>1, <1>e, <1>f, <2>7, ListedPop
  <2>10. Cardinality(Free(F)) = Cardinality(Free(E)) - 1
    BY <1>f, <2>2, <2>6, FS_RemoveElement
  <2>11. l + 1 = Len(F) - Cardinality(Free(F))
    BY <1>0, <1>e, <1>f, <2>5, <2>10
  <2> QED BY <2>1, <2>6, <2>8, <2>9, <2>11 DEF Exact
<1>2. CASE head = 0
  <2> DEFINE F == Append(E, o(0))
             s == Len(E) + 1
  <2>1. a.entries = F /\ a.head = 0
    BY <1>2 DEF Alloc, o
  <2>2. 0 \in Generations
    BY StringTableAssumption DEF Generations
  <2>3. o(0) \in Entries /\ o(0).text # Nothing
    BY <1>o, <2>2
  <2>4. F \in Seq(Entries) /\ Len(F) = s /\ F[s] = o(0) /\ \A i \in DOMAIN E : F[i] = E[i]
    BY <1>0, <2>3
  <2> HIDE DEF F
  <2>5. DOMAIN F = DOMAIN E \union {s} /\ s \notin DOMAIN E
    <3>1. DOMAIN F = 1 .. s
      BY <2>4, LenProperties
    <3> QED BY <1>0, <3>1
  <2>6. Free(F) = Free(E)
    BY <2>3, <2>4, <2>5 DEF Free
  <2>7. \A i \in Free(E) : Links(F)[i] = Links(E)[i]
    BY <2>4, <2>5 DEF Links, Free
  <2>8. Listed(Free(E), 0, Links(F))
    BY <1>2, <1>e, <2>7, ListedSame
  <2>9. l + 1 = Len(F) - Cardinality(Free(F))
    BY <1>0, <1>e, <1>f, <2>4, <2>6
  <2> QED BY <2>1, <2>6, <2>8, <2>9 DEF Exact
<1> QED BY <1>1, <1>2

\* Reviving a string is a change of colours.
LEMMA RevivedRecolors ==
  ASSUME TypeOK, Colored(entries), NEW i \in Living(entries)
  PROVE  Recolors(entries, [entries EXCEPT ![i] = Revived(@)])
<1> DEFINE F == [entries EXCEPT ![i] = Revived(@)]
<1>1. /\ entries \in Seq(Entries) /\ entries \in [DOMAIN entries -> Entries] /\ white \in Whites
      /\ i \in DOMAIN entries
  BY LenProperties DEF TypeOK, Living
<1>2. CASE entries[i].color = Other(white)
  <2>1. F = [entries EXCEPT ![i] = [entries[i] EXCEPT !.color = white]]
    BY <1>1, <1>2 DEF Revived
  <2>2. [entries[i] EXCEPT !.color = white]
          \in {[entries[i] EXCEPT !.color = c] : c \in Whites \union {"black"}}
    BY <1>1
  <2> QED BY <1>1, <2>1, <2>2, Painted
<1>3. CASE entries[i].color # Other(white)
  <2>1. F = entries
    BY <1>1, <1>3 DEF Revived
  <2> QED BY <1>1, <2>1 DEF Recolors
<1> QED BY <1>2, <1>3

\* Interning keeps the free list exact.
LEMMA InternExact ==
  ASSUME Inv, len \in Int, Exact(entries, head, len), NEW text \in Texts
  PROVE  LET s == Intern(text) IN s.len \in Int /\ Exact(s.entries, s.head, s.len)
<1> DEFINE b == Bucket(text, Size)
           hits == {r \in buckets[b] : Get(entries, r) = text}
           s == Intern(text)
<1>1. CASE hits # {}
  <2> DEFINE r == CHOOSE hit \in hits : TRUE
             F == [entries EXCEPT ![r.slot] = Revived(@)]
  <2>1. r \in hits
    BY <1>1
  <2>2. s = [ref |-> r, entries |-> F, head |-> head, len |-> len,
             buckets |-> buckets, count |-> count]
    BY <1>1 DEF Intern
  <2>3. Get(entries, r) = text
    BY <2>1
  <2> HIDE DEF r, hits
  <2>4. r.slot \in Living(entries)
    BY <2>3, Reads
  <2>5. Recolors(entries, F)
    BY <2>4, RevivedRecolors DEF Inv, Sound
  <2> HIDE DEF F, s
  <2>6. Exact(F, head, len)
    BY <2>5, RecoloredExact DEF Inv, TypeOK
  <2> QED BY <2>2, <2>6 DEF s
<1>2. CASE hits = {}
  <2> DEFINE a == Alloc(text, white)
             B == [buckets EXCEPT ![b] = @ \union {a.ref}]
             R == Rehashed(B, a.entries, 2 * Size)
             grows == count + 1 > Size
  <2>1. s = [ref |-> a.ref, entries |-> a.entries, head |-> a.head, len |-> len + 1,
             buckets |-> IF grows THEN R ELSE B, count |-> count + 1]
    BY <1>2 DEF Intern
  <2>2. Exact(a.entries, a.head, len + 1)
    BY AllocExact DEF Inv, Sound
  <2> HIDE DEF a, B, R, grows, s
  <2> QED BY <2>1, <2>2 DEF s
<1> QED BY <1>1, <1>2

\* A sweep step pushes what it frees on the free list, one after the other.
LEMMA SweptListed ==
  ASSUME TypeOK, NEW l \in Int, Exact(entries, head, l), Linked(entries, head),
         NEW seen \in SUBSET Living(entries), NEW gone \in SUBSET seen
  PROVE  Exact(Swept(seen, gone), IF gone = {} THEN head ELSE Max(gone), l - Cardinality(gone))
<1> DEFINE E == entries
           F == Swept(seen, gone)
           first(m) == gone \cap (1 .. m)
           top(m) == IF first(m) = {} THEN head ELSE Max(first(m))
           P == {m \in Nat : m <= Len(E) => Listed(Free(E) \union first(m), top(m), Links(F))}
<1>1. /\ E \in Seq(Entries) /\ Len(E) \in Nat /\ DOMAIN E = 1 .. Len(E)
  BY LenProperties DEF TypeOK
<1>2. gone \in SUBSET (1 .. Len(E)) /\ gone \cap Free(E) = {}
  BY <1>1 DEF Living, Free
<1>3. /\ Listed(Free(E), head, Links(E)) /\ l = Len(E) - Cardinality(Free(E))
  BY DEF Exact
<1>4. DOMAIN F = DOMAIN E
  BY SweptIs
<1>5. \A i \in gone : F[i].next = Pushed(gone)[i]
  BY SweptIs
<1>6. \A i \in DOMAIN E \ seen : F[i] = E[i]
  BY SweptIs
<1>7. F \in Seq(Entries)
  BY SweptTyped
<1>8. Free(F) = Free(E) \union gone
  BY SweptLinked
<1> HIDE DEF F
<1>9. \A i \in Free(E) : Links(F)[i] = Links(E)[i]
  <2>1. \A i \in Free(E) : i \in DOMAIN E \ seen
    BY DEF Free, Living
  <2> QED BY <1>4, <1>6, <2>1 DEF Links
<1>10. \A i \in gone : Links(F)[i] = Pushed(gone)[i]
  BY <1>1, <1>2, <1>4, <1>5 DEF Links
<1>11. 0 \in P
  <2>1. first(0) = {}
    OBVIOUS
  <2>2. Listed(Free(E), head, Links(F))
    BY <1>3, <1>9, ListedSame
  <2>3. Free(E) \union first(0) = Free(E) /\ top(0) = head
    BY <2>1
  <2> QED BY <2>2, <2>3
<1>12. ASSUME NEW m \in Nat, m \in P PROVE m + 1 \in P
  <2>1. SUFFICES ASSUME m + 1 <= Len(E)
        PROVE  Listed(Free(E) \union first(m + 1), top(m + 1), Links(F))
    BY <1>12
  <2>2. Listed(Free(E) \union first(m), top(m), Links(F))
    BY <1>1, <1>12, <2>1
  <2>3. CASE m + 1 \notin gone
    <3>1. first(m + 1) = first(m)
      BY <2>3
    <3>2. top(m + 1) = top(m)
      BY <3>1
    <3> HIDE DEF top, first
    <3> QED BY <2>2, <3>1, <3>2
  <2>4. CASE m + 1 \in gone
    <3>1. first(m + 1) = first(m) \union {m + 1} /\ m + 1 \notin first(m)
      BY <2>4
    <3>2. first(m) = {j \in gone : j < m + 1}
      <4>1. \A j \in gone : j \in Nat /\ 1 <= j
        BY <1>1, <1>2
      <4>2. \A j \in gone : j \in 1 .. m <=> j < m + 1
        BY <4>1
      <4> QED BY <4>2
    <3>3. Links(F)[m + 1] = top(m)
      <4>1. Pushed(gone)[m + 1] = IF {j \in gone : j < m + 1} = {} THEN head
                                  ELSE Max({j \in gone : j < m + 1})
        BY <2>4 DEF Pushed
      <4>2. Pushed(gone)[m + 1] = top(m)
        BY <3>2, <4>1
      <4> HIDE DEF top
      <4> QED BY <1>10, <2>4, <4>2
    <3>4. top(m + 1) = m + 1
      <4>1. first(m + 1) \in SUBSET (1 .. m + 1) /\ m + 1 \in first(m + 1) /\ m + 1 \in Nat
        BY <2>4
      <4>2. first(m + 1) # {}
        BY <4>1
      <4> HIDE DEF first
      <4>3. /\ Max(first(m + 1)) \in first(m + 1)
            /\ \A y \in first(m + 1) : y <= Max(first(m + 1))
        BY <4>1, <4>2, MaxIs
      <4>4. Max(first(m + 1)) = m + 1
        BY <4>1, <4>3
      <4> QED BY <4>2, <4>4
    <3>5. m + 1 \notin Free(E)
      BY <1>2, <2>4
    <3> HIDE DEF top, first
    <3> DEFINE S == Free(E) \union first(m)
    <3>6. m + 1 \notin S
      BY <3>1, <3>5
    <3>7. Listed(S, top(m), Links(F))
      BY <2>2
    <3> HIDE DEF S
    <3>8. Listed(S \union {m + 1}, m + 1, Links(F))
      BY <3>3, <3>6, <3>7, ListedPush
    <3>9. S \union {m + 1} = Free(E) \union first(m + 1)
      BY <3>1 DEF S
    <3> QED BY <3>4, <3>8, <3>9
  <2> QED BY <2>3, <2>4
<1>13. Len(E) \in P
  <2> HIDE DEF P
  <2> QED BY <1>1, <1>11, <1>12, Inducts
<1>14. first(Len(E)) = gone
  BY <1>1, <1>2
<1>15. Listed(Free(E) \union gone, IF gone = {} THEN head ELSE Max(gone), Links(F))
  <2>1. Listed(Free(E) \union first(Len(E)), top(Len(E)), Links(F))
    BY <1>1, <1>13
  <2>2. top(Len(E)) = IF gone = {} THEN head ELSE Max(gone)
    BY <1>14
  <2> HIDE DEF top, first
  <2> QED BY <1>14, <2>1, <2>2
<1>16. Len(F) = Len(E)
  BY <1>1, <1>4, <1>7, LenProperties
<1>17. l - Cardinality(gone) = Len(F) - Cardinality(Free(F))
  <2>1. IsFiniteSet(Free(E)) /\ Cardinality(Free(E)) \in Nat
    BY <1>1, FreeCounts
  <2>2. IsFiniteSet(1 .. Len(E))
    <3>1. 1 \in Int /\ Len(E) \in Int
      BY <1>1
    <3> QED BY <3>1, FS_Interval
  <2>3. IsFiniteSet(gone) /\ Cardinality(gone) \in Nat
    <3>1. IsFiniteSet(gone)
      BY <1>2, <2>2, FS_Subset
    <3> QED BY <3>1, FS_CardinalityType
  <2>4. Cardinality(Free(E) \union gone)
          = Cardinality(Free(E)) + Cardinality(gone) - Cardinality(Free(E) \cap gone)
    BY <2>1, <2>3, FS_Union
  <2>5. Cardinality(Free(E) \cap gone) = 0
    BY <1>2, FS_EmptySet
  <2> QED BY <1>1, <1>3, <1>8, <1>16, <2>1, <2>3, <2>4, <2>5
<1> QED BY <1>8, <1>15, <1>17 DEF Exact, F

ExactInv == Inv /\ len \in Int /\ Exact(entries, head, len)

\* The empty arena has an empty free list.
LEMMA ExactInit == Init => ExactInv
<1> SUFFICES ASSUME Init PROVE ExactInv
  OBVIOUS
<1>1. /\ entries = <<>> /\ head = 0 /\ len = 0
      /\ DOMAIN entries = {} /\ Free(entries) = {} /\ Len(entries) = 0
  BY DEF Init, Free
<1>2. Cardinality(Free(entries)) = 0
  BY <1>1, FS_EmptySet
<1>3. Listed({}, 0, Links(entries))
  <2> DEFINE L == [i \in 1 .. 0 |-> 0]
  <2>1. L \in [1 .. 0 -> {}] /\ 0 \in Nat /\ 1 .. 0 = {}
    OBVIOUS
  <2> HIDE DEF L
  <2>2. Chains(0, L, {}, 0, Links(entries))
    BY <2>1 DEF Chains
  <2> QED BY <2>1, <2>2 DEF Listed
<1> QED BY <1>1, <1>2, <1>3, InvInit DEF ExactInv, Exact

\* Every step keeps the free list exact.
LEMMA ExactNext == ExactInv /\ [Next]_vars => ExactInv'
<1> SUFFICES ASSUME ExactInv, [Next]_vars PROVE ExactInv'
  OBVIOUS
<1>i. Inv /\ Inv' /\ len \in Int /\ Exact(entries, head, len)
  BY InvNext DEF ExactInv
<1> SUFFICES len' \in Int /\ Exact(entries', head', len')
  BY <1>i DEF ExactInv
<1>u. CASE UNCHANGED <<entries, head, len>>
  BY <1>i, <1>u
<1>1. ASSUME NEW text \in Texts, InternString(text)
      PROVE  len' \in Int /\ Exact(entries', head', len')
  <2>1. entries' = Intern(text).entries /\ head' = Intern(text).head /\ len' = Intern(text).len
    BY <1>1 DEF InternString, Interned
  <2> QED BY <1>i, <2>1, InternExact
<1>2. ASSUME NEW p \in Pointers, InternStatic(p)
      PROVE  len' \in Int /\ Exact(entries', head', len')
  <2>t. At[p] \in Texts
    BY StringTableAssumption
  <2>0. PICK s : s = Intern(At[p])
    OBVIOUS
  <2>1. entries' = StaticColor(s.entries, s.ref) /\ head' = s.head /\ len' = s.len
    BY <1>2, <2>0 DEF InternStatic, Interned
  <2>2. s.len \in Int /\ Exact(s.entries, s.head, s.len)
    BY <1>i, <2>t, <2>0, InternExact
  <2>3. Interns(s, At[p])
    BY <1>i, <2>t, <2>0, InternIs DEF Inv
  <2>4. CASE phase = "Pause"
    BY <2>1, <2>2, <2>4 DEF StaticColor
  <2>5. CASE phase # "Pause"
    <3> DEFINE e == [s.entries[s.ref.slot] EXCEPT !.color = "black"]
    <3>1. StaticColor(s.entries, s.ref) = [s.entries EXCEPT ![s.ref.slot] = e]
      BY <2>5 DEF StaticColor
    <3>2. e \in {[s.entries[s.ref.slot] EXCEPT !.color = c] : c \in Whites \union {"black"}}
      OBVIOUS
    <3>3. s.ref.slot \in Living(s.entries) /\ s.entries \in Seq(Entries) /\ Colored(s.entries)
      BY <2>t, <2>3, Reads DEF Interns, Sound
    <3>4. Recolors(s.entries, [s.entries EXCEPT ![s.ref.slot] = e])
      <4> HIDE DEF e
      <4> QED BY <3>2, <3>3, Painted
    <3>5. Recolors(s.entries, entries')
      BY <2>1, <3>1, <3>4
    <3> QED BY <2>1, <2>2, <3>3, <3>5, RecoloredExact
  <2> QED BY <2>4, <2>5
<1>3. ASSUME NEW R, entries' = Marked(R), UNCHANGED <<head, len>>
      PROVE  len' \in Int /\ Exact(entries', head', len')
  <2>1. Recolors(entries, entries')
    BY <1>i, <1>3, MarkedIs DEF Inv
  <2> QED BY <1>i, <1>3, <2>1, RecoloredExact DEF Inv, TypeOK
<1>4. CASE StartCycle
  BY <1>3, <1>4 DEF StartCycle
<1>5. CASE Atomic
  BY <1>3, <1>5 DEF Atomic
<1>6. CASE SweepStep
  <2>1. PICK next \in cursor .. Len(entries) + 1 :
          LET seen == Seen(cursor, next)
              gone == {i \in seen : Dead(entries[i])}
          IN  /\ entries' = Swept(seen, gone)
              /\ head' = IF gone = {} THEN head ELSE Max(gone)
              /\ len' = len - Cardinality(gone)
    BY <1>6 DEF SweepStep
  <2> DEFINE seen == Seen(cursor, next)
             gone == {i \in seen : Dead(entries[i])}
  <2>2. /\ entries' = Swept(seen, gone) /\ len' = len - Cardinality(gone)
        /\ head' = IF gone = {} THEN head ELSE Max(gone)
    BY <2>1
  <2>3. /\ Len(entries) \in Nat /\ DOMAIN entries = 1 .. Len(entries) /\ cursor \in Nat \ {0}
        /\ entries \in Seq(Entries)
    BY <1>i, LenProperties DEF Inv, TypeOK
  <2>4. seen \in SUBSET Living(entries) /\ gone \in SUBSET seen
    BY <2>3 DEF Seen, Living
  <2> HIDE DEF seen, gone
  <2>5. Exact(entries', head', len')
    BY <1>i, <2>2, <2>4, SweptListed DEF Inv, Sound
  <2>6. Cardinality(Free(entries')) \in Nat /\ Len(entries') \in Nat
    BY <1>i, FreeCounts DEF Inv, TypeOK
  <2> QED BY <2>5, <2>6 DEF Exact
<1> QED
  BY <1>u, <1>1, <1>2, <1>4, <1>5, <1>6
  DEF Next, HoldStatic, Release, Remember, Forget, Abandon, EndCycle, arenaVars, vars

\* The links along a listing.
LEMMA ChainNext ==
  ASSUME NEW E, NEW k \in Nat, NEW S, 0 \notin S,
         NEW L \in [1 .. k -> S], NEW h, Chains(k, L, S, h, Links(E)), S \subseteq DOMAIN E
  PROVE  /\ h = IF k = 0 THEN 0 ELSE L[1]
         /\ \A i \in 1 .. k : /\ L[i] \in S /\ L[i] # 0
                            /\ E[L[i]].next = IF i = k THEN 0 ELSE L[i + 1]
<1>1. \A x \in S : Links(E)[x] = E[x].next
  BY DEF Links
<1>2. \A i \in 1 .. k : L[i] \in S /\ L[i] # 0
  OBVIOUS
<1>3. /\ h = IF k = 0 THEN 0 ELSE L[1]
      /\ \A i \in 1 .. k : Links(E)[L[i]] = IF i = k THEN 0 ELSE L[i + 1]
  BY DEF Chains
<1> QED BY <1>1, <1>2, <1>3

\* The walk of SlotsExact.
Walk(E, h, N) ==
  CHOOSE f : f = [n \in 0 .. N |->
    IF n = 0 THEN h ELSE LET before == f[n - 1] IN IF before = 0 THEN 0 ELSE E[before].next]

\* The walk goes through the listing, then stays at 0.
LEMMA WalkIs ==
  ASSUME NEW E, NEW k \in Nat, NEW N \in Nat, k <= N, NEW S, 0 \notin S,
         NEW L \in [1 .. k -> S], NEW h, Chains(k, L, S, h, Links(E)), S \subseteq DOMAIN E
  PROVE  \A n \in 0 .. N : Walk(E, h, N)[n] = IF n < k THEN L[n + 1] ELSE 0
<1> DEFINE w == Walk(E, h, N)
<1> DEFINE nx(x) == IF x = 0 THEN 0 ELSE E[x].next
           g == [n \in 0 .. N |-> IF n < k THEN L[n + 1] ELSE 0]
           Walks(f) == f = [n \in 0 .. N |-> IF n = 0 THEN h ELSE nx(f[n - 1])]
<1>1. /\ \A i \in 1 .. k : /\ L[i] \in S /\ L[i] # 0
                           /\ E[L[i]].next = IF i = k THEN 0 ELSE L[i + 1]
      /\ h = IF k = 0 THEN 0 ELSE L[1]
  <2> HIDE DEF nx, g, Walks
  <2> QED BY ChainNext
<1>2. ASSUME NEW n \in 0 .. N
      PROVE  g[n] = IF n = 0 THEN h ELSE nx(g[n - 1])
  <2>1. CASE n = 0
    <3>1. 0 < k <=> k # 0
      OBVIOUS
    <3> QED BY <1>1, <2>1, <3>1
  <2>2. CASE n # 0
    <3>1. n - 1 \in 0 .. N /\ (n - 1) + 1 = n
      BY <2>2
    <3>2. CASE n - 1 < k
      <4>1. n \in 1 .. k /\ g[n - 1] = L[n]
        BY <2>2, <3>1, <3>2
      <4>2. nx(g[n - 1]) = IF n = k THEN 0 ELSE L[n + 1]
        BY <1>1, <4>1
      <4>3. n = k <=> ~ (n < k)
        BY <3>2
      <4> QED BY <2>2, <4>2, <4>3
    <3>3. CASE ~ (n - 1 < k)
      <4>1. g[n - 1] = 0 /\ ~ (n < k)
        BY <3>1, <3>3
      <4> QED BY <2>2, <4>1
    <3> QED BY <3>2, <3>3
  <2> QED BY <2>1, <2>2
<1>3. Walks(g)
  <2> DEFINE r == [n \in 0 .. N |-> IF n = 0 THEN h ELSE nx(g[n - 1])]
  <2>1. \A n \in 0 .. N : g[n] = r[n]
    BY <1>2
  <2>2. g = r
    BY <2>1
  <2> QED BY <2>2
<1>4. w = CHOOSE f : Walks(f)
  BY DEF Walk
<1> HIDE DEF Walks, w
<1>5. Walks(w)
  BY <1>3, <1>4
<1>6. \A n \in 0 .. N : w[n] = IF n = 0 THEN h ELSE nx(w[n - 1])
  <2>1. w = [n \in 0 .. N |-> IF n = 0 THEN h ELSE nx(w[n - 1])]
    BY <1>5 DEF Walks
  <2> HIDE DEF nx
  <2> QED BY <2>1
<1> DEFINE P == {n \in Nat : n <= N => w[n] = g[n]}
<1> HIDE DEF g, nx
<1>7. 0 \in P
  BY <1>2, <1>6
<1>8. ASSUME NEW n \in Nat, n \in P PROVE n + 1 \in P
  <2>1. SUFFICES ASSUME n + 1 <= N PROVE w[n + 1] = g[n + 1]
    OBVIOUS
  <2>2. n \in 0 .. N /\ n + 1 \in 0 .. N /\ n + 1 # 0 /\ (n + 1) - 1 = n
    BY <2>1
  <2>3. w[n] = g[n]
    BY <1>8, <2>2
  <2> QED BY <1>2, <1>6, <2>2, <2>3
<1>9. \A n \in Nat : n \in P
  <2> HIDE DEF P
  <2> QED BY <1>7, <1>8, Inducts
<1>10. ASSUME NEW n \in 0 .. N PROVE w[n] = g[n]
  BY <1>9
<1> QED BY <1>10 DEF g, w

\* A listing is as long as its set is large.
LEMMA ChainCounts ==
  ASSUME NEW k \in Nat, NEW S, NEW L \in [1 .. k -> S], NEW h, NEW nx,
         Chains(k, L, S, h, nx)
  PROVE  Cardinality(S) = k
<1>1. L \in Bijection(1 .. k, S)
  BY DEF Chains, Bijection, Injection, Surjection, IsInjective
<1> QED BY <1>1, FS_CountingElements DEF ExistsBijection

(***************************************************************************)
(* The free list goes once through each free slot and len counts the       *)
(* others (alloc, free, sweep_partial), at every step of every sweep.      *)
(***************************************************************************)
THEOREM FreeListExact == Spec => []SlotsExact
<1>1. ExactInv => SlotsExact
  <2> SUFFICES ASSUME ExactInv PROVE SlotsExact
    OBVIOUS
  <2>1. entries \in Seq(Entries) /\ Exact(entries, head, len)
    BY DEF ExactInv, Inv, TypeOK
  <2> DEFINE free == Free(entries)
             N == Len(entries)
  <2>2. /\ Cardinality(free) \in Nat /\ N \in Nat /\ 0 \notin free
        /\ free \subseteq 1 .. N /\ free \subseteq DOMAIN entries
    BY <2>1, FreeCounts DEF Free
  <2>3. PICK k \in Nat : \E L \in [1 .. k -> free] : Chains(k, L, free, head, Links(entries))
    BY <2>1 DEF Exact, Listed
  <2>4. PICK L \in [1 .. k -> free] : Chains(k, L, free, head, Links(entries))
    BY <2>3
  <2>5. Cardinality(free) = k
    <3> HIDE DEF free
    <3> QED BY <2>4, ChainCounts
  <2>6. k <= N
    <3>1. 1 \in Int /\ N \in Int
      BY <2>2
    <3>2. IsFiniteSet(1 .. N) /\ Cardinality(1 .. N) = IF 1 > N THEN 0 ELSE N - 1 + 1
      BY <3>1, FS_Interval
    <3>3. Cardinality(free) <= Cardinality(1 .. N)
      BY <2>2, <3>2, FS_Subset
    <3> QED BY <2>2, <2>5, <3>2, <3>3
  <2> DEFINE walk == Walk(entries, head, N)
  <2>7. \A n \in 0 .. N : walk[n] = IF n < k THEN L[n + 1] ELSE 0
    <3>1. /\ k \in Nat /\ N \in Nat /\ k <= N /\ 0 \notin free /\ L \in [1 .. k -> free]
          /\ Chains(k, L, free, head, Links(entries)) /\ free \subseteq DOMAIN entries
      BY <2>2, <2>4, <2>6
    <3> HIDE DEF free, N, walk
    <3>2. \A n \in 0 .. N : Walk(entries, head, N)[n] = IF n < k THEN L[n + 1] ELSE 0
      BY <3>1, WalkIs, Zenon
    <3> QED BY <3>2 DEF walk
  <2>8. SlotsExact <=> /\ {walk[n] : n \in 0 .. Cardinality(free) - 1} = free
                       /\ walk[Cardinality(free)] = 0
                       /\ len = Len(entries) - Cardinality(free)
    BY DEF SlotsExact, Free, Walk
  <2> HIDE DEF walk, free, N
  <2>9. walk[k] = 0
    BY <2>6, <2>7
  <2>10. {walk[n] : n \in 0 .. k - 1} = free
    <3>1. ASSUME NEW n \in 0 .. k - 1 PROVE walk[n] \in free
      <4>1. n \in 0 .. N /\ n < k /\ n + 1 \in 1 .. k
        BY <2>2, <2>6
      <4> QED BY <2>7, <4>1
    <3>2. ASSUME NEW x \in free PROVE \E n \in 0 .. k - 1 : walk[n] = x
      <4>1. PICK i \in 1 .. k : L[i] = x
        BY <2>4 DEF Chains
      <4>2. i - 1 \in 0 .. N /\ i - 1 < k /\ (i - 1) + 1 = i /\ i - 1 \in 0 .. k - 1
        BY <2>2, <2>6
      <4> QED BY <2>7, <4>1, <4>2
    <3> QED BY <3>1, <3>2
  <2>11. len = Len(entries) - Cardinality(free)
    BY <2>1 DEF Exact, free
  <2> QED BY <2>5, <2>8, <2>9, <2>10, <2>11
<1> QED BY <1>1, ExactInit, ExactNext, PTL DEF Spec
=============================================================================
