--------------------------- MODULE CallStackProofs ---------------------------
(***************************************************************************)
(* Proofs about CallStack: counters, catchers, the frames that execute()   *)
(* goes on with, and their top, for every limit on frames and on nested    *)
(* calls.  They are about readers of load that fail at their first call,   *)
(* if at all: ~LateErrors.                                                 *)
(***************************************************************************)
EXTENDS CallStack, FiniteSetTheorems, SequenceTheorems, TLAPS

-----------------------------------------------------------------------------
(***************************************************************************)
(* The inductive invariant.  Each native entry stands on the frames that   *)
(* were there when it began, from(e), and works on those up to upto(e):    *)
(* an execute() on the Lua frames it counts, a function that catches on    *)
(* its own frame, an operator on none.                                     *)
(***************************************************************************)
From(e) == IF e.k \in Catching THEN e.ci - 1 ELSE e.ci
UpTo(e) == IF e.k = "execute" THEN e.ci + e.n ELSE e.ci

(***************************************************************************)
(* Entries follow one another without a gap in the frames, but that a      *)
(* handler stands on those that failed.                                    *)
(***************************************************************************)
Follows(d, e) ==
  /\ UpTo(d) <= From(e)
  /\ d.k # "handler" => UpTo(d) = From(e)
  /\ e.k = "execute" => d.k # "execute"
  /\ e.k \in Operators => d.k = "execute"

Stacked(N) ==
  /\ Len(N) > 0 => N[1].k = "execute"
  /\ \A i \in 2..Len(N) : Follows(N[i - 1], N[i])
  /\ \A i, j \in 1..Len(N) : i < j => UpTo(N[i]) <= From(N[j])

(***************************************************************************)
(* The frames an entry stands for.  What an operator remembers of top is   *)
(* right, but of a frame that lost its execute() to a yield.               *)
(***************************************************************************)
Stands(F, e) ==
  /\ e.k = "execute" => /\ e.n >= 1 /\ e.ci + e.n <= Len(F)
                        /\ \A f \in e.ci + 1 .. e.ci + e.n : F[f].fn = "lua"
  /\ e.k \in Catching => /\ e.ci \in 1..Len(F)
                         /\ F[e.ci].fn = IF e.k = "handler" THEN "xpcall" ELSE e.k
  /\ e.k \in Operators => /\ e.ci \in 1..Len(F)
                          /\ e.top # "open" /\ (e.top = "short" => F[e.ci].cut)

Standing(F, N) == \A i \in 1..Len(N) : Stands(F, N[i])

(***************************************************************************)
(* Where the last entry is, for what it is doing.                          *)
(***************************************************************************)
Placed(F, N, m) ==
  /\ m \in {"suspended", "dead"} => Len(N) = 0
  /\ m = "dead" => Len(F) = 0
  /\ m \in {"yield", "suspended"} => Len(F) > 0
  /\ m \in {"run", "enter"} => Len(N) > 0
  /\ Len(N) > 0 =>
       /\ m = "run" => N[Len(N)].k = "execute"
       /\ m \in {"enter", "done"} => N[Len(N)].k # "execute"
       /\ m \in {"run", "enter", "done"} /\ N[Len(N)].k # "handler"
            => UpTo(N[Len(N)]) = Len(F)

(***************************************************************************)
(* Of the frames of an execute() only the last can be in an operation: one *)
(* whose entry follows, or one that has failed.                            *)
(***************************************************************************)
Idle(fr) == fr.cut \/ fr.waits = "none"

Rests(F, e, busy) ==
  e.k = "execute" =>
    \A f \in e.ci + 1 .. e.ci + e.n : Idle(F[f]) \/ (f = e.ci + e.n /\ busy)

Busy(N, m, i) == IF i < Len(N) THEN N[i + 1].k \in Operators ELSE m \in {"error", "yield"}

Waiting(F, N, m) == \A i \in 1..Len(N) : Rests(F, N[i], Busy(N, m, i))

(***************************************************************************)
(* Frames that are not Lua are those of functions that catch, what is      *)
(* above them, and the call of yield.                                      *)
(***************************************************************************)
Foreign(F, N, m) ==
  \A f \in 1..Len(F) : F[f].fn # "lua" =>
    \/ \E i \in 1..Len(N) : N[i].k \in Catching /\ N[i].ci <= f
    \/ m = "error" /\ (Len(N) > 0 => f > UpTo(N[Len(N)]))
    \/ m \in {"yield", "suspended"} /\ f = Len(F)

(***************************************************************************)
(* What a yield has cut: the frames below the first entry.                 *)
(***************************************************************************)
Resumed(F, N, m, t) ==
  /\ Len(N) > 0 => \A f \in 1..N[1].ci : f <= Len(F) => F[f].cut
  /\ Len(N) = 0 /\ m = "done" =>
       \A f \in 1..Len(F) : F[f].cut \/ (f = Len(F) /\ F[f].waits = "none" /\ t # "short")
  /\ m = "run" => F[Len(F)].cut \/ t # "short"

(***************************************************************************)
(* A function above the limit was called for a handler; the flag is up     *)
(* only for an error and for handlers; load is about to fail or return.    *)
(***************************************************************************)
Limited(N, m, over) ==
  /\ over => m \in {"error", "dead"} \/ \E i \in 1..Len(N) : N[i].k = "handler"
  /\ \A i \in 1..Len(N) : N[i].k \in Catching /\ N[i].ci >= MaxCalls
       => \E j \in 1..Len(N) : j < i /\ N[j].k = "handler"
  /\ \A i \in 1..Len(N) : N[i].k = "load" /\ ~N[i].first => m = "done" /\ i = Len(N)
  /\ m \in {"yield", "suspended"} => \A i \in 1..Len(N) : N[i].k \notin Raising

Count(N, K) == Cardinality({i \in DOMAIN N : N[i].k \in K})

Counted == nCcalls = Count(native, Raising) /\ callDepth = Count(native, Calling)

Layout(F, N, m, t, over) ==
  /\ Stacked(N) /\ Standing(F, N) /\ Placed(F, N, m)
  /\ Waiting(F, N, m) /\ Foreign(F, N, m)
  /\ Resumed(F, N, m, t)
  /\ Limited(N, m, over)

IInv == TypeOK /\ Layout(frames, native, mode, top, ciOverflow) /\ Counted

-----------------------------------------------------------------------------
(***************************************************************************)
(* Sequences: without the last element, with another, the first n.         *)
(***************************************************************************)
LEMMA CutIs ==
  ASSUME NEW S, NEW s \in Seq(S), NEW n \in 0..Len(s)
  PROVE  /\ SubSeq(s, 1, n) \in Seq(S) /\ Len(SubSeq(s, 1, n)) = n
         /\ \A i \in 1..n : SubSeq(s, 1, n)[i] = s[i]
  BY SMT

\* Without its last element.
LEMMA PopIs ==
  ASSUME NEW S, NEW s \in Seq(S), s # <<>>
  PROVE  /\ Pop(s) \in Seq(S) /\ Len(Pop(s)) = Len(s) - 1 /\ Len(s) >= 1
         /\ Last(s) = s[Len(s)] /\ Last(s) \in S
         /\ \A i \in 1..Len(s) - 1 : Pop(s)[i] = s[i]
<1>1. Len(s) \in Nat /\ Len(s) >= 1 /\ \A i \in 1..Len(s) : s[i] \in S
  OBVIOUS
<1>2. Len(s) - 1 \in 0..Len(s)
  BY <1>1
<1>3. /\ SubSeq(s, 1, Len(s) - 1) \in Seq(S)
      /\ Len(SubSeq(s, 1, Len(s) - 1)) = Len(s) - 1
      /\ \A i \in 1..Len(s) - 1 : SubSeq(s, 1, Len(s) - 1)[i] = s[i]
  BY <1>2, CutIs
<1> QED BY <1>1, <1>3 DEF Pop, Front, Last

\* With another last element.
LEMMA ReplaceIs ==
  ASSUME NEW S, NEW s \in Seq(S), s # <<>>, NEW x \in S
  PROVE  /\ Replace(s, x) \in Seq(S) /\ Len(Replace(s, x)) = Len(s) /\ Len(s) >= 1
         /\ Replace(s, x)[Len(s)] = x
         /\ \A i \in 1..Len(s) - 1 : Replace(s, x)[i] = s[i]
<1> DEFINE p == Pop(s)
<1>1. p \in Seq(S) /\ Len(p) = Len(s) - 1 /\ Len(s) >= 1 /\ \A i \in 1..Len(s) - 1 : p[i] = s[i]
  BY PopIs
<1>2. Replace(s, x) = Append(p, x)
  BY DEF Replace, Pop
<1> QED BY <1>1, <1>2

\* With one more element.
LEMMA PushIs ==
  ASSUME NEW S, NEW s \in Seq(S), NEW x \in S
  PROVE  /\ Append(s, x) \in Seq(S) /\ Len(Append(s, x)) = Len(s) + 1 /\ Len(s) \in Nat
         /\ Append(s, x)[Len(s) + 1] = x
         /\ \A i \in 1..Len(s) : Append(s, x)[i] = s[i]
  BY SMT

-----------------------------------------------------------------------------
(***************************************************************************)
(* Native entries pushed, popped and changed in place.                     *)
(***************************************************************************)
LEMMA EntryShape ==
  ASSUME NEW e \in NativeEntries
  PROVE  /\ UpTo(e) \in Nat /\ From(e) \in Int /\ From(e) <= UpTo(e)
         /\ e.k \in Catching \union Operators \union {"execute"}
         /\ e.ci \in Nat /\ e.n \in Nat
  BY DEF NativeEntries, UpTo, From, Calling, Raising, Catching, Operators

\* An entry may be pushed where it follows the last one.
LEMMA StackedPush ==
  ASSUME NEW N \in Seq(NativeEntries), NEW e \in NativeEntries,
         Stacked(N), N # <<>>, Follows(Last(N), e)
  PROVE  Stacked(Append(N, e))
<1> DEFINE M == Append(N, e)
<1>1. /\ M \in Seq(NativeEntries) /\ Len(M) = Len(N) + 1 /\ Len(N) >= 1
      /\ M[Len(N) + 1] = e /\ \A i \in 1..Len(N) : M[i] = N[i]
      /\ Last(N) = N[Len(N)]
  BY DEF Last
<1> HIDE DEF M
<1>2. \A i \in 1..Len(N) : UpTo(N[i]) <= From(e) /\ UpTo(N[i]) \in Nat /\ From(e) \in Int
  <2> TAKE i \in 1..Len(N)
  <2>1. UpTo(N[i]) \in Nat /\ From(e) \in Int /\ UpTo(N[Len(N)]) \in Nat
        /\ From(N[Len(N)]) \in Int /\ From(N[Len(N)]) <= UpTo(N[Len(N)])
    BY EntryShape, <1>1
  <2> QED BY <1>1, <2>1 DEF Stacked, Follows
<1>3. Len(M) > 0 => M[1].k = "execute"
  BY <1>1 DEF Stacked
<1>4. \A i \in 2..Len(M) : Follows(M[i - 1], M[i])
  BY <1>1 DEF Stacked
<1>5. \A i, j \in 1..Len(M) : i < j => UpTo(M[i]) <= From(M[j])
  BY <1>1, <1>2 DEF Stacked
<1> QED BY <1>3, <1>4, <1>5 DEF Stacked, M

\* Popping leaves a stack of entries.
LEMMA StackedPop ==
  ASSUME NEW N \in Seq(NativeEntries), Stacked(N), N # <<>>
  PROVE  Stacked(Pop(N))
<1> DEFINE M == Pop(N)
<1>1. /\ M \in Seq(NativeEntries) /\ Len(M) = Len(N) - 1 /\ Len(N) >= 1
      /\ \A i \in 1..Len(M) : M[i] = N[i]
  BY PopIs
<1> HIDE DEF M
<1>2. Len(M) > 0 => M[1].k = "execute"
  BY <1>1 DEF Stacked
<1>3. \A i \in 2..Len(M) : Follows(M[i - 1], M[i])
  BY <1>1 DEF Stacked
<1>4. \A i, j \in 1..Len(M) : i < j => UpTo(M[i]) <= From(M[j])
  <2> SUFFICES ASSUME NEW i \in 1..Len(M), NEW j \in 1..Len(M), i < j
               PROVE  UpTo(M[i]) <= From(M[j])
    OBVIOUS
  <2>1. M[i] = N[i] /\ M[j] = N[j] /\ i \in 1..Len(N) /\ j \in 1..Len(N)
    BY <1>1
  <2> QED BY <2>1 DEF Stacked
<1> QED BY <1>2, <1>3, <1>4 DEF Stacked, M

\* An entry may change as long as it stands where it stood.
LEMMA StackedReplace ==
  ASSUME NEW N \in Seq(NativeEntries), NEW e \in NativeEntries, Stacked(N), N # <<>>,
         From(e) = From(Last(N)),
         e.k = Last(N).k \/ (Last(N).k # "execute" /\ e.k \in Catching)
  PROVE  Stacked(Replace(N, e))
<1> DEFINE M == Replace(N, e)
<1>1. /\ M \in Seq(NativeEntries) /\ Len(M) = Len(N) /\ Len(N) >= 1
      /\ M[Len(N)] = e /\ \A i \in 1..Len(N) - 1 : M[i] = N[i]
      /\ Last(N) = N[Len(N)]
  <2>1. Last(N) = N[Len(N)]
    BY DEF Last
  <2> QED BY <2>1, ReplaceIs
<1> HIDE DEF M
<1>2. Len(M) > 0 => M[1].k = "execute"
  BY <1>1 DEF Stacked
<1>3. \A i \in 2..Len(M) : Follows(M[i - 1], M[i])
  <2> TAKE i \in 2..Len(M)
  <2>1. Follows(N[i - 1], N[i]) /\ M[i - 1] = N[i - 1]
    BY <1>1 DEF Stacked
  <2>2. CASE i < Len(N)
    BY <1>1, <2>1, <2>2
  <2>3. CASE i = Len(N)
    BY <1>1, <2>1, <2>3 DEF Follows, Catching, Operators
  <2> QED BY <1>1, <2>2, <2>3
<1>4. \A i, j \in 1..Len(M) : i < j => UpTo(M[i]) <= From(M[j])
  <2> SUFFICES ASSUME NEW i \in 1..Len(N), NEW j \in 1..Len(N), i < j
               PROVE  UpTo(M[i]) <= From(M[j])
    BY <1>1
  <2>1. M[i] = N[i] /\ From(M[j]) = From(N[j])
    BY <1>1
  <2> QED BY <2>1 DEF Stacked
<1> QED BY <1>2, <1>3, <1>4 DEF Stacked, M

(***************************************************************************)
(* Entries stand as long as the frames up to the last one's stay.          *)
(***************************************************************************)
LEMMA BelowLast ==
  ASSUME NEW N \in Seq(NativeEntries), Stacked(N), NEW i \in 1..Len(N)
  PROVE  N # <<>> /\ UpTo(N[i]) \in Nat /\ UpTo(N[Len(N)]) \in Nat /\ UpTo(N[i]) <= UpTo(N[Len(N)])
<1>1. Len(N) \in DOMAIN N /\ i \in 1..Len(N) /\ N # <<>>
  OBVIOUS
<1>2. /\ UpTo(N[i]) \in Nat /\ UpTo(N[Len(N)]) \in Nat /\ From(N[Len(N)]) \in Int
      /\ From(N[Len(N)]) <= UpTo(N[Len(N)])
  BY <1>1, EntryShape
<1> QED BY <1>1, <1>2 DEF Stacked

\* An entry stands as long as its frames are the same.
LEMMA StandsSame ==
  ASSUME NEW F \in Seq(Frames), NEW G \in Seq(Frames), NEW e \in NativeEntries,
         Stands(F, e),
         \A f \in 1..UpTo(e) : f <= Len(G) /\ G[f].fn = F[f].fn /\ G[f].cut = F[f].cut
  PROVE  Stands(G, e)
<1>1. e.ci \in Nat /\ e.n \in Nat /\ Len(F) \in Nat /\ Len(G) \in Nat
  BY DEF NativeEntries
<1>2. CASE e.k = "execute"
  BY <1>1, <1>2 DEF Stands, UpTo, Catching, Operators
<1>3. CASE e.k \in Catching
  BY <1>1, <1>3 DEF Stands, UpTo, Catching, Operators
<1>4. CASE e.k \in Operators
  BY <1>1, <1>4 DEF Stands, UpTo, Catching, Operators
<1> QED BY <1>2, <1>3, <1>4, EntryShape

\* All entries stand as long as the frames below the last one are the same.
LEMMA StandingSame ==
  ASSUME NEW F \in Seq(Frames), NEW G \in Seq(Frames), NEW N \in Seq(NativeEntries),
         Stacked(N), Standing(F, N),
         N # <<>> => \A f \in 1..UpTo(N[Len(N)]) : f <= Len(G) /\ G[f] = F[f]
  PROVE  Standing(G, N)
<1> SUFFICES ASSUME NEW i \in 1..Len(N) PROVE Stands(G, N[i])
  BY DEF Standing
<1>1. N[i] \in NativeEntries /\ Stands(F, N[i])
  BY DEF Standing
<1>2. \A f \in 1..UpTo(N[i]) : f <= Len(G) /\ G[f] = F[f]
  BY BelowLast
<1> QED BY <1>1, <1>2, StandsSame

\* The entries below stand.
LEMMA StandingPop ==
  ASSUME NEW F \in Seq(Frames), NEW N \in Seq(NativeEntries), Standing(F, N), N # <<>>
  PROVE  Standing(F, Pop(N))
<1>1. Len(Pop(N)) = Len(N) - 1 /\ Len(N) \in Nat /\ \A i \in 1..Len(N) - 1 : Pop(N)[i] = N[i]
  BY PopIs
<1> QED BY <1>1 DEF Standing

\* An entry that stands may be pushed.
LEMMA StandingPush ==
  ASSUME NEW F \in Seq(Frames), NEW N \in Seq(NativeEntries), NEW e \in NativeEntries,
         Standing(F, N), Stands(F, e)
  PROVE  Standing(F, Append(N, e))
  BY PushIs DEF Standing

\* An entry that stands may take the place of the last one.
LEMMA StandingReplace ==
  ASSUME NEW F \in Seq(Frames), NEW N \in Seq(NativeEntries), NEW e \in NativeEntries,
         N # <<>>, Standing(F, Pop(N)), Stands(F, e)
  PROVE  Standing(F, Replace(N, e))
  BY PopIs, StandingPush DEF Standing, Replace, Pop

-----------------------------------------------------------------------------
(***************************************************************************)
(* Counting entries.                                                       *)
(***************************************************************************)
LEMMA CountIs ==
  ASSUME NEW N \in Seq(NativeEntries), NEW K
  PROVE  /\ IsFiniteSet({i \in DOMAIN N : N[i].k \in K})
         /\ Count(N, K) \in Nat
         /\ Count(N, K) > 0 <=> \E i \in DOMAIN N : N[i].k \in K
<1> DEFINE D == {i \in DOMAIN N : N[i].k \in K}
<1>1. IsFiniteSet(1..Len(N)) /\ D \subseteq 1..Len(N)
  BY FS_Interval
<1>2. IsFiniteSet(D)
  BY <1>1, FS_Subset
<1>3. Cardinality(D) \in Nat /\ (Cardinality(D) = 0 <=> D = {})
  BY <1>2, FS_CardinalityType, FS_EmptySet
<1>4. D # {} <=> \E i \in DOMAIN N : N[i].k \in K
  OBVIOUS
<1> HIDE DEF D
<1>5. Count(N, K) = Cardinality(D)
  BY DEF Count, D
<1>6. Count(N, K) \in Nat /\ (Count(N, K) > 0 <=> D # {})
  BY <1>3, <1>5
<1>7. IsFiniteSet({i \in DOMAIN N : N[i].k \in K})
  BY <1>2 DEF D
<1> QED BY <1>4, <1>6, <1>7

\* Counting with one more entry.
LEMMA CountPush ==
  ASSUME NEW N \in Seq(NativeEntries), NEW e \in NativeEntries, NEW K
  PROVE  Count(Append(N, e), K) = Count(N, K) + IF e.k \in K THEN 1 ELSE 0
<1> DEFINE M == Append(N, e)
           D == {i \in DOMAIN N : N[i].k \in K}
           E == {i \in DOMAIN M : M[i].k \in K}
<1>1. /\ DOMAIN M = 1..Len(N) + 1 /\ DOMAIN N = 1..Len(N) /\ Len(N) \in Nat
      /\ M[Len(N) + 1] = e /\ \A i \in 1..Len(N) : M[i] = N[i]
  OBVIOUS
<1>2. IsFiniteSet(D) /\ Cardinality(D) \in Nat
  BY CountIs, FS_CardinalityType
<1> HIDE DEF M
<1>3. Len(N) + 1 \notin D
  BY <1>1
<1>4. CASE e.k \in K
  <2>1. E = D \union {Len(N) + 1}
    BY <1>1, <1>4
  <2>2. Cardinality(E) = Cardinality(D) + 1
    BY <2>1, <1>2, <1>3, FS_AddElement
  <2> QED BY <2>2, <1>4 DEF Count, M
<1>5. CASE e.k \notin K
  <2>1. E = D
    BY <1>1, <1>5
  <2>2. Count(M, K) = Count(N, K) /\ Count(N, K) \in Nat
    BY <2>1, <1>2 DEF Count
  <2> QED BY <2>2, <1>5 DEF M
<1> QED BY <1>4, <1>5

\* Counting with another last entry.
LEMMA CountReplace ==
  ASSUME NEW N \in Seq(NativeEntries), NEW e \in NativeEntries, NEW K, N # <<>>
  PROVE  Count(Replace(N, e), K) = Count(Pop(N), K) + IF e.k \in K THEN 1 ELSE 0
  BY PopIs, CountPush DEF Replace, Pop

\* Counting without the last entry.
LEMMA CountPop ==
  ASSUME NEW N \in Seq(NativeEntries), NEW K, N # <<>>
  PROVE  Count(N, K) = Count(Pop(N), K) + IF Last(N).k \in K THEN 1 ELSE 0
<1>1. Pop(N) \in Seq(NativeEntries) /\ Last(N) \in NativeEntries
  BY PopIs
<1>2. N = Append(Pop(N), Last(N))
  BY <1>1, PopIs
<1>3. Count(Append(Pop(N), Last(N)), K)
        = Count(Pop(N), K) + IF Last(N).k \in K THEN 1 ELSE 0
  BY <1>1, CountPush
<1> QED BY <1>2, <1>3, Zenon

-----------------------------------------------------------------------------
(***************************************************************************)
(* An error raised by the function at work, with the flag up or not.       *)
(***************************************************************************)
LEMMA ErrorStep ==
  ASSUME IInv, mode \in {"run", "enter"}, Error, UNCHANGED coroutine,
         ciOverflow' \in BOOLEAN
  PROVE  IInv'
<1>1. frames' = frames /\ native' = native /\ mode' = "error" /\ top' = top
  BY DEF Error
<1>2. TypeOK'
  BY DEF IInv, TypeOK, Error, Modes
<1>3. Stacked(native) /\ Standing(frames, native) /\ Placed(frames, native, "error")
  BY DEF IInv, Layout, Placed
<1>4. Waiting(frames, native, "error")
  BY DEF IInv, Layout, Waiting, Rests, Busy
<1>5. Foreign(frames, native, "error")
  BY DEF IInv, Layout, Foreign
<1>6. Resumed(frames, native, "error", top)
  BY DEF IInv, Layout, Resumed
<1>7. Limited(native, "error", ciOverflow')
  BY DEF IInv, Layout, Limited
<1>8. Counted'
  BY DEF IInv, Counted, Error
<1> QED BY <1>1, <1>2, <1>3, <1>4, <1>5, <1>6, <1>7, <1>8 DEF IInv, Layout

(***************************************************************************)
(* The last entry.                                                         *)
(***************************************************************************)
LEMMA TopEntry ==
  ASSUME NEW N \in Seq(NativeEntries), N # <<>>
  PROVE  /\ Len(N) >= 1 /\ Len(N) \in Nat /\ Len(N) \in DOMAIN N
         /\ N[Len(N)] = Last(N) /\ Last(N) \in NativeEntries
         /\ Last(N).ci \in Nat /\ Last(N).n \in Nat
<1>1. Len(N) >= 1 /\ Len(N) \in Nat /\ Len(N) \in DOMAIN N
  OBVIOUS
<1>2. N[Len(N)] \in NativeEntries
  BY <1>1
<1>3. N[Len(N)].ci \in Nat /\ N[Len(N)].n \in Nat
  BY <1>2 DEF NativeEntries
<1> QED BY <1>1, <1>2, <1>3 DEF Last

\* An execute() that counts other frames is an entry still.
LEMMA EntryCounts ==
  ASSUME NEW e \in NativeEntries, NEW n \in Nat
  PROVE  /\ [e EXCEPT !.n = n] \in NativeEntries
         /\ [e EXCEPT !.n = n].k = e.k /\ [e EXCEPT !.n = n].ci = e.ci
         /\ [e EXCEPT !.n = n].n = n /\ [e EXCEPT !.n = n].top = e.top
         /\ [e EXCEPT !.n = n].first = e.first
  BY DEF NativeEntries

\* The last frame is there.
LEMMA TopFrame ==
  ASSUME NEW F \in Seq(Frames), F # <<>>
  PROVE  /\ Len(F) >= 1 /\ Len(F) \in Nat
         /\ F[Len(F)] = Last(F) /\ Last(F) \in Frames
  BY DEF Last

-----------------------------------------------------------------------------
(***************************************************************************)
(* The first n entries, or frames, are the same in both.                   *)
(***************************************************************************)
Shared(s, t, n) == n <= Len(s) /\ n <= Len(t) /\ \A i \in 1..n : t[i] = s[i]

(***************************************************************************)
(* The entries below the n-th keep what they stand for and what waits in   *)
(* them as long as the frames that the n-th stands on stay.                *)
(***************************************************************************)
LEMMA Below ==
  ASSUME NEW N \in Seq(NativeEntries), Stacked(N), NEW n \in 1..Len(N),
         NEW i \in 1..n - 1
  PROVE  UpTo(N[i]) \in Nat /\ From(N[n]) \in Int /\ UpTo(N[i]) <= From(N[n])
<1>1. i \in 1..Len(N) /\ i < n
  OBVIOUS
<1>2. N[i] \in NativeEntries /\ N[n] \in NativeEntries
  BY <1>1
<1> QED BY <1>1, <1>2, EntryShape DEF Stacked

\* An entry stands while the frames up to its own are shared.
LEMMA StandsKept ==
  ASSUME NEW F \in Seq(Frames), NEW G \in Seq(Frames), NEW e \in NativeEntries,
         Stands(F, e), NEW n \in Int, UpTo(e) <= n, Shared(F, G, n)
  PROVE  Stands(G, e)
<1>1. UpTo(e) \in Nat
  BY EntryShape
<1>2. \A f \in 1..UpTo(e) : f <= Len(G) /\ G[f] = F[f]
  BY <1>1 DEF Shared
<1> QED BY <1>2, StandsSame

\* Its frames rest as they did while they are shared.
LEMMA RestsKept ==
  ASSUME NEW F, NEW G, NEW e \in NativeEntries, NEW busy,
         Rests(F, e, busy), NEW n \in Int, UpTo(e) <= n, Shared(F, G, n)
  PROVE  Rests(G, e, busy)
<1>1. e.ci \in Nat /\ e.n \in Nat
  BY EntryShape
<1> QED BY <1>1 DEF Rests, UpTo, Shared, Idle

\* The entries below one stand while the frames it stands on are shared.
LEMMA StandingBelow ==
  ASSUME NEW F \in Seq(Frames), NEW G \in Seq(Frames), NEW N \in Seq(NativeEntries),
         Stacked(N), Standing(F, N), NEW n \in 1..Len(N), Shared(F, G, From(N[n])),
         NEW i \in 1..n - 1
  PROVE  Stands(G, N[i])
<1>1. UpTo(N[i]) \in Nat /\ From(N[n]) \in Int /\ UpTo(N[i]) <= From(N[n])
  BY Below
<1>2. N[i] \in NativeEntries /\ Stands(F, N[i])
  BY DEF Standing
<1> QED BY <1>1, <1>2, StandsKept

\* The frames of the entries below one rest as they did.
LEMMA RestsBelow ==
  ASSUME NEW F, NEW G, NEW N \in Seq(NativeEntries), NEW m,
         Stacked(N), Waiting(F, N, m), NEW n \in 1..Len(N), Shared(F, G, From(N[n])),
         NEW i \in 1..n - 1
  PROVE  Rests(G, N[i], N[i + 1].k \in Operators)
<1>1. UpTo(N[i]) \in Nat /\ From(N[n]) \in Int /\ UpTo(N[i]) <= From(N[n])
  BY Below
<1>2. N[i] \in NativeEntries /\ Rests(F, N[i], N[i + 1].k \in Operators)
  BY DEF Waiting, Busy
<1> QED BY <1>1, <1>2, RestsKept

(***************************************************************************)
(* The entries after one step: pushed, popped or replaced.                 *)
(***************************************************************************)
LEMMA StandingAfter ==
  ASSUME NEW F \in Seq(Frames), NEW G \in Seq(Frames), NEW N \in Seq(NativeEntries),
         Stacked(N), Standing(F, N), NEW n \in 1..Len(N), Shared(F, G, From(N[n])),
         NEW M, Len(M) \in Nat, \A i \in 1..n - 1 : M[i] = N[i],
         \A i \in n..Len(M) : Stands(G, M[i])
  PROVE  Standing(G, M)
<1> SUFFICES ASSUME NEW i \in 1..Len(M) PROVE Stands(G, M[i])
  BY DEF Standing
<1>1. CASE i < n
  <2>1. i \in 1..n - 1 /\ M[i] = N[i]
    BY <1>1
  <2> QED BY <2>1, StandingBelow
<1>2. CASE i >= n
  BY <1>2
<1> QED BY <1>1, <1>2

\* The frames of a cut stack of entries wait for those entries only.
LEMMA WaitingAfter ==
  ASSUME NEW F, NEW G, NEW N \in Seq(NativeEntries), NEW m, NEW l,
         Stacked(N), Waiting(F, N, m), NEW n \in 1..Len(N), Shared(F, G, From(N[n])),
         NEW M, Len(M) \in Nat, \A i \in 1..n - 1 : M[i] = N[i],
         n <= Len(M) => (M[n].k \in Operators <=> N[n].k \in Operators),
         \A i \in 1..Len(M) : i >= n \/ i = Len(M) => Rests(G, M[i], Busy(M, l, i))
  PROVE  Waiting(G, M, l)
<1> SUFFICES ASSUME NEW i \in 1..Len(M), i < n, i < Len(M)
             PROVE  Rests(G, M[i], Busy(M, l, i))
  BY DEF Waiting
<1>1. i \in 1..n - 1 /\ M[i] = N[i]
  OBVIOUS
<1>2. M[i + 1].k \in Operators <=> N[i + 1].k \in Operators
  <2>1. CASE i + 1 < n
    BY <2>1
  <2>2. CASE i + 1 = n
    BY <2>2
  <2> QED BY <2>1, <2>2
<1>3. Rests(G, N[i], N[i + 1].k \in Operators)
  BY <1>1, RestsBelow
<1> QED BY <1>1, <1>2, <1>3 DEF Busy, Rests

-----------------------------------------------------------------------------
(***************************************************************************)
(* What Layout says of the last entry, an execute() at work.               *)
(***************************************************************************)
LEMMA AtWork ==
  ASSUME NEW F \in Seq(Frames), NEW N \in Seq(NativeEntries), NEW t, NEW over,
         Layout(F, N, "run", t, over)
  PROVE  LET n == Len(N)  e == N[Len(N)]
         IN  /\ n \in Nat /\ n >= 1 /\ e \in NativeEntries
             /\ e.k = "execute" /\ e.ci \in Nat /\ e.n \in Nat /\ e.n >= 1
             /\ From(e) = e.ci /\ UpTo(e) = Len(F) /\ e.ci + e.n = Len(F) /\ Len(F) >= 1
             /\ \A f \in e.ci + 1 .. Len(F) : F[f].fn = "lua" /\ Idle(F[f])
<1>1. Len(N) \in Nat /\ Len(N) >= 1 /\ N[Len(N)].k = "execute"
      /\ UpTo(N[Len(N)]) = Len(F)
  BY DEF Layout, Placed
<1>2. N[Len(N)] \in NativeEntries /\ Len(N) \in 1..Len(N)
  BY <1>1
<1>3. N[Len(N)].ci \in Nat /\ N[Len(N)].n \in Nat
  BY <1>2, EntryShape
<1>4. Stands(F, N[Len(N)]) /\ Rests(F, N[Len(N)], Busy(N, "run", Len(N)))
  BY <1>2 DEF Layout, Standing, Waiting
<1>5. ~Busy(N, "run", Len(N))
  BY DEF Busy
<1>6. N[Len(N)].ci + N[Len(N)].n = Len(F) /\ From(N[Len(N)]) = N[Len(N)].ci
  BY <1>1 DEF UpTo, From, Catching
<1>7. N[Len(N)].n >= 1 /\ \A f \in N[Len(N)].ci + 1 .. Len(F) : F[f].fn = "lua"
  BY <1>1, <1>4, <1>6 DEF Stands
<1>8. \A f \in N[Len(N)].ci + 1 .. Len(F) : Idle(F[f])
  BY <1>1, <1>4, <1>5, <1>6 DEF Rests
<1> QED BY <1>1, <1>2, <1>3, <1>6, <1>7, <1>8

\* The first entry stands lowest.
LEMMA FirstLowest ==
  ASSUME NEW N \in Seq(NativeEntries), Stacked(N), Len(N) > 0
  PROVE  N[1].ci \in Nat /\ N[1].ci <= From(N[Len(N)]) /\ From(N[Len(N)]) \in Int
<1>1. Len(N) \in Nat /\ 1 \in 1..Len(N) /\ Len(N) \in 1..Len(N)
  OBVIOUS
<1>2. N[1] \in NativeEntries /\ N[Len(N)] \in NativeEntries /\ N[1].k = "execute"
  BY <1>1 DEF Stacked
<1>3. /\ From(N[1]) = N[1].ci /\ N[1].ci \in Nat /\ N[1].n \in Nat
      /\ UpTo(N[1]) = N[1].ci + N[1].n /\ From(N[Len(N)]) \in Int
  BY <1>2, EntryShape DEF From, UpTo, Catching
<1>4. CASE Len(N) = 1
  BY <1>3, <1>4
<1>5. CASE Len(N) > 1
  BY <1>1, <1>3, <1>5 DEF Stacked
<1>6. Len(N) = 1 \/ Len(N) > 1
  <2>1. \A k \in Nat : k > 0 => k = 1 \/ k > 1
    OBVIOUS
  <2> QED BY <1>1, <2>1
<1> QED BY <1>4, <1>5, <1>6

(***************************************************************************)
(* The limits, when entries are popped or only an execute() changes.       *)
(***************************************************************************)
LEMMA LimitedKept ==
  ASSUME NEW N, NEW m, NEW over, Limited(N, m, over), Len(N) \in Nat,
         NEW M, NEW l, NEW still, Len(M) \in Nat, Len(M) <= Len(N),
         \A i \in 1..Len(M) : M[i].k = N[i].k,
         \A i \in 1..Len(M) : M[i].k # "execute" => M[i] = N[i],
         \A i \in 1..Len(M) : M[i].k = "load" => M[i].first,
         l \in {"yield", "suspended"} => m \in {"yield", "suspended"},
         still => l \in {"error", "dead"} \/ \E i \in 1..Len(M) : M[i].k = "handler"
  PROVE  Limited(M, l, still)
<1>1. ASSUME NEW i \in 1..Len(M), M[i].k \in Catching, M[i].ci >= MaxCalls
      PROVE  \E j \in 1..Len(M) : j < i /\ M[j].k = "handler"
  <2>1. M[i] = N[i] /\ i \in 1..Len(N)
    BY <1>1 DEF Catching
  <2>2. PICK j \in 1..Len(N) : j < i /\ N[j].k = "handler"
    BY <1>1, <2>1 DEF Limited
  <2>3. j \in 1..Len(M) /\ M[j].k = "handler"
    BY <2>2
  <2> QED BY <2>2, <2>3
<1>2. ASSUME l \in {"yield", "suspended"}, NEW i \in 1..Len(M)
      PROVE  M[i].k \notin Raising
  <2>1. i \in 1..Len(N) /\ M[i].k = N[i].k
    OBVIOUS
  <2> QED BY <1>2, <2>1 DEF Limited
<1> QED BY <1>1, <1>2 DEF Limited

(***************************************************************************)
(* An execute() that goes on with Lua frames: one more, another, one less, *)
(* or the same.                                                            *)
(***************************************************************************)
LEMMA GoesOn ==
  ASSUME NEW F \in Seq(Frames), NEW N \in Seq(NativeEntries), NEW t, NEW over,
         Layout(F, N, "run", t, over),
         NEW G \in Seq(Frames), NEW M \in Seq(NativeEntries), NEW u,
         Len(M) = Len(N), \A i \in 1..Len(N) - 1 : M[i] = N[i], Stacked(M),
         M[Len(N)].k = "execute", M[Len(N)].ci = N[Len(N)].ci, M[Len(N)].n >= 1,
         M[Len(N)].ci + M[Len(N)].n = Len(G), Shared(F, G, N[Len(N)].ci),
         \A f \in N[Len(N)].ci + 1 .. Len(G) : G[f].fn = "lua" /\ Idle(G[f]),
         G[Len(G)].cut \/ u # "short"
  PROVE  Layout(G, M, "run", u, over)
<1> DEFINE n == Len(N)
<1>1. /\ n \in Nat /\ n >= 1 /\ n \in 1..Len(N)
      /\ N[n].k = "execute" /\ N[n].ci \in Nat /\ From(N[n]) = N[n].ci
  BY AtWork
<1>2. Stacked(N) /\ Standing(F, N) /\ Waiting(F, N, "run")
  BY DEF Layout
<1>3. M[n] \in NativeEntries /\ M[n].n \in Nat
  BY <1>1, EntryShape
<1> HIDE DEF n
<1>4. Standing(G, M)
  <2>1. Stands(G, M[n])
    BY <1>1 DEF Stands, Catching, Operators, n
  <2>2. \A i \in n..Len(M) : Stands(G, M[i])
    BY <2>1, <1>1 DEF n
  <2>3. Len(M) \in Nat /\ Shared(F, G, From(N[n])) /\ \A i \in 1..n - 1 : M[i] = N[i]
    BY <1>1 DEF n
  <2> QED BY <1>1, <1>2, <2>2, <2>3, StandingAfter
<1>5. Placed(G, M, "run")
  BY <1>1, <1>3 DEF Placed, UpTo, n
<1>6. Waiting(G, M, "run")
  <2>1. Rests(G, M[n], Busy(M, "run", n))
    BY <1>1 DEF Rests, n
  <2>2. \A i \in 1..Len(M) : i >= n \/ i = Len(M) => Rests(G, M[i], Busy(M, "run", i))
    BY <2>1, <1>1 DEF n
  <2>3. /\ Len(M) \in Nat /\ Shared(F, G, From(N[n])) /\ \A i \in 1..n - 1 : M[i] = N[i]
        /\ M[n].k \in Operators <=> N[n].k \in Operators
    BY <1>1 DEF n
  <2> QED BY <1>1, <1>2, <2>2, <2>3, WaitingAfter
<1>7. Foreign(G, M, "run")
  <2> SUFFICES ASSUME NEW f \in 1..Len(G), G[f].fn # "lua"
               PROVE  \E i \in 1..Len(M) : M[i].k \in Catching /\ M[i].ci <= f
    BY DEF Foreign
  <2>1. f <= N[n].ci /\ f <= Len(F) /\ F[f].fn # "lua"
    BY <1>1 DEF Shared, n
  <2>2. PICK i \in 1..Len(N) : N[i].k \in Catching /\ N[i].ci <= f
    BY <2>1 DEF Layout, Foreign
  <2>3. i # n
    BY <1>1, <2>2 DEF Catching
  <2>4. i \in 1..Len(M) /\ M[i] = N[i]
    BY <1>1, <2>3, SMTT(60) DEF n
  <2> QED BY <2>2, <2>4
<1>8. Resumed(G, M, "run", u)
  <2>1. N[1].ci <= N[n].ci /\ M[1].ci = N[1].ci /\ N[1].ci \in Nat
    <3>1. N[1].ci <= N[n].ci /\ N[1].ci \in Nat
      BY <1>1, <1>2, FirstLowest DEF n
    <3>2. CASE n = 1
      BY <3>1, <3>2 DEF n
    <3>3. CASE n > 1
      BY <1>1, <3>1, <3>3 DEF n
    <3> QED BY <1>1, <3>2, <3>3
  <2>2. \A f \in 1..N[1].ci : f <= Len(F) => F[f].cut
    BY <1>1 DEF Layout, Resumed, n
  <2>3. \A f \in 1..N[n].ci : f <= Len(F) /\ G[f] = F[f]
    BY <1>1 DEF Shared, n
  <2>4. \A f \in 1..M[1].ci : f <= Len(G) => G[f].cut
    BY <1>1, <2>1, <2>2, <2>3
  <2> QED BY <1>1, <2>4 DEF Resumed, n
<1>9. Limited(M, "run", over)
  <2>1. Limited(N, "run", over)
    BY DEF Layout
  <2>2. \A i \in 1..Len(M) : M[i].k = N[i].k
    BY <1>1 DEF n
  <2>3. \A i \in 1..Len(M) : M[i].k # "execute" => M[i] = N[i]
    BY <1>1 DEF n
  <2>4. \A i \in 1..Len(M) : M[i].k = "load" => M[i].first
    BY <1>1, <2>1, <2>3 DEF Limited
  <2>5. over => \E i \in 1..Len(M) : M[i].k = "handler"
    BY <1>1, <2>1, <2>2 DEF Limited
  <2> QED BY <1>1, <2>1, <2>2, <2>3, <2>4, <2>5, LimitedKept DEF n
<1> QED BY <1>4, <1>5, <1>6, <1>7, <1>8, <1>9 DEF Layout

(***************************************************************************)
(* The Lua frame on top and the execute() at work on it.                   *)
(***************************************************************************)
LEMMA RunningIs ==
  ASSUME IInv, Running
  PROVE  LET n == Len(native)  e == native[Len(native)]
         IN  /\ mode = "run" /\ native \in Seq(NativeEntries) /\ frames \in Seq(Frames)
             /\ Layout(frames, native, "run", top, ciOverflow)
             /\ native # <<>> /\ frames # <<>>
             /\ n \in Nat /\ n >= 1 /\ e \in NativeEntries /\ Last(native) = e
             /\ e.k = "execute" /\ e.ci \in Nat /\ e.n \in Nat /\ e.n >= 1
             /\ From(e) = e.ci /\ UpTo(e) = Len(frames) /\ e.ci + e.n = Len(frames)
             /\ Len(frames) \in Nat /\ Len(frames) >= 1
             /\ Last(frames) = frames[Len(frames)] /\ Last(frames) \in Frames
             /\ \A f \in e.ci + 1 .. Len(frames) : frames[f].fn = "lua" /\ Idle(frames[f])
<1>1. /\ mode = "run" /\ native \in Seq(NativeEntries) /\ frames \in Seq(Frames)
      /\ Layout(frames, native, "run", top, ciOverflow)
  BY DEF IInv, TypeOK, Running
<1>2. LET n == Len(native)  e == native[Len(native)]
      IN  /\ n \in Nat /\ n >= 1 /\ e \in NativeEntries
          /\ e.k = "execute" /\ e.ci \in Nat /\ e.n \in Nat /\ e.n >= 1
          /\ From(e) = e.ci /\ UpTo(e) = Len(frames) /\ e.ci + e.n = Len(frames)
          /\ Len(frames) >= 1
          /\ \A f \in e.ci + 1 .. Len(frames) : frames[f].fn = "lua" /\ Idle(frames[f])
  BY <1>1, AtWork
<1>3. native # <<>> /\ frames # <<>> /\ Len(frames) \in Nat
  BY <1>1, <1>2
<1>4. Last(native) = native[Len(native)] /\ Last(frames) = frames[Len(frames)]
      /\ Last(frames) \in Frames
  BY <1>1, <1>3, TopEntry, TopFrame
<1> QED BY <1>1, <1>2, <1>3, <1>4

\* A frame just pushed is waiting for nothing.
LEMMA NewFrame ==
  ASSUME NEW fn \in {"lua"} \union RustFunctions, NEW wanted \in {"fixed", "all"}
  PROVE  /\ Frame(fn, wanted) \in Frames /\ Frame(fn, wanted).fn = fn
         /\ Idle(Frame(fn, wanted)) /\ ~Frame(fn, wanted).cut
  BY DEF Frame, Frames, Idle

\* CallLua keeps the invariant.
LEMMA CallLuaStep ==
  ASSUME IInv, NEW wanted \in {"fixed", "all"}, CallLua(wanted)
  PROVE  IInv'
<1>1. Running
  BY DEF CallLua
<1>2. CASE FrameOverflow
  BY <1>1, <1>2, ErrorStep DEF FrameOverflow, Running
<1>3. CASE /\ EnterLua(wanted)
           /\ native' = Replace(native, [Last(native) EXCEPT !.n = @ + 1])
           /\ UNCHANGED <<mode, nCcalls, callDepth, ciOverflow, coroutine>>
  <2> DEFINE n == Len(native)
             e == native[Len(native)]
             x == Frame("lua", wanted)
             d == [e EXCEPT !.n = e.n + 1]
  <2>1. /\ mode = "run" /\ native \in Seq(NativeEntries) /\ frames \in Seq(Frames)
        /\ Layout(frames, native, "run", top, ciOverflow)
        /\ native # <<>> /\ n \in Nat /\ n >= 1 /\ e \in NativeEntries /\ Last(native) = e
        /\ e.k = "execute" /\ e.ci \in Nat /\ e.n \in Nat /\ e.n >= 1
        /\ e.ci + e.n = Len(frames) /\ Len(frames) \in Nat
        /\ From(e) = e.ci
        /\ \A f \in e.ci + 1 .. Len(frames) : frames[f].fn = "lua" /\ Idle(frames[f])
    BY <1>1, RunningIs
  <2>2. x \in Frames /\ x.fn = "lua" /\ Idle(x)
    BY NewFrame
  <2>3. d \in NativeEntries /\ d.k = e.k /\ d.ci = e.ci /\ d.n = e.n + 1
    <3>1. e \in NativeEntries /\ e.n + 1 \in Nat
      BY <2>1
    <3> HIDE DEF e
    <3> QED BY <3>1, EntryCounts
  <2>4. frames' = Append(frames, x) /\ native' = Replace(native, d) /\ mode' = "run"
        /\ top' = "full" /\ ciOverflow' = ciOverflow
    BY <1>3, <2>1 DEF EnterLua
  <2> HIDE DEF n, e, x, d
  <2>5. /\ frames' \in Seq(Frames) /\ Len(frames') = Len(frames) + 1
        /\ frames'[Len(frames) + 1] = x /\ \A f \in 1..Len(frames) : frames'[f] = frames[f]
    BY <2>1, <2>2, <2>4, PushIs
  <2>6. /\ native' \in Seq(NativeEntries) /\ Len(native') = n
        /\ native'[n] = d /\ \A i \in 1..n - 1 : native'[i] = native[i]
    <3>1. /\ Replace(native, d) \in Seq(NativeEntries) /\ Len(Replace(native, d)) = Len(native)
          /\ Replace(native, d)[Len(native)] = d
          /\ \A i \in 1..Len(native) - 1 : Replace(native, d)[i] = native[i]
      BY <2>1, <2>3, ReplaceIs
    <3> QED BY <2>4, <3>1 DEF n
  <2>7. Layout(frames', native', "run", "full", ciOverflow)
    <3>1. Stacked(native')
      <4>1. From(d) = From(e) /\ Stacked(native)
        BY <2>1, <2>3 DEF From, Catching, Layout
      <4> QED BY <2>1, <2>3, <2>4, <4>1, StackedReplace
    <3>2. Shared(frames, frames', e.ci)
      <4>1. e.ci <= Len(frames)
        BY <2>1
      <4> QED BY <2>1, <2>5, <4>1 DEF Shared
    <3>3. \A f \in e.ci + 1 .. Len(frames') : frames'[f].fn = "lua" /\ Idle(frames'[f])
      BY <2>1, <2>2, <2>5
    <3>4. d.n >= 1 /\ d.ci + d.n = Len(frames')
      BY <2>1, <2>3, <2>5
    <3>5. native'[n].k = "execute" /\ native'[n].ci = e.ci /\ native'[n].n >= 1
          /\ native'[n].ci + native'[n].n = Len(frames')
      BY <2>1, <2>3, <2>6, <3>4
    <3> QED BY <2>1, <2>5, <2>6, <3>1, <3>2, <3>3, <3>5, GoesOn DEF n, e
  <2>8. TypeOK'
    BY <1>3, <2>4, <2>5, <2>6 DEF IInv, TypeOK, Modes
  <2>9. Counted'
    <3>1. \A K : Count(native', K) = Count(native, K)
      BY <2>1, <2>3, <2>4, CountReplace, CountPop
    <3> QED BY <1>3, <3>1 DEF IInv, Counted
  <2> QED BY <2>4, <2>7, <2>8, <2>9 DEF IInv
<1> QED BY <1>2, <1>3 DEF CallLua

\* TailCall keeps the invariant.
LEMMA TailCallStep ==
  ASSUME IInv, TailCall
  PROVE  IInv'
<1>1. Running
  BY DEF TailCall
<1>2. CASE FrameOverflow
  BY <1>1, <1>2, ErrorStep DEF FrameOverflow, Running
<1>3. CASE /\ frames' = Replace(frames, Frame("lua", Last(frames).wanted))
           /\ top' = "full"
           /\ UNCHANGED <<native, mode, nCcalls, callDepth, ciOverflow, coroutine>>
  <2> DEFINE e == native[Len(native)]
             x == Frame("lua", Last(frames).wanted)
  <2>1. /\ mode = "run" /\ native \in Seq(NativeEntries) /\ frames \in Seq(Frames)
        /\ Layout(frames, native, "run", top, ciOverflow)
        /\ frames # <<>> /\ Last(frames) \in Frames
        /\ e.k = "execute" /\ e.ci \in Nat /\ e.n \in Nat /\ e.n >= 1
        /\ e.ci + e.n = Len(frames) /\ Len(frames) \in Nat
        /\ \A f \in e.ci + 1 .. Len(frames) : frames[f].fn = "lua" /\ Idle(frames[f])
    BY <1>1, RunningIs
  <2>2. x \in Frames /\ x.fn = "lua" /\ Idle(x)
    <3>1. Last(frames).wanted \in {"fixed", "all"}
      BY <2>1 DEF Frames
    <3> QED BY <3>1, NewFrame
  <2>3. frames' = Replace(frames, x) /\ native' = native /\ mode' = "run"
        /\ top' = "full" /\ ciOverflow' = ciOverflow
    BY <1>3, <2>1
  <2> HIDE DEF e, x
  <2>4. /\ frames' \in Seq(Frames) /\ Len(frames') = Len(frames)
        /\ frames'[Len(frames)] = x
        /\ \A f \in 1..Len(frames) - 1 : frames'[f] = frames[f]
    <3>1. /\ Replace(frames, x) \in Seq(Frames) /\ Len(Replace(frames, x)) = Len(frames)
          /\ Replace(frames, x)[Len(frames)] = x
          /\ \A f \in 1..Len(frames) - 1 : Replace(frames, x)[f] = frames[f]
      <4>1. frames \in Seq(Frames) /\ frames # <<>> /\ x \in Frames
        BY <2>1, <2>2
      <4> QED BY <4>1, ReplaceIs
    <3> QED BY <2>3, <3>1
  <2>5. Layout(frames', native', "run", "full", ciOverflow)
    <3>1. Stacked(native)
      BY <2>1 DEF Layout
    <3>2. Shared(frames, frames', e.ci)
      <4>1. e.ci <= Len(frames) - 1
        BY <2>1
      <4> QED BY <2>1, <2>4, <4>1 DEF Shared
    <3>3. \A f \in e.ci + 1 .. Len(frames') : frames'[f].fn = "lua" /\ Idle(frames'[f])
      <4> SUFFICES ASSUME NEW f \in e.ci + 1 .. Len(frames')
                   PROVE  frames'[f].fn = "lua" /\ Idle(frames'[f])
        OBVIOUS
      <4>1. CASE f = Len(frames)
        BY <2>2, <2>4, <4>1
      <4>2. CASE f < Len(frames)
        <5>1. frames'[f] = frames[f]
          BY <2>1, <2>4, <4>2
        <5> QED BY <2>1, <2>4, <5>1
      <4> QED BY <2>1, <2>4, <4>1, <4>2
    <3> QED BY <2>1, <2>3, <2>4, <3>1, <3>2, <3>3, GoesOn DEF e
  <2>6. TypeOK'
    BY <1>3, <2>3, <2>4 DEF IInv, TypeOK, Modes
  <2>7. Counted'
    BY <1>3 DEF IInv, Counted
  <2> QED BY <2>3, <2>5, <2>6, <2>7 DEF IInv
<1> QED BY <1>2, <1>3 DEF TailCall

\* SetList keeps the invariant.
LEMMA SetListStep ==
  ASSUME IInv, SetList
  PROVE  IInv'
<1>1. Running /\ top' = "full"
      /\ UNCHANGED <<frames, native, mode, nCcalls, callDepth, ciOverflow, coroutine>>
  BY DEF SetList
<1>2. mode = "run"
  BY <1>1 DEF Running
<1>3. TypeOK' /\ Counted'
  BY <1>1 DEF IInv, TypeOK, Counted
<1>4. Resumed(frames, native, "run", "full")
  BY <1>2 DEF IInv, Layout, Resumed
<1>5. Layout(frames, native, "run", "full", ciOverflow)
  BY <1>2, <1>4 DEF IInv, Layout
<1> QED BY <1>1, <1>2, <1>3, <1>5 DEF IInv

\* Raise keeps the invariant.
LEMMA RaiseStep ==
  ASSUME IInv, Raise
  PROVE  IInv'
<1>1. mode = "run" /\ Error /\ UNCHANGED <<ciOverflow, coroutine>>
  BY DEF Raise, Running
<1>2. ciOverflow' \in BOOLEAN
  BY <1>1 DEF IInv, TypeOK
<1> QED BY <1>1, <1>2, ErrorStep

(***************************************************************************)
(* The execute() has run the function it was entered for.                  *)
(***************************************************************************)
LEMMA Left ==
  ASSUME NEW F \in Seq(Frames), NEW N \in Seq(NativeEntries), NEW t, NEW over,
         Layout(F, N, "run", t, over), NEW u,
         NEW G \in Seq(Frames), Len(G) = N[Len(N)].ci, Shared(F, G, N[Len(N)].ci),
         NEW M \in Seq(NativeEntries), Len(M) = Len(N) - 1, Stacked(M),
         \A i \in 1..Len(N) - 1 : M[i] = N[i]
  PROVE  Layout(G, M, "done", u, over)
<1> DEFINE n == Len(N)
<1>1. /\ n \in Nat /\ n >= 1 /\ n \in 1..Len(N)
      /\ N[n].k = "execute" /\ N[n].ci \in Nat /\ From(N[n]) = N[n].ci
  BY AtWork
<1>2. Stacked(N) /\ Standing(F, N) /\ Waiting(F, N, "run") /\ Limited(N, "run", over)
  BY DEF Layout
<1> HIDE DEF n
<1>3. Len(M) \in Nat /\ Len(M) = n - 1 /\ Shared(F, G, From(N[n]))
      /\ \A i \in 1..n - 1 : M[i] = N[i]
  BY <1>1 DEF n
<1>4. Standing(G, M)
  <2>1. \A i \in n..Len(M) : Stands(G, M[i])
    BY <1>1, <1>3
  <2> QED BY <1>1, <1>2, <1>3, <2>1, StandingAfter
<1>5. Len(M) > 0 => /\ M[Len(M)].k # "execute"
                    /\ M[Len(M)].k # "handler" => UpTo(M[Len(M)]) = Len(G)
  <2> SUFFICES ASSUME Len(M) > 0
               PROVE  /\ M[Len(M)].k # "execute"
                      /\ M[Len(M)].k # "handler" => UpTo(M[Len(M)]) = Len(G)
    OBVIOUS
  <2>1. n \in 2..Len(N) /\ M[Len(M)] = N[n - 1]
    BY <1>1, <1>3 DEF n
  <2>2. Follows(N[n - 1], N[n])
    BY <1>2, <2>1 DEF Stacked
  <2> QED BY <1>1, <2>1, <2>2 DEF Follows, n
<1>6. Placed(G, M, "done")
  BY <1>5 DEF Placed
<1>7. Waiting(G, M, "done")
  <2>1. Len(M) > 0 => Rests(G, M[Len(M)], Busy(M, "done", Len(M)))
    BY <1>5 DEF Rests
  <2>2. \A i \in 1..Len(M) : i >= n \/ i = Len(M) => Rests(G, M[i], Busy(M, "done", i))
    BY <1>1, <1>3, <2>1
  <2>3. n <= Len(M) => (M[n].k \in Operators <=> N[n].k \in Operators)
    BY <1>1, <1>3
  <2> QED BY <1>1, <1>2, <1>3, <2>2, <2>3, WaitingAfter
<1>8. Foreign(G, M, "done")
  <2> SUFFICES ASSUME NEW f \in 1..Len(G), G[f].fn # "lua"
               PROVE  \E i \in 1..Len(M) : M[i].k \in Catching /\ M[i].ci <= f
    BY DEF Foreign
  <2>1. f \in 1..Len(F) /\ F[f].fn # "lua"
    BY <1>1 DEF Shared, n
  <2>2. PICK i \in 1..Len(N) : N[i].k \in Catching /\ N[i].ci <= f
    BY <2>1 DEF Layout, Foreign
  <2>3. i # n
    BY <1>1, <2>2 DEF Catching
  <2>4. i \in 1..Len(M) /\ M[i] = N[i]
    BY <1>1, <1>3, <2>3, SMTT(60) DEF n
  <2> QED BY <2>2, <2>4
<1>9. Resumed(G, M, "done", u)
  <2>1. N[1].ci \in Nat /\ N[1].ci <= N[n].ci
    BY <1>1, <1>2, FirstLowest DEF n
  <2>2. \A f \in 1..N[1].ci : f <= Len(F) => F[f].cut
    BY <1>1 DEF Layout, Resumed, n
  <2>3. \A f \in 1..N[n].ci : f <= Len(F) /\ G[f] = F[f]
    BY <1>1 DEF Shared, n
  <2>4. Len(M) > 0 => M[1] = N[1]
    BY <1>1, <1>3
  <2>5. Len(M) > 0 => \A f \in 1..M[1].ci : f <= Len(G) => G[f].cut
    <3>1. \A f \in 1..N[1].ci : G[f].cut
      BY <1>1, <2>1, <2>2, <2>3, SMTT(60)
    <3> QED BY <2>4, <3>1
  <2>6. Len(M) = 0 => \A f \in 1..Len(G) : G[f].cut
    <3>1. Len(M) = 0 => n = 1
      BY <1>1, <1>3
    <3> QED BY <1>1, <2>2, <2>3, <3>1 DEF n
  <2> QED BY <2>5, <2>6 DEF Resumed
<1>10. Limited(M, "done", over)
  <2>1. \A i \in 1..Len(M) : M[i] = N[i] /\ i \in 1..Len(N)
    BY <1>1, <1>3 DEF n
  <2>2. \A i \in 1..Len(M) : M[i].k = "load" => M[i].first
    BY <1>2, <2>1 DEF Limited
  <2>3. over => \E i \in 1..Len(M) : M[i].k = "handler"
    <3> SUFFICES ASSUME over PROVE \E i \in 1..Len(M) : M[i].k = "handler"
      OBVIOUS
    <3>1. PICK i \in 1..Len(N) : N[i].k = "handler"
      BY <1>2 DEF Limited
    <3>2. i # n
      BY <1>1, <3>1
    <3>3. i \in 1..Len(M)
      BY <1>1, <1>3, <3>2 DEF n
    <3> QED BY <2>1, <3>1, <3>3
  <2>4. /\ Limited(N, "run", over) /\ Len(N) \in Nat /\ Len(M) \in Nat /\ Len(M) <= Len(N)
        /\ \A i \in 1..Len(M) : M[i].k = N[i].k
        /\ \A i \in 1..Len(M) : M[i].k # "execute" => M[i] = N[i]
    BY <1>1, <1>2, <1>3, <2>1 DEF n
  <2> QED BY <2>2, <2>3, <2>4, LimitedKept
<1> QED BY <1>4, <1>6, <1>7, <1>8, <1>9, <1>10 DEF Layout

\* What an entry that goes takes from the counters.
LEMMA PopCounts ==
  ASSUME NEW N \in Seq(NativeEntries), N # <<>>
  PROVE  /\ Last(N).k \in Raising => Count(Pop(N), Raising) = Count(N, Raising) - 1
         /\ Last(N).k \notin Raising => Count(Pop(N), Raising) = Count(N, Raising)
         /\ Last(N).k \in Calling => Count(Pop(N), Calling) = Count(N, Calling) - 1
         /\ Last(N).k \notin Calling => Count(Pop(N), Calling) = Count(N, Calling)
         /\ Count(Pop(N), Raising) \in Nat /\ Count(Pop(N), Calling) \in Nat
<1>1. Pop(N) \in Seq(NativeEntries)
  BY PopIs
<1>2. Count(Pop(N), Raising) \in Nat /\ Count(Pop(N), Calling) \in Nat
  BY <1>1, CountIs
<1>3. Count(N, Raising) = Count(Pop(N), Raising) + IF Last(N).k \in Raising THEN 1 ELSE 0
  BY CountPop
<1>4. Count(N, Calling) = Count(Pop(N), Calling) + IF Last(N).k \in Calling THEN 1 ELSE 0
  BY CountPop
<1> QED BY <1>2, <1>3, <1>4

\* What an entry that comes adds to the counters.
LEMMA PushCounts ==
  ASSUME NEW N \in Seq(NativeEntries), NEW e \in NativeEntries
  PROVE  /\ e.k \in Raising => Count(Append(N, e), Raising) = Count(N, Raising) + 1
         /\ e.k \notin Raising => Count(Append(N, e), Raising) = Count(N, Raising)
         /\ e.k \in Calling => Count(Append(N, e), Calling) = Count(N, Calling) + 1
         /\ e.k \notin Calling => Count(Append(N, e), Calling) = Count(N, Calling)
<1>1. Count(N, Raising) \in Nat /\ Count(N, Calling) \in Nat
  BY CountIs
<1>2. Count(Append(N, e), Raising) = Count(N, Raising) + IF e.k \in Raising THEN 1 ELSE 0
  BY CountPush
<1>3. Count(Append(N, e), Calling) = Count(N, Calling) + IF e.k \in Calling THEN 1 ELSE 0
  BY CountPush
<1> QED BY <1>1, <1>2, <1>3

\* Return keeps the invariant.
LEMMA ReturnStep ==
  ASSUME IInv, Return
  PROVE  IInv'
<1> DEFINE n == Len(native)
           e == native[Len(native)]
           wanted == Last(frames).wanted
<1>1. /\ Running /\ frames' = Pop(frames)
      /\ UNCHANGED <<nCcalls, callDepth, ciOverflow, coroutine>>
  BY DEF Return
<1>2. /\ mode = "run" /\ native \in Seq(NativeEntries) /\ frames \in Seq(Frames)
      /\ Layout(frames, native, "run", top, ciOverflow)
      /\ native # <<>> /\ frames # <<>>
      /\ n \in Nat /\ n >= 1 /\ e \in NativeEntries /\ Last(native) = e
      /\ e.k = "execute" /\ e.ci \in Nat /\ e.n \in Nat /\ e.n >= 1
      /\ e.ci + e.n = Len(frames) /\ Len(frames) \in Nat /\ From(e) = e.ci
      /\ Last(frames) \in Frames
      /\ \A f \in e.ci + 1 .. Len(frames) : frames[f].fn = "lua" /\ Idle(frames[f])
  BY <1>1, RunningIs
<1>3. wanted \in {"fixed", "all"}
  BY <1>2 DEF Frames
<1>4. IF e.n - 1 > 0
      THEN /\ native' = Replace(native, [e EXCEPT !.n = e.n - 1])
           /\ top' = Restored(wanted) /\ mode' = "run"
      ELSE /\ native' = Pop(native) /\ top' = Results(wanted) /\ mode' = "done"
  BY <1>2 DEF Return
<1>5. Restored(wanted) \in {"full", "open"} /\ Results(wanted) \in {"short", "open"}
  BY <1>3 DEF Restored, Results
<1> HIDE DEF n, e, wanted
<1>6. /\ frames' \in Seq(Frames) /\ Len(frames') = Len(frames) - 1
      /\ \A f \in 1..Len(frames) - 1 : frames'[f] = frames[f]
  BY <1>1, <1>2, PopIs
<1>7. e.ci <= Len(frames) - 1
  BY <1>2
<1>8. Shared(frames, frames', e.ci)
  BY <1>2, <1>6, <1>7 DEF Shared
<1>9. Stacked(native)
  BY <1>2 DEF Layout
<1>10. CASE e.n - 1 > 0
  <2> DEFINE d == [e EXCEPT !.n = e.n - 1]
  <2>1. d \in NativeEntries /\ d.k = e.k /\ d.ci = e.ci /\ d.n = e.n - 1
    <3>1. e \in NativeEntries /\ e.n - 1 \in Nat
      BY <1>2, <1>10
    <3> QED BY <3>1, EntryCounts
  <2>2. native' = Replace(native, d) /\ top' = Restored(wanted) /\ mode' = "run"
    BY <1>4, <1>10
  <2> HIDE DEF d
  <2>3. /\ native' \in Seq(NativeEntries) /\ Len(native') = n
        /\ native'[n] = d /\ \A i \in 1..n - 1 : native'[i] = native[i]
    <3>1. /\ Replace(native, d) \in Seq(NativeEntries) /\ Len(Replace(native, d)) = Len(native)
          /\ Replace(native, d)[Len(native)] = d
          /\ \A i \in 1..Len(native) - 1 : Replace(native, d)[i] = native[i]
      BY <1>2, <2>1, ReplaceIs
    <3> QED BY <2>2, <3>1 DEF n
  <2>4. Layout(frames', native', "run", top', ciOverflow)
    <3>1. Stacked(native')
      <4>1. From(d) = From(e)
        BY <1>2, <2>1 DEF From, Catching
      <4> QED BY <1>2, <1>9, <2>1, <2>2, <4>1, StackedReplace
    <3>2. \A f \in e.ci + 1 .. Len(frames') : frames'[f].fn = "lua" /\ Idle(frames'[f])
      <4> SUFFICES ASSUME NEW f \in e.ci + 1 .. Len(frames')
                   PROVE  frames'[f].fn = "lua" /\ Idle(frames'[f])
        OBVIOUS
      <4>1. f \in 1..Len(frames) - 1 /\ f \in e.ci + 1 .. Len(frames)
        BY <1>2, <1>6
      <4> QED BY <1>2, <1>6, <4>1
    <3>3. d.n >= 1 /\ d.ci + d.n = Len(frames')
      <4>1. d.ci = e.ci /\ d.n = e.n - 1 /\ Len(frames') = e.ci + e.n - 1
            /\ e.ci \in Nat /\ e.n \in Nat /\ e.n - 1 > 0
        BY <1>2, <1>6, <1>10, <2>1
      <4>2. \A c, k \in Nat : k - 1 > 0 => k - 1 >= 1 /\ c + (k - 1) = c + k - 1
        OBVIOUS
      <4> QED BY <4>1, <4>2
    <3>4. native'[n].k = "execute" /\ native'[n].ci = e.ci /\ native'[n].n >= 1
          /\ native'[n].ci + native'[n].n = Len(frames')
      BY <1>2, <2>1, <2>3, <3>3
    <3>5. top' # "short"
      BY <1>5, <2>2
    <3> QED BY <1>2, <1>6, <1>8, <2>3, <3>1, <3>2, <3>4, <3>5, GoesOn DEF n, e
  <2>5. TypeOK'
    BY <1>1, <1>5, <1>6, <2>2, <2>3 DEF IInv, TypeOK, Modes
  <2>6. Counted'
    <3>1. \A K : Count(native', K) = Count(native, K)
      BY <1>2, <2>1, <2>2, CountReplace, CountPop
    <3> QED BY <1>1, <3>1 DEF IInv, Counted
  <2> QED BY <1>1, <2>2, <2>4, <2>5, <2>6 DEF IInv
<1>11. CASE ~(e.n - 1 > 0)
  <2>1. native' = Pop(native) /\ top' = Results(wanted) /\ mode' = "done"
    BY <1>4, <1>11
  <2>2. /\ native' \in Seq(NativeEntries) /\ Len(native') = n - 1
        /\ \A i \in 1..n - 1 : native'[i] = native[i]
    BY <1>2, <2>1, PopIs DEF n
  <2>3. Len(frames') = e.ci
    BY <1>2, <1>6, <1>11
  <2>4. Stacked(native')
    BY <1>2, <1>9, <2>1, StackedPop
  <2>5. Layout(frames', native', "done", top', ciOverflow)
    BY <1>2, <1>6, <1>8, <2>2, <2>3, <2>4, Left DEF n, e
  <2>6. TypeOK'
    BY <1>1, <1>5, <1>6, <2>1, <2>2 DEF IInv, TypeOK, Modes
  <2>7. Counted'
    <3>1. Last(native).k \notin Raising /\ Last(native).k \notin Calling
      BY <1>2 DEF Raising, Calling
    <3>2. Count(native', Raising) = Count(native, Raising)
          /\ Count(native', Calling) = Count(native, Calling)
      BY <1>2, <2>1, <3>1, PopCounts
    <3> QED BY <1>1, <3>2 DEF IInv, Counted
  <2> QED BY <1>1, <2>1, <2>5, <2>6, <2>7 DEF IInv
<1> QED BY <1>10, <1>11

-----------------------------------------------------------------------------
(***************************************************************************)
(* An entry is pushed on the frames that are there: an operator, the call  *)
(* made by a function that catches, on its frame, or an execute() on that  *)
(* of the callee.                                                          *)
(***************************************************************************)
LEMMA Reach ==
  ASSUME NEW F \in Seq(Frames), NEW e \in NativeEntries, Stands(F, e)
  PROVE  /\ UpTo(e) \in Nat /\ From(e) \in Int /\ From(e) <= UpTo(e)
         /\ UpTo(e) <= Len(F) /\ Len(F) \in Nat
<1>1. UpTo(e) \in Nat /\ From(e) \in Int /\ From(e) <= UpTo(e) /\ Len(F) \in Nat
      /\ e.k \in Catching \union Operators \union {"execute"}
  BY EntryShape
<1>2. UpTo(e) <= Len(F)
  BY <1>1 DEF Stands, UpTo, Catching, Operators
<1> QED BY <1>1, <1>2

\* An entry that is pushed for a call keeps the layout.
LEMMA Pushed ==
  ASSUME NEW F \in Seq(Frames), NEW N \in Seq(NativeEntries), NEW m \in {"run", "enter"},
         NEW t, NEW over, Layout(F, N, m, t, over),
         NEW G \in Seq(Frames), NEW e \in NativeEntries, NEW l, NEW u,
         From(e) = Len(F), UpTo(e) = Len(G), Len(F) <= Len(G), Stands(G, e), e.first,
         \A f \in 1..Len(F) : /\ G[f].fn = F[f].fn /\ G[f].cut = F[f].cut
                              /\ f < Len(F) \/ e.k \notin Operators => G[f] = F[f],
         \A f \in Len(F) + 1 .. Len(G) : e.k \in Catching \/ G[f].fn = "lua",
         e.k = "execute" => Rests(G, e, FALSE),
         e.k \in Operators => m = "run",
         IF e.k = "execute" THEN m = "enter" /\ l = "run" /\ u = "full" ELSE l = "enter",
         e.k # "handler",
         e.k \in Catching /\ e.ci >= MaxCalls => \E i \in 1..Len(N) : N[i].k = "handler"
  PROVE  Layout(G, Append(N, e), l, u, over)
<1> DEFINE n == Len(N)
           M == Append(N, e)
           d == N[Len(N)]
<1>1. n \in Nat /\ n >= 1 /\ N # <<>> /\ n \in 1..Len(N) /\ d = N[n] /\ Len(F) \in Nat
  BY DEF Layout, Placed
<1>2. /\ M \in Seq(NativeEntries) /\ Len(M) = n + 1 /\ M[n + 1] = e
      /\ \A i \in 1..n : M[i] = N[i]
  BY PushIs
<1>3. d \in NativeEntries /\ Last(N) = d
  BY <1>1 DEF Last
<1> HIDE DEF n, M, d
<1>4. Stacked(N) /\ Standing(F, N) /\ Waiting(F, N, m) /\ Limited(N, m, over)
  BY DEF Layout
<1>5. Stands(F, d) /\ Rests(F, d, Busy(N, m, n)) /\ ~Busy(N, m, n)
  BY <1>1, <1>4 DEF Standing, Waiting, Busy, n
<1>6. /\ UpTo(d) \in Nat /\ From(d) \in Int /\ From(d) <= UpTo(d) /\ UpTo(d) <= Len(F)
  BY <1>3, <1>5, Reach
<1>7. /\ d.k = "execute" <=> m = "run"
      /\ d.k # "handler" => UpTo(d) = Len(F)
  BY <1>1 DEF Layout, Placed, n, d
<1>8. Stacked(M)
  <2>1. Follows(d, e)
    BY <1>6, <1>7 DEF Follows, Operators
  <2> QED BY <1>1, <1>3, <1>4, <2>1, StackedPush DEF M
<1>9. Standing(G, M)
  <2>1. \A i \in 1..n : Stands(G, N[i])
    <3> TAKE i \in 1..n
    <3>1. N[i] \in NativeEntries /\ Stands(F, N[i])
      BY <1>4 DEF Standing, n
    <3>2. UpTo(N[i]) \in Nat /\ UpTo(N[i]) <= Len(F)
      BY <3>1, Reach
    <3>3. \A f \in 1..UpTo(N[i]) : f <= Len(G) /\ G[f].fn = F[f].fn /\ G[f].cut = F[f].cut
      BY <1>1, <3>2
    <3> QED BY <3>1, <3>3, StandsSame
  <2> QED BY <1>1, <1>2, <2>1 DEF Standing
<1>10. Placed(G, M, l)
  BY <1>1, <1>2 DEF Placed
<1>11. Waiting(G, M, l)
  <2>1. Shared(F, G, From(d))
    <3>1. CASE e.k \in Operators
      <4>1. From(d) <= Len(F) - 1
        <5>1. d.k = "execute" /\ d.n >= 1 /\ d.ci \in Nat /\ d.n \in Nat
          BY <1>3, <1>5, <1>7, <3>1, EntryShape DEF Stands
        <5>2. From(d) = d.ci /\ UpTo(d) = d.ci + d.n
          BY <5>1 DEF From, UpTo, Catching
        <5> QED BY <1>1, <1>6, <5>1, <5>2
      <4> QED BY <1>1, <1>6, <4>1 DEF Shared
    <3>2. CASE e.k \notin Operators
      BY <1>1, <1>6, <3>2 DEF Shared
    <3> QED BY <3>1, <3>2
  <2>2. Rests(G, d, e.k \in Operators)
    <3>1. CASE e.k \in Operators
      <4>1. d.k = "execute" /\ UpTo(d) = d.ci + d.n /\ d.ci \in Nat /\ d.n \in Nat
        BY <1>3, <1>7, <3>1, EntryShape DEF UpTo
      <4>2. \A f \in d.ci + 1 .. d.ci + d.n : Idle(F[f])
        BY <1>5, <4>1 DEF Rests
      <4>3. UpTo(d) = Len(F)
        BY <1>7, <4>1
      <4>4. \A f \in d.ci + 1 .. d.ci + d.n : f = d.ci + d.n \/ Idle(G[f])
        BY <1>1, <4>1, <4>2, <4>3
      <4> QED BY <3>1, <4>4 DEF Rests
    <3>2. CASE e.k \notin Operators
      <4>1. Shared(F, G, UpTo(d))
        BY <1>1, <1>6, <3>2 DEF Shared
      <4>2. Rests(F, d, FALSE)
        BY <1>5 DEF Rests
      <4>3. Rests(G, d, FALSE)
        <5>1. d \in NativeEntries /\ UpTo(d) \in Int /\ UpTo(d) <= UpTo(d)
          BY <1>3, <1>6
        <5> QED BY <4>1, <4>2, <5>1, RestsKept, Zenon
      <4> QED BY <4>3 DEF Rests
    <3> QED BY <3>1, <3>2
  <2>3. Rests(G, M[n], Busy(M, l, n))
    BY <1>1, <1>2, <2>2 DEF Busy, n, d
  <2>4. Rests(G, M[n + 1], Busy(M, l, n + 1))
    BY <1>2 DEF Rests
  <2>5. \A i \in 1..Len(M) : i >= n \/ i = Len(M) => Rests(G, M[i], Busy(M, l, i))
    BY <1>1, <1>2, <2>3, <2>4
  <2>6. /\ Len(M) \in Nat /\ Shared(F, G, From(N[n])) /\ \A i \in 1..n - 1 : M[i] = N[i]
        /\ M[n].k \in Operators <=> N[n].k \in Operators
    BY <1>1, <1>2, <2>1
  <2> QED BY <1>1, <1>4, <2>5, <2>6, WaitingAfter
<1>12. Foreign(G, M, l)
  <2> SUFFICES ASSUME NEW f \in 1..Len(G), G[f].fn # "lua"
               PROVE  \E i \in 1..Len(M) : M[i].k \in Catching /\ M[i].ci <= f
    BY DEF Foreign
  <2>1. CASE f <= Len(F)
    <3>1. F[f].fn # "lua" /\ f \in 1..Len(F)
      BY <2>1
    <3>2. PICK i \in 1..Len(N) : N[i].k \in Catching /\ N[i].ci <= f
      BY <3>1 DEF Layout, Foreign
    <3>3. i \in 1..Len(M) /\ M[i] = N[i]
      BY <1>1, <1>2 DEF n
    <3> QED BY <3>2, <3>3
  <2>2. CASE f > Len(F)
    <3>1. e.k \in Catching
      BY <1>1, <2>2
    <3>2. e.ci = Len(F) + 1
      <4>1. e.ci \in Nat /\ e.ci - 1 = Len(F)
        BY <3>1, EntryShape DEF From
      <4> QED BY <1>1, <4>1
    <3>3. n + 1 \in 1..Len(M) /\ M[n + 1].k \in Catching /\ M[n + 1].ci <= f
      BY <1>1, <1>2, <2>2, <3>1, <3>2
    <3> QED BY <3>3
  <2> QED BY <1>1, <2>1, <2>2
<1>13. Resumed(G, M, l, u)
  <2>1. N[1].ci \in Nat /\ N[1].ci <= Len(F)
    <3>1. N[1].ci \in Nat /\ N[1].ci <= From(d)
      BY <1>1, <1>4, FirstLowest DEF n, d
    <3> QED BY <1>1, <1>6, <3>1
  <2>2. \A f \in 1..N[1].ci : F[f].cut
    BY <1>1, <2>1 DEF Layout, Resumed, n
  <2>3. \A f \in 1..N[1].ci : G[f].cut
    BY <1>1, <2>1, <2>2
  <2>4. M[1] = N[1] /\ Len(M) > 0
    BY <1>1, <1>2
  <2>5. l = "run" => u # "short"
    OBVIOUS
  <2> QED BY <2>3, <2>4, <2>5 DEF Resumed
<1>14. Limited(M, l, over)
  <2>1. over => \E i \in 1..Len(N) : N[i].k = "handler"
    BY <1>4 DEF Limited
  <2>2. over => \E i \in 1..Len(M) : M[i].k = "handler"
    BY <1>1, <1>2, <2>1 DEF n
  <2>3. ASSUME NEW i \in 1..Len(M), M[i].k \in Catching, M[i].ci >= MaxCalls
        PROVE  \E j \in 1..Len(M) : j < i /\ M[j].k = "handler"
    <3>1. PICK j \in 1..Len(N) : j < i /\ N[j].k = "handler"
      <4>1. CASE i = n + 1
        BY <1>1, <1>2, <2>3, <4>1 DEF n
      <4>2. CASE i < n + 1
        <5>1. i \in 1..Len(N) /\ M[i] = N[i]
          BY <1>1, <1>2, <4>2 DEF n
        <5> QED BY <1>4, <2>3, <5>1 DEF Limited
      <4> QED BY <1>1, <1>2, <4>1, <4>2
    <3>2. j \in 1..Len(M) /\ M[j] = N[j]
      BY <1>1, <1>2 DEF n
    <3> QED BY <3>1, <3>2
  <2>4. \A i \in 1..Len(M) : M[i].k = "load" => M[i].first
    <3>1. \A i \in 1..Len(N) : N[i].k = "load" => N[i].first
      BY <1>4 DEF Limited
    <3>2. \A i \in 1..Len(M) : i = n + 1 \/ i \in 1..Len(N)
      BY <1>1, <1>2 DEF n
    <3> QED BY <1>2, <3>1, <3>2 DEF n
  <2>5. l \notin {"yield", "suspended"}
    OBVIOUS
  <2> QED BY <2>2, <2>3, <2>4, <2>5 DEF Limited
<1> QED BY <1>8, <1>9, <1>10, <1>11, <1>12, <1>13, <1>14 DEF Layout, M

\* An entry just made is one, with what it was given.
LEMMA EntryIs ==
  ASSUME TypeOK, NEW k \in Calling \union {"execute"}, NEW n \in Nat, NEW c \in Nat
  PROVE  /\ Entry(k, n, c) \in NativeEntries /\ Entry(k, n, c).k = k
         /\ Entry(k, n, c).n = n /\ Entry(k, n, c).ci = c /\ Entry(k, n, c).first
         /\ k \in Operators => Entry(k, n, c).top = top
  BY DEF TypeOK, Entry, NativeEntries

(***************************************************************************)
(* The counters count the entry that is pushed.                            *)
(***************************************************************************)
LEMMA EnterCounts ==
  ASSUME IInv, NEW e \in NativeEntries, e.k \in Calling, Enter(e)
  PROVE  Counted' /\ nCcalls' \in Nat /\ callDepth' \in Nat
<1>1. native \in Seq(NativeEntries) /\ nCcalls \in Nat /\ callDepth \in Nat
      /\ nCcalls = Count(native, Raising) /\ callDepth = Count(native, Calling)
  BY DEF IInv, TypeOK, Counted
<1>2. /\ e.k \in Raising => Count(Append(native, e), Raising) = nCcalls + 1
      /\ e.k \notin Raising => Count(Append(native, e), Raising) = nCcalls
      /\ Count(Append(native, e), Calling) = callDepth + 1
  BY <1>1, PushCounts
<1>3. native' = Append(native, e)
      /\ nCcalls' = (IF e.k \in Raising THEN nCcalls + 1 ELSE nCcalls)
      /\ callDepth' = callDepth + 1
  BY DEF Enter
<1>4. nCcalls' = Count(native', Raising) /\ callDepth' = Count(native', Calling)
  BY <1>2, <1>3
<1> QED BY <1>1, <1>3, <1>4 DEF Counted

\* A frame that waits is a frame.
LEMMA WaitsIs ==
  ASSUME NEW x \in Frames, NEW op \in {"none"} \union Operators
  PROVE  LET y == [x EXCEPT !.waits = op]
         IN  y \in Frames /\ y.fn = x.fn /\ y.cut = x.cut /\ y.waits = op
                          /\ y.wanted = x.wanted
  BY DEF Frames

\* Operate keeps the invariant.
LEMMA OperateStep ==
  ASSUME IInv, NEW op \in Operators, Operate(op)
  PROVE  IInv'
<1> DEFINE x == [Last(frames) EXCEPT !.waits = op]
           e == Entry(op, 0, Len(frames))
<1>1. /\ Running /\ top # "open" /\ frames' = Replace(frames, x) /\ Enter(e)
      /\ UNCHANGED <<top, ciOverflow, coroutine>>
  BY DEF Operate
<1>2. /\ mode = "run" /\ native \in Seq(NativeEntries) /\ frames \in Seq(Frames)
      /\ Layout(frames, native, "run", top, ciOverflow)
      /\ frames # <<>> /\ Len(frames) \in Nat /\ Len(frames) >= 1
      /\ Last(frames) = frames[Len(frames)] /\ Last(frames) \in Frames
  BY <1>1, RunningIs
<1>3. x \in Frames /\ x.fn = Last(frames).fn /\ x.cut = Last(frames).cut
  BY <1>2, WaitsIs
<1>4. /\ e \in NativeEntries /\ e.k = op /\ e.n = 0 /\ e.ci = Len(frames) /\ e.first
      /\ e.top = top
  BY <1>2, EntryIs DEF IInv, Calling, Operators, Raising
<1> HIDE DEF x, e
<1>5. /\ frames' \in Seq(Frames) /\ Len(frames') = Len(frames)
      /\ frames'[Len(frames)] = x
      /\ \A f \in 1..Len(frames) - 1 : frames'[f] = frames[f]
  <2>1. /\ Replace(frames, x) \in Seq(Frames) /\ Len(Replace(frames, x)) = Len(frames)
        /\ Replace(frames, x)[Len(frames)] = x
        /\ \A f \in 1..Len(frames) - 1 : Replace(frames, x)[f] = frames[f]
    <3>1. frames \in Seq(Frames) /\ frames # <<>> /\ x \in Frames
      BY <1>2, <1>3
    <3> QED BY <3>1, ReplaceIs
  <2> QED BY <1>1, <2>1
<1>6. native' = Append(native, e) /\ mode' = "enter" /\ top' = top
      /\ ciOverflow' = ciOverflow
  BY <1>1 DEF Enter
<1>7. e.k \in Operators /\ e.k \notin Catching /\ e.k # "execute" /\ e.k # "handler"
      /\ e.k \in Calling
  BY <1>4 DEF Operators, Catching, Calling, Raising
<1>8. From(e) = Len(frames) /\ UpTo(e) = Len(frames')
  BY <1>4, <1>5, <1>7 DEF From, UpTo
<1>9. \A f \in 1..Len(frames) :
        /\ frames'[f].fn = frames[f].fn /\ frames'[f].cut = frames[f].cut
        /\ f < Len(frames) \/ e.k \notin Operators => frames'[f] = frames[f]
  <2> TAKE f \in 1..Len(frames)
  <2>1. CASE f = Len(frames)
    BY <1>2, <1>3, <1>5, <1>7, <2>1
  <2>2. CASE f < Len(frames)
    <3>1. f \in 1..Len(frames) - 1
      BY <1>2, <2>2
    <3> QED BY <1>5, <3>1
  <2> QED BY <1>2, <2>1, <2>2
<1>10. Stands(frames', e)
  <2>1. top = "short" => Last(frames).cut
    BY <1>2 DEF Layout, Resumed
  <2>2. e.ci \in 1..Len(frames') /\ frames'[e.ci].cut = Last(frames).cut
    BY <1>2, <1>3, <1>4, <1>5
  <2> QED BY <1>1, <1>4, <1>7, <2>1, <2>2 DEF Stands
<1>11. Layout(frames', native', "enter", top, ciOverflow)
  <2>1. \A f \in Len(frames) + 1 .. Len(frames') : e.k \in Catching \/ frames'[f].fn = "lua"
    BY <1>2, <1>5
  <2>2. /\ native \in Seq(NativeEntries) /\ frames \in Seq(Frames) /\ frames' \in Seq(Frames)
        /\ Layout(frames, native, "run", top, ciOverflow)
        /\ e \in NativeEntries /\ Len(frames) <= Len(frames') /\ e.first
        /\ e.k # "execute" /\ e.k \notin Catching /\ e.k # "handler"
    BY <1>2, <1>4, <1>5, <1>7
  <2>3. Layout(frames', Append(native, e), "enter", top, ciOverflow)
    BY <1>8, <1>9, <1>10, <2>1, <2>2, Pushed
  <2> QED BY <1>6, <2>3
<1>12. Counted' /\ nCcalls' \in Nat /\ callDepth' \in Nat
  BY <1>1, <1>4, <1>7, EnterCounts
<1>13. TypeOK'
  <2>1. native' \in Seq(NativeEntries)
    BY <1>2, <1>4, <1>6
  <2> QED BY <1>1, <1>5, <1>6, <1>12, <2>1 DEF IInv, TypeOK, Modes
<1> QED BY <1>6, <1>11, <1>12, <1>13 DEF IInv

(***************************************************************************)
(* A frame above the limit is for a handler.                               *)
(***************************************************************************)
LEMMA Room ==
  ASSUME IInv, mode \in {"run", "enter"}, ~TooManyFrames, Len(frames) + 1 >= MaxCalls
  PROVE  \E i \in 1..Len(native) : native[i].k = "handler"
<1>1. ciOverflow
  BY DEF TooManyFrames
<1> QED BY <1>1 DEF IInv, Layout, Limited

(***************************************************************************)
(* The call of yield, with its frame on top.                               *)
(***************************************************************************)
LEMMA Yielded ==
  ASSUME NEW F \in Seq(Frames), NEW N \in Seq(NativeEntries), NEW m \in {"run", "enter"},
         NEW t, NEW over, Layout(F, N, m, t, over),
         NEW G \in Seq(Frames), Len(G) = Len(F) + 1, \A f \in 1..Len(F) : G[f] = F[f],
         NEW l \in {"yield", "error"},
         l = "yield" => \A i \in 1..Len(N) : N[i].k \notin Raising
  PROVE  Layout(G, N, l, t, over)
<1>1. Len(F) \in Nat /\ Len(N) \in Nat /\ Len(N) >= 1
  BY DEF Layout, Placed
<1>2. Stacked(N) /\ Standing(F, N) /\ Waiting(F, N, m) /\ Limited(N, m, over)
  BY DEF Layout
<1>3. \A i \in 1..Len(N) : N[i] \in NativeEntries /\ UpTo(N[i]) \in Nat /\ UpTo(N[i]) <= Len(F)
  <2> TAKE i \in 1..Len(N)
  <2>1. N[i] \in NativeEntries /\ Stands(F, N[i])
    BY <1>2 DEF Standing
  <2> QED BY <2>1, Reach
<1>4. Shared(F, G, Len(F))
  BY <1>1 DEF Shared
<1>5. Standing(G, N)
  <2> SUFFICES ASSUME NEW i \in 1..Len(N) PROVE Stands(G, N[i])
    BY DEF Standing
  <2>1. Stands(F, N[i]) /\ N[i] \in NativeEntries /\ UpTo(N[i]) <= Len(F) /\ Len(F) \in Int
    BY <1>1, <1>2, <1>3 DEF Standing
  <2> QED BY <1>4, <2>1, StandsKept
<1>6. Placed(G, N, l)
  BY <1>1 DEF Placed
<1>7. Waiting(G, N, l)
  <2> SUFFICES ASSUME NEW i \in 1..Len(N) PROVE Rests(G, N[i], Busy(N, l, i))
    BY DEF Waiting
  <2>1. Rests(F, N[i], Busy(N, m, i)) /\ N[i].ci \in Nat /\ N[i].n \in Nat
    BY <1>2, <1>3, EntryShape DEF Waiting
  <2>2. Busy(N, m, i) => Busy(N, l, i)
    BY DEF Busy
  <2>3. N[i].k = "execute" => N[i].ci + N[i].n <= Len(F)
    BY <1>3 DEF UpTo
  <2> QED BY <1>1, <2>1, <2>2, <2>3 DEF Rests
<1>8. Foreign(G, N, l)
  <2> SUFFICES ASSUME NEW f \in 1..Len(G), G[f].fn # "lua"
               PROVE  \/ \E i \in 1..Len(N) : N[i].k \in Catching /\ N[i].ci <= f
                      \/ f = Len(G)
    <3>1. \A f \in 1..Len(G) : f = Len(G) => f > UpTo(N[Len(N)])
      BY <1>1, <1>3
    <3> QED BY <3>1 DEF Foreign
  <2>1. CASE f \in 1..Len(F)
    BY <2>1 DEF Layout, Foreign
  <2> QED BY <1>1, <2>1
<1>9. Resumed(G, N, l, t)
  <2>1. N[1].ci \in Nat /\ N[1].ci <= Len(F)
    <3>1. N[1] \in NativeEntries /\ N[1].k = "execute" /\ UpTo(N[1]) <= Len(F)
      BY <1>1, <1>2, <1>3 DEF Stacked
    <3>2. N[1].ci \in Nat /\ N[1].n \in Nat /\ UpTo(N[1]) = N[1].ci + N[1].n
      BY <3>1, EntryShape DEF UpTo
    <3> QED BY <1>1, <3>1, <3>2
  <2>2. \A f \in 1..N[1].ci : F[f].cut
    BY <1>1, <2>1 DEF Layout, Resumed
  <2>3. \A f \in 1..N[1].ci : G[f].cut
    BY <1>1, <2>1, <2>2
  <2> QED BY <1>1, <2>3 DEF Resumed
<1>10. Limited(N, l, over)
  <2>1. over => \E i \in 1..Len(N) : N[i].k = "handler"
    BY <1>2 DEF Limited
  <2>2. \A i \in 1..Len(N) : N[i].k = "load" => N[i].first
    BY <1>2 DEF Limited
  <2> QED BY <1>2, <2>1, <2>2 DEF Limited
<1> QED BY <1>2, <1>5, <1>6, <1>7, <1>8, <1>9, <1>10 DEF Layout

\* StartRust keeps the invariant.
LEMMA StartRustStep ==
  ASSUME IInv, mode \in {"run", "enter"}, ~TooManyFrames,
         NEW fn \in RustFunctions, NEW wanted \in {"fixed", "all"}, StartRust(fn, wanted)
  PROVE  IInv'
<1> DEFINE x == Frame(fn, wanted)
           e == Entry(fn, 0, Len(frames) + 1)
<1>1. frames' = Append(frames, x) /\ UNCHANGED <<top, ciOverflow, coroutine>>
  BY DEF StartRust
<1>2. native \in Seq(NativeEntries) /\ frames \in Seq(Frames) /\ Len(frames) \in Nat
      /\ Layout(frames, native, mode, top, ciOverflow)
  BY DEF IInv, TypeOK
<1>3. x \in Frames /\ x.fn = fn
  BY NewFrame
<1> HIDE DEF x
<1>4. /\ frames' \in Seq(Frames) /\ Len(frames') = Len(frames) + 1
      /\ frames'[Len(frames) + 1] = x /\ \A f \in 1..Len(frames) : frames'[f] = frames[f]
  BY <1>1, <1>2, <1>3, PushIs
<1>5. CASE fn = "yield"
  <2>1. mode' = (IF MayYield THEN "yield" ELSE "error")
        /\ UNCHANGED <<native, nCcalls, callDepth>>
    BY <1>5 DEF StartRust
  <2>2. mode' = "yield" => \A i \in 1..Len(native) : native[i].k \notin Raising
    <3>1. mode' = "yield" => Count(native, Raising) = 0
      BY <2>1 DEF MayYield, IInv, Counted
    <3>2. Count(native, Raising) > 0 <=> \E i \in DOMAIN native : native[i].k \in Raising
      BY <1>2, CountIs
    <3> QED BY <1>2, <3>1, <3>2
  <2>3. mode' \in {"yield", "error"}
    BY <2>1
  <2>4. Layout(frames', native, mode', top, ciOverflow)
    BY <1>2, <1>4, <2>2, <2>3, Yielded
  <2>5. TypeOK' /\ Counted'
    BY <1>1, <1>4, <2>1, <2>3 DEF IInv, TypeOK, Counted, Modes
  <2> QED BY <1>1, <2>1, <2>4, <2>5 DEF IInv
<1>6. CASE fn # "yield"
  <2>1. Enter(e)
    BY <1>6 DEF StartRust
  <2>2. fn \in {"pcall", "xpcall", "load"}
    BY <1>6 DEF RustFunctions
  <2>3. /\ e \in NativeEntries /\ e.k = fn /\ e.n = 0 /\ e.ci = Len(frames) + 1 /\ e.first
    BY <1>2, <2>2, EntryIs DEF IInv, Calling, Raising
  <2> HIDE DEF e
  <2>4. e.k \in Catching /\ e.k \notin Operators /\ e.k # "execute" /\ e.k # "handler"
        /\ e.k \in Calling
    BY <2>2, <2>3 DEF Catching, Operators, Calling, Raising
  <2>5. From(e) = Len(frames) /\ UpTo(e) = Len(frames')
    BY <1>2, <1>4, <2>3, <2>4 DEF From, UpTo
  <2>6. Stands(frames', e)
    <3>1. e.ci \in 1..Len(frames') /\ frames'[e.ci].fn = e.k
      BY <1>2, <1>3, <1>4, <2>3
    <3> QED BY <2>4, <3>1 DEF Stands
  <2>7. e.ci >= MaxCalls => \E i \in 1..Len(native) : native[i].k = "handler"
    BY <2>3, Room
  <2>8. /\ \A f \in 1..Len(frames) :
             /\ frames'[f].fn = frames[f].fn /\ frames'[f].cut = frames[f].cut
             /\ f < Len(frames) \/ e.k \notin Operators => frames'[f] = frames[f]
        /\ \A f \in Len(frames) + 1 .. Len(frames') : e.k \in Catching \/ frames'[f].fn = "lua"
        /\ Len(frames) <= Len(frames')
    BY <1>2, <1>4, <2>4
  <2>9. Layout(frames', Append(native, e), "enter", top, ciOverflow)
    BY <1>2, <1>4, <2>3, <2>4, <2>5, <2>6, <2>7, <2>8, Pushed
  <2>10. native' = Append(native, e) /\ mode' = "enter"
    BY <2>1 DEF Enter
  <2>11. Counted' /\ nCcalls' \in Nat /\ callDepth' \in Nat
    BY <2>1, <2>3, <2>4, EnterCounts
  <2>12. TypeOK'
    <3>1. native' \in Seq(NativeEntries)
      BY <1>2, <2>3, <2>10
    <3> QED BY <1>1, <1>4, <2>10, <2>11, <3>1 DEF IInv, TypeOK, Modes
  <2> QED BY <1>1, <2>9, <2>10, <2>11, <2>12 DEF IInv
<1> QED BY <1>5, <1>6

\* CallRust keeps the invariant.
LEMMA CallRustStep ==
  ASSUME IInv, NEW fn \in RustFunctions, NEW wanted \in {"fixed", "all"},
         CallRust(fn, wanted)
  PROVE  IInv'
<1>1. mode = "run" /\ (FrameOverflow \/ (~TooManyFrames /\ StartRust(fn, wanted)))
  BY DEF CallRust, Running
<1>2. CASE FrameOverflow
  BY <1>1, <1>2, ErrorStep DEF FrameOverflow
<1>3. CASE ~TooManyFrames /\ StartRust(fn, wanted)
  BY <1>1, <1>3, StartRustStep
<1> QED BY <1>1, <1>2, <1>3

\* Call keeps the invariant.
LEMMA CallStep ==
  ASSUME IInv, NEW fn \in {"lua"} \union RustFunctions, Call(fn)
  PROVE  IInv'
<1> DEFINE wanted == WantedBy(Last(native).k)
           x == Frame("lua", wanted)
           e == Entry("execute", 1, Len(frames))
<1>1. mode = "enter"
  BY DEF Call
<1>2. wanted \in {"fixed", "all"}
  BY DEF WantedBy
<1>3. CASE Error /\ UNCHANGED <<ciOverflow, coroutine>>
  <2>1. ciOverflow' \in BOOLEAN
    BY <1>3 DEF IInv, TypeOK
  <2> QED BY <1>1, <1>3, <2>1, ErrorStep
<1>4. CASE FrameOverflow
  BY <1>1, <1>4, ErrorStep DEF FrameOverflow
<1>5. CASE /\ ~TooManyFrames /\ fn = "lua" /\ EnterLua(wanted)
           /\ native' = Append(native, e) /\ mode' = "run"
           /\ UNCHANGED <<nCcalls, callDepth, ciOverflow, coroutine>>
  <2>1. native \in Seq(NativeEntries) /\ frames \in Seq(Frames) /\ Len(frames) \in Nat
        /\ Layout(frames, native, "enter", top, ciOverflow)
    BY <1>1 DEF IInv, TypeOK
  <2>2. x \in Frames /\ x.fn = "lua" /\ Idle(x)
    BY <1>2, NewFrame
  <2>3. e \in NativeEntries /\ e.k = "execute" /\ e.n = 1 /\ e.ci = Len(frames) /\ e.first
    <3>1. TypeOK /\ "execute" \in Calling \union {"execute"} /\ 1 \in Nat /\ Len(frames) \in Nat
      BY <2>1 DEF IInv
    <3> QED BY <3>1, EntryIs
  <2>4. frames' = Append(frames, x) /\ top' = "full"
    BY <1>5 DEF EnterLua
  <2> HIDE DEF x
  <2>5. /\ frames' \in Seq(Frames) /\ Len(frames') = Len(frames) + 1
        /\ frames'[Len(frames) + 1] = x /\ \A f \in 1..Len(frames) : frames'[f] = frames[f]
    BY <2>1, <2>2, <2>4, PushIs
  <2>6. native' = Append(native, e)
    BY <1>5
  <2> HIDE DEF e
  <2>7. e.k \notin Catching /\ e.k \notin Operators /\ e.k # "handler"
        /\ e.k \notin Calling /\ e.k \notin Raising
    BY <2>3 DEF Catching, Operators, Calling, Raising
  <2>8. From(e) = Len(frames) /\ UpTo(e) = Len(frames')
    BY <2>3, <2>5, <2>7 DEF From, UpTo
  <2>9. \A f \in Len(frames) + 1 .. Len(frames') : frames'[f] = x
    BY <2>1, <2>5
  <2>10. Stands(frames', e)
    BY <2>1, <2>2, <2>3, <2>5, <2>7, <2>9 DEF Stands
  <2>11. Rests(frames', e, FALSE)
    BY <2>1, <2>2, <2>3, <2>5, <2>9 DEF Rests
  <2>12. /\ \A f \in 1..Len(frames) :
              /\ frames'[f].fn = frames[f].fn /\ frames'[f].cut = frames[f].cut
              /\ f < Len(frames) \/ e.k \notin Operators => frames'[f] = frames[f]
         /\ \A f \in Len(frames) + 1 .. Len(frames') : e.k \in Catching \/ frames'[f].fn = "lua"
         /\ Len(frames) <= Len(frames')
    BY <2>1, <2>2, <2>5, <2>9
  <2>13. Layout(frames', Append(native, e), "run", "full", ciOverflow)
    BY <2>1, <2>3, <2>5, <2>7, <2>8, <2>10, <2>11, <2>12, Pushed
  <2>14. Counted'
    <3>1. Count(native', Raising) = Count(native, Raising)
          /\ Count(native', Calling) = Count(native, Calling)
      BY <2>1, <2>3, <2>6, <2>7, PushCounts
    <3> QED BY <1>5, <3>1 DEF IInv, Counted
  <2>15. TypeOK'
    <3>1. native' \in Seq(NativeEntries)
      BY <2>1, <2>3, <2>6
    <3> QED BY <1>5, <2>4, <2>5, <3>1 DEF IInv, TypeOK, Modes
  <2> QED BY <1>5, <2>4, <2>6, <2>13, <2>14, <2>15 DEF IInv
<1>6. CASE ~TooManyFrames /\ fn # "lua" /\ StartRust(fn, wanted)
  <2>1. fn \in RustFunctions
    BY <1>6
  <2> HIDE DEF wanted
  <2> QED BY <1>1, <1>2, <1>6, <2>1, StartRustStep
<1> QED BY <1>3, <1>4, <1>5, <1>6 DEF Call

-----------------------------------------------------------------------------
(***************************************************************************)
(* The entry of an operator that ends.                                     *)
(***************************************************************************)
LEMMA SecondLast ==
  ASSUME NEW N \in Seq(NativeEntries), Stacked(N), Len(N) > 0, N[Len(N)].k # "execute"
  PROVE  /\ Len(N) \in Nat /\ Len(N) >= 2 /\ Len(N) - 1 \in 1..Len(N)
         /\ N[Len(N)] \in NativeEntries /\ N[Len(N) - 1] \in NativeEntries
         /\ Follows(N[Len(N) - 1], N[Len(N)])
         /\ UpTo(N[Len(N) - 1]) \in Nat /\ From(N[Len(N)]) \in Int
         /\ UpTo(N[Len(N) - 1]) <= From(N[Len(N)])
<1>1. Len(N) \in Nat /\ Len(N) >= 1 /\ N[1].k = "execute"
  BY DEF Stacked
<1>2. Len(N) # 1
  BY <1>1
<1>3. Len(N) >= 2 /\ Len(N) - 1 \in 1..Len(N) /\ Len(N) \in 1..Len(N) /\ Len(N) \in 2..Len(N)
  <2>1. \A k \in Nat : k >= 1 /\ k # 1
          => k >= 2 /\ k - 1 \in 1..k /\ k \in 1..k /\ k \in 2..k
    OBVIOUS
  <2> QED BY <1>1, <1>2, <2>1
<1>4. N[Len(N)] \in NativeEntries /\ N[Len(N) - 1] \in NativeEntries
  BY <1>3
<1>5. Follows(N[Len(N) - 1], N[Len(N)])
  BY <1>3 DEF Stacked
<1>6. UpTo(N[Len(N) - 1]) \in Nat /\ From(N[Len(N)]) \in Int
  BY <1>4, EntryShape
<1>7. UpTo(N[Len(N) - 1]) <= From(N[Len(N)])
  BY <1>5 DEF Follows
<1> QED BY <1>1, <1>3, <1>4, <1>5, <1>6, <1>7

\* An operator whose call has returned may be popped.
LEMMA Finished ==
  ASSUME NEW F \in Seq(Frames), NEW N \in Seq(NativeEntries), NEW t, NEW over,
         Layout(F, N, "done", t, over), Len(N) > 0, N[Len(N)].k \in Operators,
         NEW G \in Seq(Frames), Len(G) = Len(F), \A f \in 1..Len(F) - 1 : G[f] = F[f],
         G[Len(F)].fn = F[Len(F)].fn, G[Len(F)].cut = F[Len(F)].cut,
         G[Len(F)].waits = "none",
         NEW u, u = "full" \/ u = N[Len(N)].top,
         NEW M \in Seq(NativeEntries), Len(M) = Len(N) - 1, Stacked(M),
         \A i \in 1..Len(M) : M[i] = N[i]
  PROVE  Layout(G, M, "run", u, over)
<1> DEFINE n == Len(N)
           e == N[Len(N)]
           d == N[Len(N) - 1]
<1>1. Stacked(N) /\ Standing(F, N) /\ Waiting(F, N, "done") /\ Limited(N, "done", over)
  BY DEF Layout
<1>2. e.k # "execute" /\ e.k \notin Catching /\ e.k # "handler"
  BY DEF Operators, Catching
<1>3. /\ n \in Nat /\ n >= 2 /\ n - 1 \in 1..Len(N) /\ n \in 1..Len(N)
      /\ e \in NativeEntries /\ d \in NativeEntries /\ Follows(d, e)
      /\ e = N[n] /\ d = N[n - 1]
  BY <1>1, <1>2, SecondLast
<1>4. d.k = "execute" /\ UpTo(d) = From(e) /\ From(e) = e.ci /\ UpTo(e) = e.ci
  <2>1. d.k = "execute"
    BY <1>3 DEF Follows
  <2> QED BY <1>2, <1>3, <2>1 DEF Follows, From, UpTo
<1>5. UpTo(e) = Len(F) /\ Len(F) \in Nat
  BY <1>2 DEF Layout, Placed
<1>6. Stands(F, d) /\ Stands(F, e)
  BY <1>1, <1>3 DEF Standing
<1>7. d.ci \in Nat /\ d.n \in Nat /\ d.n >= 1 /\ UpTo(d) = d.ci + d.n /\ From(d) = d.ci
      /\ d.ci + d.n = Len(F) /\ Len(F) >= 1
  <2>1. d.ci \in Nat /\ d.n \in Nat /\ d.n >= 1 /\ UpTo(d) = d.ci + d.n /\ From(d) = d.ci
    BY <1>3, <1>4, <1>6, EntryShape DEF Stands, UpTo, From, Catching
  <2>2. d.ci + d.n = Len(F)
    BY <1>4, <1>5, <2>1
  <2> QED BY <2>1, <2>2
<1> HIDE DEF n, e, d
<1>8. Len(M) \in Nat /\ Len(M) = n - 1 /\ M[n - 1] = d /\ \A i \in 1..n - 1 : M[i] = N[i]
  BY <1>3 DEF n
<1>9. Standing(G, M)
  <2> SUFFICES ASSUME NEW i \in 1..Len(M) PROVE Stands(G, M[i])
    BY DEF Standing
  <2>1. M[i] \in NativeEntries /\ Stands(F, M[i])
    <3>1. i \in 1..Len(N) /\ M[i] = N[i]
      BY <1>3, <1>8, SMTT(60) DEF n
    <3> QED BY <1>1, <3>1 DEF Standing
  <2>2. UpTo(M[i]) \in Nat /\ UpTo(M[i]) <= Len(F)
    BY <2>1, Reach
  <2>3. \A f \in 1..Len(F) : f <= Len(G) /\ G[f].fn = F[f].fn /\ G[f].cut = F[f].cut
    <3> TAKE f \in 1..Len(F)
    <3>1. f = Len(F) \/ f \in 1..Len(F) - 1
      BY <1>5
    <3> QED BY <3>1
  <2>4. \A f \in 1..UpTo(M[i]) : f <= Len(G) /\ G[f].fn = F[f].fn /\ G[f].cut = F[f].cut
    BY <1>5, <2>2, <2>3
  <2> QED BY <2>1, <2>4, StandsSame
<1>10. Placed(G, M, "run")
  BY <1>3, <1>4, <1>5, <1>7, <1>8 DEF Placed
<1>11. Waiting(G, M, "run")
  <2>1. Shared(F, G, From(d))
    <3>1. d.ci <= Len(F) - 1
      BY <1>7
    <3> QED BY <1>5, <1>7, <3>1 DEF Shared
  <2>2. Rests(G, d, FALSE)
    <3>1. Rests(F, d, Busy(N, "done", n - 1))
      BY <1>1, <1>3 DEF Waiting
    <3>2. \A f \in d.ci + 1 .. d.ci + d.n : f = Len(F) \/ Idle(F[f])
      BY <1>4, <1>7, <3>1 DEF Rests
    <3>3. Idle(G[Len(F)])
      BY DEF Idle
    <3>4. \A f \in d.ci + 1 .. d.ci + d.n : f # Len(F) => G[f] = F[f]
      BY <1>7, SMTT(60)
    <3>5. \A f \in d.ci + 1 .. d.ci + d.n : Idle(G[f])
      BY <3>2, <3>3, <3>4
    <3> QED BY <3>5 DEF Rests
  <2>3. Rests(G, M[n - 1], Busy(M, "run", n - 1))
    BY <1>3, <1>8, <2>2 DEF Rests
  <2>4. /\ n - 1 \in 1..Len(N) /\ Len(M) \in Nat /\ Shared(F, G, From(N[n - 1]))
        /\ \A i \in 1..(n - 1) - 1 : M[i] = N[i]
        /\ M[n - 1].k \in Operators <=> N[n - 1].k \in Operators
    BY <1>3, <1>8, <2>1
  <2>5. \A i \in 1..Len(M) : i >= n - 1 \/ i = Len(M) => Rests(G, M[i], Busy(M, "run", i))
    BY <1>3, <1>8, <2>3
  <2> QED BY <1>1, <2>4, <2>5, WaitingAfter
<1>12. Foreign(G, M, "run")
  <2> SUFFICES ASSUME NEW f \in 1..Len(G), G[f].fn # "lua"
               PROVE  \E i \in 1..Len(M) : M[i].k \in Catching /\ M[i].ci <= f
    BY DEF Foreign
  <2>1. f \in 1..Len(F) /\ F[f].fn # "lua"
    <3>1. f = Len(F) \/ f \in 1..Len(F) - 1
      BY <1>5
    <3> QED BY <3>1
  <2>2. PICK i \in 1..Len(N) : N[i].k \in Catching /\ N[i].ci <= f
    BY <2>1 DEF Layout, Foreign
  <2>3. i # n
    BY <1>2, <1>3, <2>2
  <2>4. i \in 1..Len(M) /\ M[i] = N[i]
    BY <1>3, <1>8, <2>3 DEF n
  <2> QED BY <2>2, <2>4
<1>13. Resumed(G, M, "run", u)
  <2>1. N[1].ci \in Nat /\ N[1].ci <= Len(F)
    <3>1. N[1].ci \in Nat /\ N[1].ci <= From(e)
      BY <1>1, FirstLowest DEF e
    <3> QED BY <1>4, <1>5, <3>1
  <2>2. \A f \in 1..N[1].ci : F[f].cut
    BY <1>5, <2>1 DEF Layout, Resumed
  <2>3. \A f \in 1..N[1].ci : G[f].cut
    <3> TAKE f \in 1..N[1].ci
    <3>1. f = Len(F) \/ f \in 1..Len(F) - 1
      BY <1>5, <2>1
    <3> QED BY <2>2, <3>1
  <2>4. M[1] = N[1]
    BY <1>3, <1>8
  <2>5. u = "short" => G[Len(G)].cut
    BY <1>2, <1>4, <1>5, <1>6 DEF Stands, e
  <2> QED BY <2>3, <2>4, <2>5 DEF Resumed
<1>14. Limited(M, "run", over)
  <2>1. \A i \in 1..Len(M) : M[i] = N[i] /\ i \in 1..Len(N)
    BY <1>3, <1>8 DEF n
  <2>2. \A i \in 1..Len(M) : M[i].k = "load" => M[i].first
    <3>1. \A i \in 1..Len(M) : i # Len(N)
      BY <1>3, <1>8 DEF n
    <3> QED BY <1>1, <2>1, <3>1 DEF Limited
  <2>3. over => \E i \in 1..Len(M) : M[i].k = "handler"
    <3> SUFFICES ASSUME over PROVE \E i \in 1..Len(M) : M[i].k = "handler"
      OBVIOUS
    <3>1. PICK i \in 1..Len(N) : N[i].k = "handler"
      BY <1>1 DEF Limited
    <3>2. i # n
      BY <1>2, <1>3, <3>1
    <3>3. i \in 1..Len(M)
      BY <1>3, <1>8, <3>2 DEF n
    <3> QED BY <2>1, <3>1, <3>3
  <2>4. /\ Len(N) \in Nat /\ Len(M) \in Nat /\ Len(M) <= Len(N)
        /\ \A i \in 1..Len(M) : M[i].k = N[i].k
        /\ \A i \in 1..Len(M) : M[i].k # "execute" => M[i] = N[i]
    BY <1>3, <1>8, <2>1 DEF n
  <2> QED BY <1>1, <2>2, <2>3, <2>4, LimitedKept
<1> QED BY <1>9, <1>10, <1>11, <1>12, <1>13, <1>14 DEF Layout

(***************************************************************************)
(* The counters no longer count an entry that is popped.                   *)
(***************************************************************************)
LEMMA LeaveCounts ==
  ASSUME IInv, native # <<>>, Last(native).k \in Calling, Leave, native' = Pop(native)
  PROVE  Counted' /\ nCcalls' \in Nat /\ callDepth' \in Nat
<1>1. native \in Seq(NativeEntries)
      /\ nCcalls = Count(native, Raising) /\ callDepth = Count(native, Calling)
  BY DEF IInv, TypeOK, Counted
<1>2. /\ Last(native).k \in Raising => Count(Pop(native), Raising) = nCcalls - 1
      /\ Last(native).k \notin Raising => Count(Pop(native), Raising) = nCcalls
      /\ Count(Pop(native), Calling) = callDepth - 1
      /\ Count(Pop(native), Raising) \in Nat /\ Count(Pop(native), Calling) \in Nat
  BY <1>1, PopCounts
<1>3. nCcalls' = (IF Last(native).k \in Raising THEN nCcalls - 1 ELSE nCcalls)
      /\ callDepth' = callDepth - 1
  BY DEF Leave, Lowered
<1>4. nCcalls' = Count(native', Raising) /\ callDepth' = Count(native', Calling)
  BY <1>2, <1>3
<1> QED BY <1>2, <1>4 DEF Counted

(***************************************************************************)
(* The stack without its last entry.                                       *)
(***************************************************************************)
LEMMA NativePop ==
  ASSUME IInv, native # <<>>
  PROVE  /\ native \in Seq(NativeEntries) /\ frames \in Seq(Frames) /\ Len(frames) \in Nat
         /\ Layout(frames, native, mode, top, ciOverflow) /\ Stacked(native)
         /\ Len(native) \in Nat /\ Len(native) > 0 /\ Last(native) = native[Len(native)]
         /\ Last(native) \in NativeEntries
         /\ Pop(native) \in Seq(NativeEntries) /\ Len(Pop(native)) = Len(native) - 1
         /\ Stacked(Pop(native)) /\ \A i \in 1..Len(Pop(native)) : Pop(native)[i] = native[i]
<1>1. native \in Seq(NativeEntries) /\ frames \in Seq(Frames) /\ Len(frames) \in Nat
      /\ Layout(frames, native, mode, top, ciOverflow) /\ Stacked(native)
  BY DEF IInv, TypeOK, Layout
<1>2. /\ Len(native) \in Nat /\ Len(native) > 0 /\ Last(native) = native[Len(native)]
      /\ Last(native) \in NativeEntries
  BY <1>1, TopEntry
<1>3. /\ Pop(native) \in Seq(NativeEntries) /\ Len(Pop(native)) = Len(native) - 1
      /\ \A i \in 1..Len(native) - 1 : Pop(native)[i] = native[i]
  BY <1>1, PopIs
<1>4. Stacked(Pop(native))
  BY <1>1, StackedPop
<1> QED BY <1>1, <1>2, <1>3, <1>4

\* FinishOperator keeps the invariant.
LEMMA FinishOperatorStep ==
  ASSUME IInv, FinishOperator
  PROVE  IInv'
<1> DEFINE e == Last(native)
           x == [Last(frames) EXCEPT !.waits = "none"]
<1>1. /\ mode = "done" /\ native # <<>> /\ e.k \in Operators
      /\ Leave /\ native' = Pop(native) /\ frames' = Replace(frames, x)
      /\ top' = (IF e.k = "iterator" THEN "full" ELSE e.top)
      /\ mode' = "run" /\ UNCHANGED <<ciOverflow, coroutine>>
  BY DEF FinishOperator
<1>2. /\ native \in Seq(NativeEntries) /\ frames \in Seq(Frames) /\ Len(frames) \in Nat
      /\ Layout(frames, native, "done", top, ciOverflow)
      /\ Len(native) > 0 /\ Last(native) = native[Len(native)] /\ Len(native) \in Nat
      /\ Last(native) \in NativeEntries
      /\ Pop(native) \in Seq(NativeEntries) /\ Len(Pop(native)) = Len(native) - 1
      /\ Stacked(Pop(native)) /\ \A i \in 1..Len(Pop(native)) : Pop(native)[i] = native[i]
  BY <1>1, NativePop
<1>3. frames # <<>>
  <2>1. Len(native) \in 1..Len(native)
    BY <1>2
  <2>2. Stands(frames, Last(native))
    BY <1>2, <2>1 DEF Layout, Standing
  <2>3. e.ci \in 1..Len(frames)
    BY <1>1, <2>2 DEF Stands
  <2> QED BY <1>2, <2>3
<1>4. Last(frames) \in Frames /\ Last(frames) = frames[Len(frames)]
  BY <1>2, <1>3, TopFrame
<1>5. x \in Frames /\ x.fn = Last(frames).fn /\ x.cut = Last(frames).cut /\ x.waits = "none"
  BY <1>4, WaitsIs
<1> HIDE DEF x
<1>6. /\ frames' \in Seq(Frames) /\ Len(frames') = Len(frames)
      /\ frames'[Len(frames)] = x
      /\ \A f \in 1..Len(frames) - 1 : frames'[f] = frames[f]
  <2>1. /\ Replace(frames, x) \in Seq(Frames) /\ Len(Replace(frames, x)) = Len(frames)
        /\ Replace(frames, x)[Len(frames)] = x
        /\ \A f \in 1..Len(frames) - 1 : Replace(frames, x)[f] = frames[f]
    <3>1. frames \in Seq(Frames) /\ frames # <<>> /\ x \in Frames
      BY <1>2, <1>3, <1>5
    <3> QED BY <3>1, ReplaceIs
  <2> QED BY <1>1, <2>1
<1>7. Layout(frames', Pop(native), "run", top', ciOverflow)
  <2>1. top' = "full" \/ top' = native[Len(native)].top
    BY <1>1, <1>2
  <2>2. native[Len(native)].k \in Operators
    BY <1>1, <1>2
  <2>3. /\ frames'[Len(frames)].fn = frames[Len(frames)].fn
        /\ frames'[Len(frames)].cut = frames[Len(frames)].cut
        /\ frames'[Len(frames)].waits = "none"
    BY <1>4, <1>5, <1>6
  <2> QED BY <1>2, <1>6, <2>1, <2>2, <2>3, Finished
<1>8. Counted' /\ nCcalls' \in Nat /\ callDepth' \in Nat
  <2>1. Last(native).k \in Calling
    BY <1>1 DEF Operators, Calling, Raising
  <2> QED BY <1>1, <2>1, LeaveCounts
<1>9. TypeOK'
  <2>1. top' \in {"full", "short", "open"}
    BY <1>1, <1>2 DEF NativeEntries
  <2>2. native' \in Seq(NativeEntries)
    BY <1>1, <1>2
  <2> QED BY <1>1, <1>6, <1>8, <2>1, <2>2 DEF IInv, TypeOK, Modes
<1> QED BY <1>1, <1>7, <1>8, <1>9 DEF IInv

-----------------------------------------------------------------------------
(***************************************************************************)
(* A function that catches ends, with its frame and those above.           *)
(***************************************************************************)
LEMMA Caught ==
  ASSUME NEW F \in Seq(Frames), NEW N \in Seq(NativeEntries), NEW m, NEW t, NEW over,
         Layout(F, N, m, t, over), Len(N) > 0, N[Len(N)].k \in Catching,
         NEW G \in Seq(Frames), Len(G) = N[Len(N)].ci - 1, Shared(F, G, Len(G)),
         NEW M \in Seq(NativeEntries), Len(M) = Len(N) - 1, Stacked(M),
         \A i \in 1..Len(M) : M[i] = N[i],
         NEW l, NEW u,
         IF M[Len(M)].k = "execute" THEN l = "run" /\ u # "short" ELSE l = "done",
         NEW still, still => \E i \in 1..Len(M) : M[i].k = "handler"
  PROVE  Layout(G, M, l, u, still)
<1> DEFINE n == Len(N)
           e == N[Len(N)]
           d == N[Len(N) - 1]
<1>1. Stacked(N) /\ Standing(F, N) /\ Waiting(F, N, m) /\ Limited(N, m, over)
  BY DEF Layout
<1>2. e.k # "execute" /\ e.k \notin Operators
  BY DEF Operators, Catching
<1>3. /\ n \in Nat /\ n >= 2 /\ n - 1 \in 1..Len(N) /\ n \in 1..Len(N)
      /\ e \in NativeEntries /\ d \in NativeEntries /\ Follows(d, e)
      /\ e = N[n] /\ d = N[n - 1]
      /\ UpTo(d) \in Nat /\ From(e) \in Int /\ UpTo(d) <= From(e)
  BY <1>1, <1>2, SecondLast
<1>4. From(e) = e.ci - 1 /\ UpTo(e) = e.ci /\ e.ci \in Nat
      /\ From(e) = Len(G) /\ Len(G) \in Nat
  BY <1>2, <1>3, EntryShape DEF From, UpTo
<1> HIDE DEF n, e, d
<1>5. Len(M) \in Nat /\ Len(M) = n - 1 /\ M[n - 1] = d /\ \A i \in 1..n - 1 : M[i] = N[i]
  BY <1>3 DEF n
<1>6. Shared(F, G, From(e)) /\ Shared(F, G, From(N[n]))
  BY <1>3, <1>4
<1>7. Standing(G, M)
  <2>1. \A i \in n..Len(M) : Stands(G, M[i])
    BY <1>3, <1>5
  <2> QED BY <1>1, <1>3, <1>5, <1>6, <2>1, StandingAfter
<1>8. Placed(G, M, l)
  <2>1. d.k # "handler" => UpTo(d) = Len(G)
    BY <1>3, <1>4 DEF Follows
  <2> QED BY <1>3, <1>5, <2>1 DEF Placed
<1>9. Waiting(G, M, l)
  <2>1. Rests(G, d, FALSE)
    <3>1. Rests(F, d, FALSE)
      <4>1. Rests(F, d, Busy(N, m, n - 1))
        BY <1>1, <1>3 DEF Waiting
      <4>2. (n - 1) + 1 = n /\ n - 1 < Len(N)
        BY <1>3 DEF n
      <4>3. ~Busy(N, m, n - 1)
        BY <1>2, <1>3, <4>2 DEF Busy
      <4> QED BY <4>1, <4>3 DEF Rests
    <3>2. d \in NativeEntries /\ From(e) \in Int /\ UpTo(d) <= From(e)
      BY <1>3
    <3> QED BY <1>6, <3>1, <3>2, RestsKept, Zenon
  <2>2. Rests(G, M[n - 1], Busy(M, l, n - 1))
    BY <1>3, <1>5, <2>1 DEF Rests
  <2>3. \A i \in 1..Len(M) : i >= n \/ i = Len(M) => Rests(G, M[i], Busy(M, l, i))
    BY <1>3, <1>5, <2>2
  <2>4. n <= Len(M) => (M[n].k \in Operators <=> N[n].k \in Operators)
    BY <1>3, <1>5
  <2> QED BY <1>1, <1>3, <1>5, <1>6, <2>3, <2>4, WaitingAfter
<1>10. Foreign(G, M, l)
  <2> SUFFICES ASSUME NEW f \in 1..Len(G), G[f].fn # "lua"
               PROVE  \E i \in 1..Len(M) : M[i].k \in Catching /\ M[i].ci <= f
    BY DEF Foreign
  <2>1. f \in 1..Len(F) /\ F[f].fn # "lua" /\ f < e.ci
    BY <1>4 DEF Shared
  <2>2. f <= UpTo(N[Len(N)]) /\ f # Len(F)
    <3>1. UpTo(e) <= Len(F)
      BY <1>1, <1>3, Reach DEF Standing
    <3> QED BY <1>4, <2>1, <3>1 DEF e
  <2>3. UpTo(N[Len(N)]) \in Nat
    BY <1>4 DEF e
  <2>4. PICK i \in 1..Len(N) : N[i].k \in Catching /\ N[i].ci <= f
    BY <2>1, <2>2, <2>3 DEF Layout, Foreign
  <2>5. i # n
    BY <1>3, <1>4, <2>1, <2>4
  <2>6. i \in 1..Len(M) /\ M[i] = N[i]
    BY <1>3, <1>5, <2>5 DEF n
  <2> QED BY <2>4, <2>6
<1>11. Resumed(G, M, l, u)
  <2>1. N[1].ci \in Nat /\ N[1].ci <= Len(G)
    BY <1>1, <1>4, FirstLowest DEF e
  <2>2. \A f \in 1..Len(G) : f <= Len(F) /\ G[f] = F[f]
    BY <1>4 DEF Shared
  <2>3. \A f \in 1..N[1].ci : F[f].cut
    BY <1>4, <2>1, <2>2 DEF Layout, Resumed
  <2>4. \A f \in 1..N[1].ci : G[f].cut
    BY <1>4, <2>1, <2>2, <2>3, SMTT(60)
  <2>5. M[1] = N[1] /\ Len(M) > 0
    BY <1>3, <1>5
  <2>6. l = "run" => u # "short"
    OBVIOUS
  <2> QED BY <2>4, <2>5, <2>6 DEF Resumed
<1>12. Limited(M, l, still)
  <2>1. \A i \in 1..Len(M) : M[i] = N[i] /\ i \in 1..Len(N)
    BY <1>3, <1>5 DEF n
  <2>2. \A i \in 1..Len(M) : M[i].k = "load" => M[i].first
    <3>1. \A i \in 1..Len(M) : i # Len(N)
      BY <1>3, <1>5 DEF n
    <3> QED BY <1>1, <2>1, <3>1 DEF Limited
  <2>3. /\ Len(N) \in Nat /\ Len(M) \in Nat /\ Len(M) <= Len(N)
        /\ \A i \in 1..Len(M) : M[i].k = N[i].k
        /\ \A i \in 1..Len(M) : M[i].k # "execute" => M[i] = N[i]
    BY <1>3, <1>5, <2>1 DEF n
  <2>4. l \notin {"yield", "suspended"}
    OBVIOUS
  <2> QED BY <1>1, <2>2, <2>3, <2>4, LimitedKept
<1> QED BY <1>7, <1>8, <1>9, <1>10, <1>11, <1>12 DEF Layout

(***************************************************************************)
(* EndRust, with the ci that the function has saved.                       *)
(***************************************************************************)
LEMMA EndRustStep ==
  ASSUME IInv, native # <<>>, Last(native).k \in Catching, Leave,
         EndRust(Last(native).ci), ciOverflow' \in BOOLEAN,
         ciOverflow' => \E i \in 1..Len(native) - 1 : native[i].k = "handler"
  PROVE  IInv'
<1> DEFINE e == Last(native)
           below == Pop(native)
           wanted == frames[e.ci].wanted
<1>1. /\ frames' = SubSeq(frames, 1, e.ci - 1) /\ native' = below
      /\ IF Last(below).k = "execute" THEN mode' = "run" /\ top' = Restored(wanted)
                                      ELSE mode' = "done" /\ top' = Results(wanted)
      /\ UNCHANGED coroutine
  BY DEF EndRust
<1>2. /\ native \in Seq(NativeEntries) /\ frames \in Seq(Frames) /\ Len(frames) \in Nat
      /\ Layout(frames, native, mode, top, ciOverflow) /\ Stacked(native)
      /\ Len(native) \in Nat /\ Len(native) > 0 /\ e = native[Len(native)]
      /\ e \in NativeEntries
      /\ below \in Seq(NativeEntries) /\ Len(below) = Len(native) - 1
      /\ Stacked(below) /\ \A i \in 1..Len(below) : below[i] = native[i]
  BY NativePop
<1> HIDE DEF e, below
<1>3. e.k \in Catching /\ e.k # "execute"
  BY DEF e, Catching
<1>4. e.ci \in 1..Len(frames)
  <2>1. Len(native) \in 1..Len(native)
    BY <1>2
  <2>2. Stands(frames, e)
    BY <1>2, <2>1 DEF Layout, Standing
  <2> QED BY <1>3, <2>2 DEF Stands
<1>5. wanted \in {"fixed", "all"}
  <2>1. frames[e.ci] \in Frames
    BY <1>2, <1>4
  <2> QED BY <2>1 DEF Frames
<1> HIDE DEF wanted
<1>6. Restored(wanted) \in {"full", "open"} /\ Results(wanted) \in {"short", "open"}
  BY <1>5 DEF Restored, Results
<1>7. /\ frames' \in Seq(Frames) /\ Len(frames') = e.ci - 1
      /\ \A f \in 1..e.ci - 1 : frames'[f] = frames[f]
  <2>1. e.ci - 1 \in 0..Len(frames)
    BY <1>2, <1>4
  <2> QED BY <1>1, <1>2, <2>1, CutIs
<1>8. Shared(frames, frames', Len(frames'))
  <2>1. Len(frames') <= Len(frames)
    BY <1>2, <1>4, <1>7
  <2> QED BY <1>2, <1>7, <2>1 DEF Shared
<1>9. Len(below) >= 1 /\ Last(below) = below[Len(below)]
  <2>1. native[Len(native)].k # "execute"
    BY <1>2, <1>3
  <2>2. Len(native) >= 2
    BY <1>2, <2>1, SecondLast
  <2>3. Len(below) >= 1 /\ below # <<>>
    BY <1>2, <2>2
  <2> QED BY <1>2, <2>3, TopEntry
<1>10. Layout(frames', below, mode', top', ciOverflow')
  <2>1. IF below[Len(below)].k = "execute" THEN mode' = "run" /\ top' # "short"
                                           ELSE mode' = "done"
    BY <1>1, <1>6, <1>9
  <2>2. native[Len(native)].k \in Catching /\ Len(frames') = native[Len(native)].ci - 1
    BY <1>2, <1>3, <1>7
  <2>3. ciOverflow' => \E i \in 1..Len(below) : below[i].k = "handler"
    BY <1>2
  <2> QED BY <1>2, <1>7, <1>8, <2>1, <2>2, <2>3, Caught
<1>11. Counted' /\ nCcalls' \in Nat /\ callDepth' \in Nat
  <2>1. Last(native).k \in Calling
    BY DEF Catching, Calling, Raising
  <2> QED BY <1>1, <2>1, LeaveCounts DEF below
<1>12. TypeOK'
  <2>1. top' \in {"full", "short", "open"} /\ mode' \in {"run", "done"}
    BY <1>1, <1>6
  <2> QED BY <1>1, <1>2, <1>7, <1>11, <2>1 DEF IInv, TypeOK, Modes
<1> QED BY <1>1, <1>10, <1>11, <1>12 DEF IInv

(***************************************************************************)
(* The handlers below the last entry, while the flag stays up.             *)
(***************************************************************************)
LEMMA RestoreStep ==
  ASSUME IInv, native # <<>>, Last(native).k \in Catching, Restore(Last(native).ci)
  PROVE  IInv'
<1>1. Leave /\ EndRust(Last(native).ci)
      /\ ciOverflow' = (IF Last(native).ci < MaxCalls THEN FALSE ELSE ciOverflow)
  BY DEF Restore, OverflowAfter
<1>2. ciOverflow' \in BOOLEAN
  BY <1>1 DEF IInv, TypeOK
<1>3. ASSUME ciOverflow' PROVE \E i \in 1..Len(native) - 1 : native[i].k = "handler"
  <2>1. /\ Len(native) \in Nat /\ Len(native) > 0 /\ Last(native) = native[Len(native)]
        /\ Last(native) \in NativeEntries /\ Limited(native, mode, ciOverflow)
    BY NativePop DEF Layout
  <2>2. Last(native).ci \in Nat /\ Last(native).ci >= MaxCalls
    <3>1. ~(Last(native).ci < MaxCalls)
      BY <1>1, <1>3
    <3>2. Last(native).ci \in Nat /\ MaxCalls \in Nat
      BY <2>1, EntryShape, CallStackAssumption
    <3> QED BY <3>1, <3>2
  <2>3. Len(native) \in 1..Len(native)
    BY <2>1
  <2>4. PICK j \in 1..Len(native) : j < Len(native) /\ native[j].k = "handler"
    BY <2>1, <2>2, <2>3 DEF Limited
  <2>5. j \in 1..Len(native) - 1
    BY <2>1, <2>4
  <2> QED BY <2>4, <2>5
<1> QED BY <1>1, <1>2, <1>3, EndRustStep

\* FinishCall keeps the invariant.
LEMMA FinishCallStep ==
  ASSUME IInv, FinishCall
  PROVE  IInv'
<1>1. /\ mode = "done" /\ native # <<>> /\ Last(native).k \in {"pcall", "xpcall", "load"}
      /\ Leave /\ EndRust(Len(frames)) /\ ciOverflow' = ciOverflow
  BY DEF FinishCall
<1>2. /\ Len(native) \in Nat /\ Len(native) > 0 /\ Last(native) = native[Len(native)]
      /\ Layout(frames, native, mode, top, ciOverflow)
  BY <1>1, NativePop
<1>3. Last(native).k \in Catching /\ Last(native).k # "handler" /\ Last(native).k # "execute"
  BY <1>1 DEF Catching
<1>4. Last(native).ci = Len(frames)
  <2>1. UpTo(Last(native)) = Len(frames)
    BY <1>1, <1>2, <1>3 DEF Layout, Placed
  <2> QED BY <1>3, <2>1 DEF UpTo
<1>5. ciOverflow' \in BOOLEAN
  BY <1>1 DEF IInv, TypeOK
<1>6. ASSUME ciOverflow' PROVE \E i \in 1..Len(native) - 1 : native[i].k = "handler"
  <2>1. PICK i \in 1..Len(native) : native[i].k = "handler"
    BY <1>1, <1>2, <1>6 DEF Layout, Limited
  <2>2. i # Len(native)
    BY <1>2, <1>3, <2>1
  <2>3. i \in 1..Len(native) - 1
    BY <1>2, <2>2
  <2> QED BY <2>1, <2>3
<1> QED BY <1>1, <1>3, <1>4, <1>5, <1>6, EndRustStep

\* Catch keeps the invariant.
LEMMA CatchStep ==
  ASSUME IInv, CatchPcall \/ FinishHandler \/ CatchLoad
  PROVE  IInv'
<1>1. native # <<>> /\ Last(native).k \in Catching
  BY DEF CatchPcall, FinishHandler, CatchLoad, Unwinding, Over, Catching
<1>2. Restore(Last(native).ci)
  <2>1. CASE CatchPcall \/ FinishHandler
    BY <2>1 DEF CatchPcall, FinishHandler
  <2>2. CASE CatchLoad
    <3>1. mode \in {"error", "yield"} /\ Last(native).k = "load"
      BY <2>2 DEF CatchLoad, Unwinding, Over
    <3>2. Len(native) \in 1..Len(native) /\ Last(native) = native[Len(native)]
      <4>1. Len(native) \in Nat /\ Len(native) > 0 /\ Last(native) = native[Len(native)]
        BY <1>1, NativePop
      <4> QED BY <4>1
    <3>3. Last(native).first
      BY <3>1, <3>2 DEF IInv, Layout, Limited
    <3> QED BY <2>2, <3>3 DEF CatchLoad
  <2> QED BY <2>1, <2>2
<1> QED BY <1>1, <1>2, RestoreStep

-----------------------------------------------------------------------------
(***************************************************************************)
(* The last entry changes in place: load goes on, xpcall calls its         *)
(* handler.                                                                *)
(***************************************************************************)
LEMMA Changed ==
  ASSUME IInv, native # <<>>, NEW d \in NativeEntries,
         Last(native).k \in Catching, d.k \in Catching, d.ci = Last(native).ci,
         native' = Replace(native, d), UNCHANGED <<nCcalls, callDepth>>
  PROVE  /\ native' \in Seq(NativeEntries) /\ Len(native') = Len(native)
         /\ native'[Len(native)] = d
         /\ \A i \in 1..Len(native) - 1 : native'[i] = native[i]
         /\ Stacked(native') /\ Counted'
<1>1. /\ native \in Seq(NativeEntries) /\ Stacked(native)
      /\ nCcalls = Count(native, Raising) /\ callDepth = Count(native, Calling)
  BY DEF IInv, TypeOK, Layout, Counted
<1>2. /\ Replace(native, d) \in Seq(NativeEntries) /\ Len(Replace(native, d)) = Len(native)
      /\ Replace(native, d)[Len(native)] = d
      /\ \A i \in 1..Len(native) - 1 : Replace(native, d)[i] = native[i]
  BY <1>1, ReplaceIs, ZenonT(60)
<1>3. Stacked(Replace(native, d))
  <2>1. From(d) = From(Last(native)) /\ Last(native).k # "execute"
    BY DEF From, Catching
  <2> QED BY <1>1, <2>1, StackedReplace
<1>4. Count(Replace(native, d), Raising) = Count(native, Raising)
  <2>1. d.k \in Raising <=> Last(native).k \in Raising
    BY DEF Catching, Raising
  <2>2. Count(Replace(native, d), Raising)
          = Count(Pop(native), Raising) + IF d.k \in Raising THEN 1 ELSE 0
    BY <1>1, CountReplace
  <2>3. Count(native, Raising)
          = Count(Pop(native), Raising) + IF Last(native).k \in Raising THEN 1 ELSE 0
    BY <1>1, CountPop
  <2> QED BY <2>1, <2>2, <2>3
<1>5. Count(Replace(native, d), Calling) = Count(native, Calling)
  <2>1. d.k \in Calling <=> Last(native).k \in Calling
    BY DEF Catching, Calling, Raising
  <2>2. Count(Replace(native, d), Calling)
          = Count(Pop(native), Calling) + IF d.k \in Calling THEN 1 ELSE 0
    BY <1>1, CountReplace
  <2>3. Count(native, Calling)
          = Count(Pop(native), Calling) + IF Last(native).k \in Calling THEN 1 ELSE 0
    BY <1>1, CountPop
  <2> QED BY <2>1, <2>2, <2>3
<1> QED BY <1>1, <1>2, <1>3, <1>4, <1>5 DEF Counted

(***************************************************************************)
(* What the other parts of Layout say after it.                            *)
(***************************************************************************)
LEMMA ChangedLayout ==
  ASSUME NEW F \in Seq(Frames), NEW N \in Seq(NativeEntries), NEW m, NEW t, NEW over,
         Layout(F, N, m, t, over), Len(N) > 0,
         NEW M \in Seq(NativeEntries), Len(M) = Len(N), Stacked(M),
         \A i \in 1..Len(N) - 1 : M[i] = N[i],
         N[Len(N)].k \in Catching, M[Len(N)].k \in Catching,
         M[Len(N)].ci = N[Len(N)].ci, Stands(F, M[Len(N)]), NEW l, l \in {"done", "enter"}
  PROVE  Standing(F, M) /\ Waiting(F, M, l) /\ M[1].ci = N[1].ci
<1> DEFINE n == Len(N)
<1>1. Stacked(N) /\ Standing(F, N) /\ Waiting(F, N, m) /\ Len(F) \in Nat
  BY DEF Layout
<1>2. n \in Nat /\ n >= 1 /\ n \in 1..Len(N) /\ Len(M) = n /\ N[n] \in NativeEntries
  OBVIOUS
<1>3. /\ N[n].k # "execute" /\ N[n].k \notin Operators
      /\ M[n].k # "execute" /\ M[n].k \notin Operators
  BY DEF Catching, Operators
<1>4. Shared(F, F, From(N[n]))
  <2>1. From(N[n]) \in Int /\ From(N[n]) <= Len(F)
    <3>1. Stands(F, N[n])
      BY <1>1, <1>2 DEF Standing
    <3>2. From(N[n]) \in Int /\ From(N[n]) <= UpTo(N[n]) /\ UpTo(N[n]) <= Len(F)
          /\ UpTo(N[n]) \in Nat
      BY <1>2, <3>1, Reach
    <3> QED BY <1>1, <3>2
  <2> QED BY <2>1 DEF Shared
<1>5. \A i \in 1..n - 1 : M[i] = N[i]
  OBVIOUS
<1>6. Stands(F, M[n])
  OBVIOUS
<1> HIDE DEF n
<1>7. Standing(F, M)
  <2>1. \A i \in n..Len(M) : Stands(F, M[i])
    BY <1>2, <1>6
  <2> QED BY <1>1, <1>2, <1>4, <1>5, <2>1, StandingAfter
<1>8. Waiting(F, M, l)
  <2>1. Rests(F, M[n], Busy(M, l, n))
    BY <1>3 DEF Rests
  <2>2. \A i \in 1..Len(M) : i >= n \/ i = Len(M) => Rests(F, M[i], Busy(M, l, i))
    BY <1>2, <2>1
  <2>3. n <= Len(M) => (M[n].k \in Operators <=> N[n].k \in Operators)
    BY <1>3
  <2> QED BY <1>1, <1>2, <1>4, <1>5, <2>2, <2>3, WaitingAfter
<1>9. M[1].ci = N[1].ci
  <2>1. n >= 2
    BY <1>1, <1>2, <1>3, SecondLast DEF n
  <2> QED BY <1>2, <1>5, <2>1
<1> QED BY <1>7, <1>8, <1>9

\* ReadAgain keeps the invariant.
LEMMA ReadAgainStep ==
  ASSUME IInv, ~LateErrors, ReadAgain
  PROVE  IInv'
<1> DEFINE e == Last(native)
           d == [e EXCEPT !.first = FALSE]
           n == Len(native)
<1>1. /\ mode = "done" /\ native # <<>> /\ e.k = "load" /\ native' = Replace(native, d)
      /\ mode' = "done"
      /\ UNCHANGED <<frames, top, nCcalls, callDepth, ciOverflow, coroutine>>
  BY DEF ReadAgain, Over
<1>2. /\ native \in Seq(NativeEntries) /\ frames \in Seq(Frames) /\ Len(frames) \in Nat
      /\ Layout(frames, native, "done", top, ciOverflow)
      /\ n \in Nat /\ n > 0 /\ e = native[n] /\ e \in NativeEntries
  BY <1>1, NativePop
<1>3. d \in NativeEntries /\ d.k = e.k /\ d.ci = e.ci /\ d.top = e.top /\ d.n = e.n
  BY <1>2 DEF NativeEntries
<1> HIDE DEF d, e
<1>4. e.k \in Catching /\ d.k \in Catching /\ d.k # "handler" /\ d.k # "execute"
      /\ d.k \notin Operators
  BY <1>1, <1>3 DEF Catching, Operators
<1>5. /\ native' \in Seq(NativeEntries) /\ Len(native') = n /\ native'[n] = d
      /\ \A i \in 1..n - 1 : native'[i] = native[i]
      /\ Stacked(native') /\ Counted'
  BY <1>1, <1>3, <1>4, Changed DEF e
<1>6. Stands(frames, e) /\ Placed(frames, native, "done") /\ Limited(native, "done", ciOverflow)
  BY <1>2 DEF Layout, Standing
<1>7. Stands(frames, d)
  BY <1>3, <1>4, <1>6 DEF Stands
<1>8. /\ Standing(frames, native') /\ Waiting(frames, native', "done")
      /\ native'[1].ci = native[1].ci
  BY <1>2, <1>3, <1>4, <1>5, <1>7, ChangedLayout
<1>9. Placed(frames, native', "done")
  <2>1. UpTo(d) = UpTo(e)
    BY <1>3 DEF UpTo
  <2>2. UpTo(e) = Len(frames)
    BY <1>2, <1>3, <1>4, <1>6 DEF Placed
  <2> QED BY <1>2, <1>4, <1>5, <2>1, <2>2 DEF Placed
<1>10. \A i \in 1..n : native'[i].k = native[i].k /\ native'[i].ci = native[i].ci
                       /\ (i < n => native'[i] = native[i])
  <2> TAKE i \in 1..n
  <2>1. i = n \/ i \in 1..n - 1
    BY <1>2
  <2> QED BY <1>2, <1>3, <1>5, <2>1
<1>11. Foreign(frames, native', "done")
  BY <1>2, <1>5, <1>10 DEF Layout, Foreign
<1>12. Resumed(frames, native', "done", top)
  BY <1>2, <1>5, <1>8 DEF Layout, Resumed
<1>13. Limited(native', "done", ciOverflow)
  <2>1. \A i \in 1..n : native'[i].k = "load" /\ ~native'[i].first => i = n
    BY <1>2, <1>6, <1>10 DEF Limited
  <2>2. ciOverflow => \E i \in 1..n : native'[i].k = "handler"
    BY <1>6, <1>10 DEF Limited
  <2>3. \A i \in 1..n : native'[i].k \in Catching /\ native'[i].ci >= MaxCalls
          => \E j \in 1..n : j < i /\ native'[j].k = "handler"
    BY <1>6, <1>10 DEF Limited
  <2> QED BY <1>5, <2>1, <2>2, <2>3 DEF Limited
<1>14. TypeOK'
  BY <1>1, <1>5 DEF IInv, TypeOK, Modes
<1> QED BY <1>1, <1>5, <1>8, <1>9, <1>11, <1>12, <1>13, <1>14 DEF IInv, Layout

\* CallHandler keeps the invariant.
LEMMA CallHandlerStep ==
  ASSUME IInv, CallHandler
  PROVE  IInv'
<1> DEFINE e == Last(native)
           d == [e EXCEPT !.k = "handler"]
           n == Len(native)
<1>1. /\ mode \in {"error", "yield"} /\ native # <<>> /\ e.k = "xpcall"
      /\ native' = Replace(native, d) /\ mode' = "enter"
      /\ UNCHANGED <<frames, top, nCcalls, callDepth, ciOverflow, coroutine>>
  BY DEF CallHandler, Over, Unwinding
<1>2. /\ native \in Seq(NativeEntries) /\ frames \in Seq(Frames) /\ Len(frames) \in Nat
      /\ Layout(frames, native, mode, top, ciOverflow)
      /\ n \in Nat /\ n > 0 /\ e = native[n] /\ e \in NativeEntries /\ n \in 1..n
  <2>1. /\ native \in Seq(NativeEntries) /\ frames \in Seq(Frames) /\ Len(frames) \in Nat
        /\ Layout(frames, native, mode, top, ciOverflow)
        /\ n \in Nat /\ n > 0 /\ e = native[n] /\ e \in NativeEntries
    BY <1>1, NativePop
  <2> QED BY <2>1
<1>3. d \in NativeEntries /\ d.k = "handler" /\ d.ci = e.ci
  BY <1>2 DEF NativeEntries, Calling, Raising
<1> HIDE DEF d, e
<1>4. e.k \in Catching /\ d.k \in Catching /\ d.k # "execute" /\ d.k \notin Operators
      /\ e.k \in Raising
  BY <1>1, <1>3 DEF Catching, Operators, Raising
<1>5. /\ native' \in Seq(NativeEntries) /\ Len(native') = n /\ native'[n] = d
      /\ \A i \in 1..n - 1 : native'[i] = native[i]
      /\ Stacked(native') /\ Counted'
  BY <1>1, <1>3, <1>4, Changed DEF e
<1>6. Stands(frames, e) /\ Limited(native, mode, ciOverflow)
  BY <1>2 DEF Layout, Standing
<1>7. Stands(frames, d)
  BY <1>1, <1>3, <1>4, <1>6 DEF Stands
<1>8. /\ Standing(frames, native') /\ Waiting(frames, native', "enter")
      /\ native'[1].ci = native[1].ci
  BY <1>2, <1>3, <1>4, <1>5, <1>7, ChangedLayout
<1>9. Placed(frames, native', "enter")
  BY <1>2, <1>3, <1>5 DEF Placed
<1>10. \A i \in 1..n : /\ native'[i].k \in Catching <=> native[i].k \in Catching
                       /\ native'[i].ci = native[i].ci
                       /\ i < n => native'[i] = native[i]
  <2> TAKE i \in 1..n
  <2>1. i = n \/ i \in 1..n - 1
    BY <1>2
  <2> QED BY <1>2, <1>3, <1>4, <1>5, <2>1
<1>11. mode = "error"
  BY <1>1, <1>2, <1>4, <1>6 DEF Limited
<1>12. Foreign(frames, native', "enter")
  <2> SUFFICES ASSUME NEW f \in 1..Len(frames), frames[f].fn # "lua"
               PROVE  \E i \in 1..n : native'[i].k \in Catching /\ native'[i].ci <= f
    BY <1>5 DEF Foreign
  <2>1. CASE \E i \in 1..n : native[i].k \in Catching /\ native[i].ci <= f
    BY <1>10, <2>1
  <2>2. CASE f > UpTo(native[n])
    <3>1. UpTo(native[n]) = native[n].ci /\ native[n].ci \in Nat
      BY <1>1, <1>2, EntryShape DEF UpTo
    <3>2. native'[n].k \in Catching /\ native'[n].ci <= f
      BY <1>2, <1>3, <1>4, <1>5, <2>2, <3>1
    <3> QED BY <1>2, <3>2
  <2> QED BY <1>2, <1>11, <2>1, <2>2 DEF Layout, Foreign
<1>13. Resumed(frames, native', "enter", top)
  BY <1>2, <1>5, <1>8 DEF Layout, Resumed
<1>14. Limited(native', "enter", ciOverflow)
  <2>1. \A i \in 1..n : native'[i].k = "load" => native'[i].first
    <3> TAKE i \in 1..n
    <3>1. CASE i < n
      BY <1>6, <1>10, <1>11, <3>1 DEF Limited
    <3>2. CASE i = n
      BY <1>3, <1>5, <3>2
    <3> QED BY <1>2, <3>1, <3>2
  <2>2. \E i \in 1..n : native'[i].k = "handler"
    BY <1>2, <1>3, <1>5
  <2>3. ASSUME NEW i \in 1..n, native'[i].k \in Catching, native'[i].ci >= MaxCalls
        PROVE  \E j \in 1..n : j < i /\ native'[j].k = "handler"
    <3>1. native[i].k \in Catching /\ native[i].ci >= MaxCalls
      BY <1>10, <2>3
    <3>2. PICK j \in 1..n : j < i /\ native[j].k = "handler"
      BY <1>6, <3>1 DEF Limited
    <3>3. native'[j].k = "handler"
      BY <1>2, <1>10, <3>2
    <3> QED BY <3>2, <3>3
  <2> QED BY <1>5, <2>1, <2>2, <2>3 DEF Limited
<1>15. TypeOK'
  BY <1>1, <1>5 DEF IInv, TypeOK, Modes
<1> QED BY <1>1, <1>5, <1>8, <1>9, <1>12, <1>13, <1>14, <1>15 DEF IInv, Layout

-----------------------------------------------------------------------------
(***************************************************************************)
(* An Err goes through execute() and the operators.                        *)
(***************************************************************************)
LEMMA Unwound ==
  ASSUME NEW F \in Seq(Frames), NEW N \in Seq(NativeEntries), NEW m \in {"error", "yield"},
         NEW t, NEW over, Layout(F, N, m, t, over), Len(N) > 0,
         N[Len(N)].k \in Operators \union {"execute"},
         NEW M \in Seq(NativeEntries), Len(M) = Len(N) - 1, Stacked(M),
         \A i \in 1..Len(M) : M[i] = N[i]
  PROVE  Layout(F, M, m, t, over)
<1> DEFINE n == Len(N)
<1>1. Standing(F, N) /\ Waiting(F, N, m) /\ Limited(N, m, over) /\ Placed(F, N, m)
      /\ Stacked(N)
  BY DEF Layout
<1>2. n \in Nat /\ n >= 1 /\ Len(M) \in Nat /\ Len(M) = n - 1
  OBVIOUS
<1>3. N[n].k \notin Catching /\ N[n].k # "handler"
  BY DEF Catching, Operators
<1> HIDE DEF n
<1>4. \A i \in 1..Len(M) : M[i] = N[i] /\ i \in 1..Len(N) /\ i # n
  BY <1>2 DEF n
<1>5. \A i \in 1..Len(N) : i # n => i \in 1..Len(M)
  BY <1>2 DEF n
<1>6. Standing(F, M)
  BY <1>1, <1>4 DEF Standing
<1>7. Placed(F, M, m)
  BY <1>1 DEF Placed
<1>8. Waiting(F, M, m)
  <2> SUFFICES ASSUME NEW i \in 1..Len(M) PROVE Rests(F, M[i], Busy(M, m, i))
    BY DEF Waiting
  <2>1. M[i] = N[i] /\ Rests(F, N[i], Busy(N, m, i))
    BY <1>1, <1>4 DEF Waiting
  <2>2. Busy(N, m, i) => Busy(M, m, i)
    <3>1. CASE i = Len(M)
      BY <1>2, <3>1 DEF Busy
    <3>2. CASE i < Len(M)
      <4>1. i + 1 \in 1..Len(M) /\ i < Len(N)
        BY <1>2, <3>2 DEF n
      <4> QED BY <1>4, <4>1 DEF Busy
    <3> QED BY <1>2, <3>1, <3>2
  <2> QED BY <2>1, <2>2 DEF Rests
<1>9. Foreign(F, M, m)
  <2>1. Len(M) > 0 => UpTo(M[Len(M)]) <= UpTo(N[Len(N)]) /\ UpTo(M[Len(M)]) \in Nat
                      /\ UpTo(N[Len(N)]) \in Nat
    <3> SUFFICES ASSUME Len(M) > 0
                 PROVE  UpTo(M[Len(M)]) <= UpTo(N[Len(N)]) /\ UpTo(M[Len(M)]) \in Nat
                        /\ UpTo(N[Len(N)]) \in Nat
      OBVIOUS
    <3>1. Len(M) \in 1..Len(N) /\ M[Len(M)] = N[Len(M)]
      BY <1>2, <1>4 DEF n
    <3> QED BY <1>1, <3>1, BelowLast
  <2> SUFFICES ASSUME NEW f \in 1..Len(F), F[f].fn # "lua"
               PROVE  \/ \E i \in 1..Len(M) : M[i].k \in Catching /\ M[i].ci <= f
                      \/ m = "error" /\ (Len(M) > 0 => f > UpTo(M[Len(M)]))
                      \/ m \in {"yield", "suspended"} /\ f = Len(F)
    BY DEF Foreign
  <2>2. CASE \E i \in 1..Len(N) : N[i].k \in Catching /\ N[i].ci <= f
    BY <1>3, <1>4, <1>5, <2>2
  <2>3. CASE m = "error" /\ f > UpTo(N[Len(N)])
    BY <2>1, <2>3
  <2> QED BY <2>2, <2>3 DEF Layout, Foreign
<1>10. Resumed(F, M, m, t)
  <2>1. Len(M) > 0 => M[1] = N[1]
    BY <1>2
  <2> QED BY <1>2, <2>1 DEF Layout, Resumed
<1>11. Limited(M, m, over)
  <2>1. \A i \in 1..Len(M) : M[i].k = "load" => M[i].first
    BY <1>1, <1>4 DEF Limited
  <2>2. over => m \in {"error", "dead"} \/ \E i \in 1..Len(M) : M[i].k = "handler"
    BY <1>1, <1>3, <1>4, <1>5 DEF Limited
  <2>3. /\ Len(N) \in Nat /\ Len(M) \in Nat /\ Len(M) <= Len(N)
        /\ \A i \in 1..Len(M) : M[i].k = N[i].k
        /\ \A i \in 1..Len(M) : M[i].k # "execute" => M[i] = N[i]
    BY <1>2, <1>4 DEF n
  <2> QED BY <1>1, <2>1, <2>2, <2>3, LimitedKept
<1> QED BY <1>6, <1>7, <1>8, <1>9, <1>10, <1>11 DEF Layout

\* Unwind keeps the invariant.
LEMMA UnwindStep ==
  ASSUME IInv, Unwind
  PROVE  IInv'
<1>1. /\ mode \in {"error", "yield"} /\ native # <<>> /\ native' = Pop(native)
      /\ UNCHANGED <<frames, mode, top, ciOverflow, coroutine>>
      /\ \/ Last(native).k = "execute" /\ UNCHANGED <<nCcalls, callDepth>>
         \/ Last(native).k \in Operators /\ Leave
  BY DEF Unwind, Unwinding, Over
<1>2. /\ native \in Seq(NativeEntries) /\ frames \in Seq(Frames)
      /\ Layout(frames, native, mode, top, ciOverflow)
      /\ Len(native) > 0 /\ Last(native) = native[Len(native)]
      /\ Pop(native) \in Seq(NativeEntries) /\ Len(Pop(native)) = Len(native) - 1
      /\ Stacked(Pop(native)) /\ \A i \in 1..Len(Pop(native)) : Pop(native)[i] = native[i]
  BY <1>1, NativePop
<1>3. Layout(frames, Pop(native), mode, top, ciOverflow)
  <2>1. native[Len(native)].k \in Operators \union {"execute"}
    BY <1>1, <1>2
  <2> QED BY <1>1, <1>2, <2>1, Unwound
<1>4. Counted' /\ nCcalls' \in Nat /\ callDepth' \in Nat
  <2>1. CASE Last(native).k = "execute" /\ UNCHANGED <<nCcalls, callDepth>>
    <3>1. Last(native).k \notin Raising /\ Last(native).k \notin Calling
      BY <2>1 DEF Raising, Calling
    <3>2. Count(Pop(native), Raising) = Count(native, Raising)
          /\ Count(Pop(native), Calling) = Count(native, Calling)
      BY <1>1, <1>2, <3>1, PopCounts
    <3> QED BY <1>1, <2>1, <3>2 DEF IInv, TypeOK, Counted
  <2>2. CASE Last(native).k \in Operators /\ Leave
    <3>1. Last(native).k \in Calling
      BY <2>2 DEF Operators, Calling, Raising
    <3> QED BY <1>1, <2>2, <3>1, LeaveCounts
  <2> QED BY <1>1, <2>1, <2>2
<1>5. TypeOK'
  BY <1>1, <1>2, <1>4 DEF IInv, TypeOK
<1> QED BY <1>1, <1>3, <1>4, <1>5 DEF IInv

-----------------------------------------------------------------------------
(***************************************************************************)
(* A thread starts, ends, and is suspended and resumed.                    *)
(***************************************************************************)
LEMMA Nothing ==
  ASSUME NEW N \in Seq(NativeEntries), Len(N) = 0
  PROVE  Count(N, Raising) = 0 /\ Count(N, Calling) = 0
<1>1. ~ \E i \in DOMAIN N : N[i].k \in Raising
  OBVIOUS
<1>2. ~ \E i \in DOMAIN N : N[i].k \in Calling
  OBVIOUS
<1>3. Count(N, Raising) \in Nat /\ ~(Count(N, Raising) > 0)
  BY <1>1, CountIs
<1>4. Count(N, Calling) \in Nat /\ ~(Count(N, Calling) > 0)
  BY <1>2, CountIs
<1> QED BY <1>3, <1>4

(***************************************************************************)
(* An execute() alone, on the last of some Lua frames.                     *)
(***************************************************************************)
LEMMA Alone ==
  ASSUME NEW F \in Seq(Frames), Len(F) > 0, \A f \in 1..Len(F) : F[f].fn = "lua",
         \A f \in 1..Len(F) - 1 : F[f].cut, Idle(F[Len(F)]),
         NEW u, F[Len(F)].cut \/ u # "short",
         NEW N \in Seq(NativeEntries), Len(N) = 1, N[1].k = "execute", N[1].n = 1,
         N[1].ci = Len(F) - 1, NEW over, ~over
  PROVE  Layout(F, N, "run", u, over)
<1>1. Len(F) \in Nat /\ Len(F) >= 1 /\ \A i \in 1..Len(N) : i = 1
  OBVIOUS
<1>2. UpTo(N[1]) = Len(F) /\ N[1].ci + 1 = Len(F) /\ N[1].ci + N[1].n = Len(F)
  BY <1>1 DEF UpTo
<1>3. N[1].k \notin Catching /\ N[1].k \notin Operators /\ N[1].k \notin Raising
  BY DEF Catching, Operators, Raising
<1>4. Stacked(N)
  BY DEF Stacked
<1>5. Standing(F, N)
  BY <1>1, <1>2, <1>3 DEF Standing, Stands
<1>6. Placed(F, N, "run")
  BY <1>2 DEF Placed
<1>7. Waiting(F, N, "run")
  BY <1>1, <1>2 DEF Waiting, Rests
<1>8. Foreign(F, N, "run")
  BY DEF Foreign
<1>9. Resumed(F, N, "run", u)
  BY <1>1 DEF Resumed
<1>10. Limited(N, "run", over)
  BY <1>1, <1>3 DEF Limited
<1> QED BY <1>4, <1>5, <1>6, <1>7, <1>8, <1>9, <1>10 DEF Layout

\* One execute() alone is a stack of entries.
LEMMA OneExecute ==
  ASSUME TypeOK, NEW c \in Nat
  PROVE  LET N == <<Entry("execute", 1, c)>>
         IN  /\ N \in Seq(NativeEntries) /\ Len(N) = 1 /\ N[1].k = "execute"
             /\ N[1].n = 1 /\ N[1].ci = c
             /\ Count(N, Raising) = 0 /\ Count(N, Calling) = 0
<1> DEFINE e == Entry("execute", 1, c)
<1>1. e \in NativeEntries /\ e.k = "execute" /\ e.n = 1 /\ e.ci = c
  <2>1. "execute" \in Calling \union {"execute"} /\ 1 \in Nat /\ c \in Nat
    OBVIOUS
  <2> QED BY <2>1, EntryIs
<1> HIDE DEF e
<1>2. <<e>> \in Seq(NativeEntries) /\ Len(<<e>>) = 1 /\ <<e>>[1] = e
  BY <1>1
<1>3. e.k \notin Raising /\ e.k \notin Calling
  BY <1>1 DEF Raising, Calling
<1>4. ~ \E i \in DOMAIN <<e>> : <<e>>[i].k \in Raising
  BY <1>2, <1>3
<1>5. ~ \E i \in DOMAIN <<e>> : <<e>>[i].k \in Calling
  BY <1>2, <1>3
<1>6. Count(<<e>>, Raising) \in Nat /\ ~(Count(<<e>>, Raising) > 0)
  BY <1>2, <1>4, CountIs
<1>7. Count(<<e>>, Calling) \in Nat /\ ~(Count(<<e>>, Calling) > 0)
  BY <1>2, <1>5, CountIs
<1>8. Count(<<e>>, Raising) = 0 /\ Count(<<e>>, Calling) = 0
  BY <1>6, <1>7
<1> QED BY <1>1, <1>2, <1>8 DEF e

\* Start keeps the invariant.
LEMMA StartStep ==
  ASSUME IInv, Start
  PROVE  IInv'
<1> DEFINE x == Frame("lua", "all")
           N == <<Entry("execute", 1, 0)>>
<1>1. /\ mode = "dead" /\ frames' = <<x>> /\ native' = N /\ mode' = "run" /\ top' = "full"
      /\ IF coroutine THEN nCcalls' = 0 /\ callDepth' = 0
                      ELSE UNCHANGED <<nCcalls, callDepth>>
      /\ ciOverflow' = FALSE /\ coroutine' = coroutine
  BY DEF Start
<1>2. x \in Frames /\ x.fn = "lua" /\ Idle(x)
  BY NewFrame
<1>3. /\ N \in Seq(NativeEntries) /\ Len(N) = 1 /\ N[1].k = "execute"
      /\ N[1].n = 1 /\ N[1].ci = 0 /\ Count(N, Raising) = 0 /\ Count(N, Calling) = 0
  BY OneExecute DEF IInv
<1>4. nCcalls = 0 /\ callDepth = 0
  <2>1. native \in Seq(NativeEntries) /\ Len(native) = 0
    BY <1>1 DEF IInv, TypeOK, Layout, Placed
  <2> QED BY <2>1, Nothing DEF IInv, Counted
<1>5. nCcalls' = 0 /\ callDepth' = 0
  BY <1>1, <1>4
<1> HIDE DEF x, N
<1>6. frames' \in Seq(Frames) /\ Len(frames') = 1 /\ frames'[1] = x
  BY <1>1, <1>2
<1>7. Layout(frames', N, "run", "full", FALSE)
  <2>1. /\ \A f \in 1..Len(frames') : frames'[f].fn = "lua"
        /\ \A f \in 1..Len(frames') - 1 : frames'[f].cut
        /\ Idle(frames'[Len(frames')])
        /\ N[1].ci = Len(frames') - 1 /\ Len(frames') > 0
    BY <1>2, <1>3, <1>6
  <2> QED BY <1>3, <1>6, <2>1, Alone
<1>8. TypeOK'
  BY <1>1, <1>3, <1>5, <1>6 DEF IInv, TypeOK, Modes
<1>9. Counted'
  BY <1>1, <1>3, <1>5 DEF Counted
<1> QED BY <1>1, <1>7, <1>8, <1>9 DEF IInv

\* A thread that is dead is laid out.
LEMMA Empty ==
  ASSUME NEW F, NEW N, Len(F) = 0, Len(N) = 0, NEW t, NEW over
  PROVE  Layout(F, N, "dead", t, over)
  BY DEF Layout, Stacked, Standing, Placed, Waiting, Foreign, Resumed, Limited

\* End keeps the invariant.
LEMMA EndStep ==
  ASSUME IInv, End
  PROVE  IInv'
<1>1. /\ native = <<>> /\ frames' = <<>> /\ mode' = "dead"
      /\ UNCHANGED <<native, top, nCcalls, callDepth, ciOverflow, coroutine>>
  BY DEF End
<1>2. frames' \in Seq(Frames) /\ Len(frames') = 0 /\ Len(native) = 0
  BY <1>1
<1>3. Layout(frames', native, "dead", top, ciOverflow)
  BY <1>2, Empty
<1>4. TypeOK' /\ Counted'
  BY <1>1, <1>2 DEF IInv, TypeOK, Counted, Modes
<1> QED BY <1>1, <1>3, <1>4 DEF IInv

\* Suspend keeps the invariant.
LEMMA SuspendStep ==
  ASSUME IInv, Suspend
  PROVE  IInv'
<1>1. /\ native = <<>> /\ mode = "yield" /\ mode' = "suspended"
      /\ UNCHANGED <<frames, native, top, nCcalls, callDepth, ciOverflow, coroutine>>
  BY DEF Suspend
<1>2. Len(native) = 0 /\ Layout(frames, native, "yield", top, ciOverflow)
  BY <1>1 DEF IInv
<1>3. Layout(frames, native, "suspended", top, ciOverflow)
  <2>1. Stacked(native) /\ Standing(frames, native)
    BY <1>2 DEF Layout
  <2>2. Placed(frames, native, "suspended")
    BY <1>2 DEF Layout, Placed
  <2>3. Waiting(frames, native, "suspended")
    BY <1>2 DEF Waiting
  <2>4. Foreign(frames, native, "suspended")
    BY <1>2 DEF Layout, Foreign
  <2>5. Resumed(frames, native, "suspended", top)
    BY <1>2 DEF Resumed
  <2>6. Limited(native, "suspended", ciOverflow)
    BY <1>2 DEF Layout, Limited
  <2> QED BY <2>1, <2>2, <2>3, <2>4, <2>5, <2>6 DEF Layout
<1>4. TypeOK' /\ Counted'
  BY <1>1 DEF IInv, TypeOK, Counted, Modes
<1> QED BY <1>1, <1>3, <1>4 DEF IInv

\* Frames cut by a yield are frames still.
LEMMA CutFrames ==
  ASSUME NEW F \in Seq(Frames)
  PROVE  /\ Cut(F) \in Seq(Frames) /\ Len(Cut(F)) = Len(F)
         /\ \A f \in 1..Len(F) :
              /\ Cut(F)[f].fn = F[f].fn
              /\ Cut(F)[f].cut \/ (f = Len(F) /\ Cut(F)[f].waits = "none")
<1>1. DOMAIN F = 1..Len(F) /\ Len(F) \in Nat /\ \A f \in 1..Len(F) : F[f] \in Frames
  OBVIOUS
<1>2. ASSUME NEW f \in 1..Len(F)
      PROVE  LET y == [F[f] EXCEPT !.cut = F[f].cut \/ f < Len(F) \/ F[f].waits # "none"]
             IN  /\ y \in Frames /\ y.fn = F[f].fn
                 /\ y.cut \/ (f = Len(F) /\ y.waits = "none")
  <2>1. F[f] \in Frames
    BY <1>1
  <2>2. f < Len(F) \/ f = Len(F)
    <3>1. \A k \in Nat : \A i \in 1..k : i < k \/ i = k
      OBVIOUS
    <3> QED BY <1>1, <3>1
  <2> QED BY <2>1, <2>2 DEF Frames
<1>3. Cut(F) = [f \in 1..Len(F) |->
                 [F[f] EXCEPT !.cut = F[f].cut \/ f < Len(F) \/ F[f].waits # "none"]]
  BY <1>1 DEF Cut
<1>4. \A f \in 1..Len(F) :
        Cut(F)[f] = [F[f] EXCEPT !.cut = F[f].cut \/ f < Len(F) \/ F[f].waits # "none"]
  BY <1>3
<1>5. Cut(F) \in [1..Len(F) -> Frames]
  BY <1>2, <1>3
<1>6. Cut(F) \in Seq(Frames) /\ Len(Cut(F)) = Len(F)
  BY <1>1, <1>5
<1> QED BY <1>2, <1>4, <1>6

\* Resume keeps the invariant.
LEMMA ResumeStep ==
  ASSUME IInv, Resume
  PROVE  IInv'
<1>1. /\ mode = "suspended" /\ frames' = Cut(Pop(frames))
      /\ top' = Restored(Last(frames).wanted) /\ mode' = "done"
      /\ UNCHANGED <<native, nCcalls, callDepth, ciOverflow, coroutine>>
  BY DEF Resume
<1>2. /\ Len(native) = 0 /\ Layout(frames, native, "suspended", top, ciOverflow)
      /\ frames \in Seq(Frames) /\ Len(frames) > 0 /\ frames # <<>>
  <2>1. /\ Layout(frames, native, "suspended", top, ciOverflow) /\ frames \in Seq(Frames)
    BY <1>1 DEF IInv, TypeOK
  <2>2. Len(native) = 0 /\ Len(frames) > 0
    BY <2>1 DEF Layout, Placed
  <2> QED BY <2>1, <2>2
<1>3. /\ Pop(frames) \in Seq(Frames) /\ Len(Pop(frames)) = Len(frames) - 1
      /\ \A f \in 1..Len(frames) - 1 : Pop(frames)[f] = frames[f]
      /\ Last(frames) \in Frames /\ Len(frames) \in Nat
  BY <1>2, PopIs
<1>4. top' \in {"full", "open"}
  <2>1. Last(frames).wanted \in {"fixed", "all"}
    BY <1>3 DEF Frames
  <2> QED BY <1>1, <2>1 DEF Restored
<1>5. /\ frames' \in Seq(Frames) /\ Len(frames') = Len(frames) - 1
      /\ \A f \in 1..Len(frames') :
           /\ frames'[f].fn = Pop(frames)[f].fn
           /\ frames'[f].cut \/ (f = Len(frames') /\ frames'[f].waits = "none")
  BY <1>1, <1>3, CutFrames
<1>6. Layout(frames', native, "done", top', ciOverflow)
  <2>1. Stacked(native) /\ Standing(frames', native) /\ Waiting(frames', native, "done")
    BY <1>2 DEF Stacked, Standing, Waiting
  <2>2. Placed(frames', native, "done")
    BY <1>2 DEF Placed
  <2>3. Foreign(frames', native, "done")
    <3>1. \A f \in 1..Len(frames) : frames[f].fn # "lua" => f = Len(frames)
      BY <1>2 DEF Layout, Foreign
    <3>2. \A f \in 1..Len(frames') : f \in 1..Len(frames) - 1 /\ f # Len(frames)
                                     /\ f \in 1..Len(frames)
      BY <1>3, <1>5
    <3>3. \A f \in 1..Len(frames') : frames'[f].fn = "lua"
      BY <1>3, <1>5, <3>1, <3>2
    <3> QED BY <3>3 DEF Foreign
  <2>4. Resumed(frames', native, "done", top')
    BY <1>2, <1>4, <1>5 DEF Resumed
  <2>5. Limited(native, "done", ciOverflow)
    BY <1>2 DEF Layout, Limited
  <2> QED BY <2>1, <2>2, <2>3, <2>4, <2>5 DEF Layout
<1>7. TypeOK' /\ Counted'
  BY <1>1, <1>4, <1>5 DEF IInv, TypeOK, Counted, Modes
<1> QED BY <1>1, <1>6, <1>7 DEF IInv

\* ResumeNext keeps the invariant.
LEMMA ResumeNextStep ==
  ASSUME IInv, ResumeNext
  PROVE  IInv'
<1> DEFINE N == <<Entry("execute", 1, Len(frames) - 1)>>
<1>1. /\ mode = "done" /\ native = <<>> /\ frames # <<>> /\ native' = N /\ mode' = "run"
      /\ UNCHANGED <<frames, top, nCcalls, callDepth, ciOverflow, coroutine>>
  BY DEF ResumeNext
<1>2. /\ frames \in Seq(Frames) /\ Len(frames) \in Nat /\ Len(frames) > 0
      /\ Len(native) = 0 /\ Layout(frames, native, "done", top, ciOverflow)
  BY <1>1 DEF IInv, TypeOK
<1>3. Len(frames) - 1 \in Nat
  BY <1>2
<1>4. /\ N \in Seq(NativeEntries) /\ Len(N) = 1 /\ N[1].k = "execute"
      /\ N[1].n = 1 /\ N[1].ci = Len(frames) - 1
      /\ Count(N, Raising) = 0 /\ Count(N, Calling) = 0
  BY <1>3, OneExecute DEF IInv
<1> HIDE DEF N
<1>5. Layout(frames, N, "run", top, ciOverflow)
  <2>1. \A f \in 1..Len(frames) : frames[f].fn = "lua"
    BY <1>2 DEF Layout, Foreign
  <2>2. \A f \in 1..Len(frames) :
          frames[f].cut \/ (f = Len(frames) /\ frames[f].waits = "none" /\ top # "short")
    BY <1>2 DEF Layout, Resumed
  <2>3. ~ciOverflow
    BY <1>2 DEF Layout, Limited
  <2>4. /\ \A f \in 1..Len(frames) - 1 : frames[f].cut
        /\ Idle(frames[Len(frames)])
        /\ frames[Len(frames)].cut \/ top # "short"
    BY <1>2, <2>2 DEF Idle
  <2> QED BY <1>2, <1>4, <2>1, <2>3, <2>4, Alone
<1>6. Counted'
  <2>1. Count(native, Raising) = 0 /\ Count(native, Calling) = 0
    <3>1. native \in Seq(NativeEntries) /\ Len(native) = 0
      BY <1>2 DEF IInv, TypeOK
    <3> QED BY <3>1, Nothing
  <2> QED BY <1>1, <1>4, <2>1 DEF IInv, Counted
<1>7. TypeOK'
  BY <1>1, <1>4 DEF IInv, TypeOK, Modes
<1> QED BY <1>1, <1>5, <1>6, <1>7 DEF IInv

-----------------------------------------------------------------------------
(***************************************************************************)
(* IInv is inductive.                                                      *)
(***************************************************************************)
LEMMA InitIInv == Init => IInv
<1> SUFFICES ASSUME Init PROVE IInv
  OBVIOUS
<1>1. frames = <<>> /\ native = <<>> /\ mode = "dead" /\ top = "full"
      /\ nCcalls = 0 /\ callDepth = 0 /\ ciOverflow = FALSE /\ coroutine \in BOOLEAN
  BY DEF Init
<1>2. TypeOK
  <2>1. frames \in Seq(Frames) /\ native \in Seq(NativeEntries)
    BY <1>1
  <2>2. /\ mode \in Modes /\ top \in {"full", "short", "open"}
        /\ nCcalls \in Nat /\ callDepth \in Nat /\ ciOverflow \in BOOLEAN
    BY <1>1 DEF Modes
  <2> QED BY <1>1, <2>1, <2>2 DEF TypeOK
<1>3. Len(frames) = 0 /\ Len(native) = 0
  BY <1>1
<1>4. Layout(frames, native, "dead", top, ciOverflow)
  BY <1>3, Empty
<1>5. Counted
  BY <1>1, <1>2, <1>3, Nothing DEF Counted, TypeOK
<1> QED BY <1>1, <1>2, <1>4, <1>5 DEF IInv

\* Every step keeps the invariant.
LEMMA NextIInv ==
  ASSUME IInv, ~LateErrors, [Next]_vars
  PROVE  IInv'
<1>1. CASE Program
  <2>1. ASSUME NEW wanted \in {"fixed", "all"}, CallLua(wanted) PROVE IInv'
    BY <2>1, CallLuaStep
  <2>2. ASSUME NEW wanted \in {"fixed", "all"}, NEW fn \in RustFunctions,
               CallRust(fn, wanted)
        PROVE  IInv'
    BY <2>2, CallRustStep
  <2>3. ASSUME NEW op \in Operators, Operate(op) PROVE IInv'
    BY <2>3, OperateStep
  <2> QED BY <1>1, <2>1, <2>2, <2>3, TailCallStep, ReturnStep, SetListStep, RaiseStep
          DEF Program
<1>2. CASE Entries
  <2>1. ASSUME NEW fn \in {"lua"} \union RustFunctions, Call(fn) PROVE IInv'
    BY <2>1, CallStep
  <2> QED BY <1>2, <2>1, FinishOperatorStep, FinishCallStep, ReadAgainStep DEF Entries
<1>3. CASE Unwinds
  BY <1>3, UnwindStep, CatchStep, CallHandlerStep DEF Unwinds
<1>4. CASE Start \/ End \/ Suspend \/ Resume \/ ResumeNext
  BY <1>4, StartStep, EndStep, SuspendStep, ResumeStep, ResumeNextStep
<1>5. CASE UNCHANGED vars
  BY <1>5 DEF vars, IInv, TypeOK, Counted
<1> QED BY <1>1, <1>2, <1>3, <1>4, <1>5 DEF Next

(***************************************************************************)
(* Every state a thread reaches is laid out as IInv says, however many     *)
(* frames and nested calls are allowed.                                    *)
(***************************************************************************)
THEOREM Invariance ==
  ASSUME ~LateErrors
  PROVE  Spec => []IInv
<1>1. Init => IInv
  BY InitIInv
<1>2. IInv /\ [Next]_vars => IInv'
  BY NextIInv
<1> QED BY <1>1, <1>2, PTL DEF Spec

(***************************************************************************)
(* The variables keep their types: the counters are never negative, which  *)
(* as unsigned integers would wrap around.                                 *)
(***************************************************************************)
THEOREM TypeCorrect ==
  ASSUME ~LateErrors
  PROVE  Spec => []TypeOK
<1>1. IInv => TypeOK
  BY DEF IInv
<1>2. Spec => []IInv
  BY Invariance
<1> QED BY <1>1, <1>2, PTL

(***************************************************************************)
(* n_ccalls and call_depth count the entries on the Rust stack, and the    *)
(* overflow flag is up only for an error and the handlers called for it.   *)
(***************************************************************************)
THEOREM CountersHold ==
  ASSUME ~LateErrors
  PROVE  Spec => []Counters
<1>1. IInv => Counters
  <2> SUFFICES ASSUME IInv PROVE Counters
    OBVIOUS
  <2>1. native \in Seq(NativeEntries) /\ Counted /\ Limited(native, mode, ciOverflow)
    BY DEF IInv, TypeOK, Layout
  <2>2. nCcalls = Entered(Raising) /\ callDepth = Entered(Calling)
    BY <2>1 DEF Counted, Count, Entered
  <2>3. Entered({"handler"}) = Count(native, {"handler"})
    BY DEF Count, Entered
  <2>4. Count(native, {"handler"}) > 0 <=> \E i \in DOMAIN native : native[i].k \in {"handler"}
    BY <2>1, CountIs
  <2>5. ciOverflow => mode \in {"error", "dead"} \/ \E i \in 1..Len(native) : native[i].k = "handler"
    BY <2>1 DEF Limited
  <2>6. (\E i \in 1..Len(native) : native[i].k = "handler") => Entered({"handler"}) > 0
    BY <2>1, <2>3, <2>4
  <2> QED BY <2>2, <2>5, <2>6 DEF Counters
<1>2. Spec => []IInv
  BY Invariance
<1> QED BY <1>1, <1>2, PTL

(***************************************************************************)
(* The frame of a function that is to catch errors stays where it was,     *)
(* below those of its callees, and is on top when its call is over.        *)
(***************************************************************************)
THEOREM CatchersHold ==
  ASSUME ~LateErrors
  PROVE  Spec => []CatchersStand
<1>1. IInv => CatchersStand
  <2> SUFFICES ASSUME IInv PROVE CatchersStand
    OBVIOUS
  <2>1. /\ native \in Seq(NativeEntries) /\ frames \in Seq(Frames) /\ DOMAIN native = 1..Len(native)
        /\ DOMAIN frames = 1..Len(frames) /\ Stacked(native) /\ Standing(frames, native)
        /\ Placed(frames, native, mode)
    BY DEF IInv, TypeOK, Layout
  <2>2. \A i \in DOMAIN native : native[i].k \in Catching => Owns(native[i])
    BY <2>1 DEF Standing, Stands, Owns
  <2>3. \A i, j \in DOMAIN native :
          i < j /\ {native[i].k, native[j].k} \subseteq Catching
            => native[i].ci < native[j].ci
    <3> SUFFICES ASSUME NEW i \in 1..Len(native), NEW j \in 1..Len(native), i < j,
                        native[i].k \in Catching, native[j].k \in Catching
                 PROVE  native[i].ci < native[j].ci
      BY <2>1
    <3>1. UpTo(native[i]) <= From(native[j])
      BY <2>1 DEF Stacked
    <3>2. UpTo(native[i]) = native[i].ci /\ From(native[j]) = native[j].ci - 1
      BY DEF UpTo, From, Catching
    <3>3. native[i].ci \in Nat /\ native[j].ci \in Nat
      <4>1. native[i] \in NativeEntries /\ native[j] \in NativeEntries
        BY <2>1
      <4> QED BY <4>1, EntryShape
    <3> QED BY <3>1, <3>2, <3>3
  <2>4. ASSUME mode = "done", native # <<>>, Last(native).k \in Catching \ {"handler"}
        PROVE  Last(native).ci = Len(frames)
    <3>1. Len(native) > 0 /\ Last(native) = native[Len(native)]
      BY <2>1, <2>4, TopEntry
    <3>2. UpTo(Last(native)) = Len(frames)
      BY <2>1, <2>4, <3>1 DEF Placed
    <3> QED BY <2>4, <3>2 DEF UpTo, Catching
  <2> QED BY <2>2, <2>3, <2>4 DEF CatchersStand
<1>2. Spec => []IInv
  BY Invariance
<1> QED BY <1>1, <1>2, PTL

(***************************************************************************)
(* execute() goes on with Lua frames, as many as it counts.                *)
(***************************************************************************)
THEOREM ExecutesHold ==
  ASSUME ~LateErrors
  PROVE  Spec => []ExecutesLua
<1>1. IInv => ExecutesLua
  <2> SUFFICES ASSUME IInv, mode = "run" PROVE ExecutesLua
    BY DEF ExecutesLua
  <2>1. native \in Seq(NativeEntries) /\ frames \in Seq(Frames) /\ Len(frames) \in Nat
        /\ Layout(frames, native, "run", top, ciOverflow)
    BY DEF IInv, TypeOK
  <2>2. LET e == native[Len(native)]
        IN  /\ Len(native) >= 1 /\ e.k = "execute" /\ e.ci \in Nat /\ e.n \in Nat
            /\ e.ci + e.n = Len(frames)
            /\ \A f \in e.ci + 1 .. Len(frames) : frames[f].fn = "lua"
    BY <2>1, AtWork
  <2>3. native # <<>> /\ Last(native) = native[Len(native)]
    <3>1. native # <<>>
      BY <2>1, <2>2
    <3> QED BY <2>1, <3>1, TopEntry
  <2>4. ASSUME NEW i \in (Len(frames) - Last(native).n + 1)..Len(frames)
        PROVE  i \in DOMAIN frames /\ frames[i].fn = "lua"
    <3>1. i \in native[Len(native)].ci + 1 .. Len(frames)
      BY <2>1, <2>2, <2>3
    <3>2. i \in 1..Len(frames)
      BY <2>1, <2>2, <3>1
    <3> QED BY <2>1, <2>2, <3>1, <3>2
  <2> QED BY <2>2, <2>3, <2>4 DEF ExecutesLua, Over
<1>2. Spec => []IInv
  BY Invariance
<1> QED BY <1>1, <1>2, PTL

(***************************************************************************)
(* A Lua frame goes on with top restored and its operation complete,       *)
(* unless its execute() was lost to a yield.                               *)
(***************************************************************************)
THEOREM SettledHolds ==
  ASSUME ~LateErrors
  PROVE  Spec => []Settled
<1>1. IInv => Settled
  <2> SUFFICES ASSUME IInv, Running, ~Last(frames).cut
               PROVE  top # "short" /\ Last(frames).waits = "none"
    BY DEF Settled
  <2>1. /\ Layout(frames, native, "run", top, ciOverflow)
        /\ Last(frames) = frames[Len(frames)]
    BY RunningIs
  <2>2. LET e == native[Len(native)]
        IN  /\ e.ci \in Nat /\ e.n \in Nat /\ e.n >= 1 /\ e.ci + e.n = Len(frames)
            /\ \A f \in e.ci + 1 .. Len(frames) : Idle(frames[f])
    BY RunningIs
  <2>3. Len(frames) \in native[Len(native)].ci + 1 .. Len(frames)
    BY <2>2
  <2>4. Idle(frames[Len(frames)])
    BY <2>2, <2>3
  <2> QED BY <2>1, <2>4 DEF Idle, Layout, Resumed
<1>2. Spec => []IInv
  BY Invariance
<1> QED BY <1>1, <1>2, PTL
=============================================================================
