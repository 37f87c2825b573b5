----------------------------- MODULE GuardsProofs -----------------------------
(***************************************************************************)
(* Proofs about Guards: access to secrets, taint, environments and budgets *)
(* follow the call stacks, for any number of coroutines, frames, owners    *)
(* and environments, whichever topics have more than one thread.           *)
(***************************************************************************)
EXTENDS Guards, SequenceTheorems, WellFoundedInduction, TLAPS

-----------------------------------------------------------------------------
(***************************************************************************)
(* The inductive invariant.                                                *)
(***************************************************************************)
Values == Environments \cup {"global", "rust"}
Owned == Owners \cup {None}

Frames ==
  [fn : {"lua", "resume", "yield"} \cup Callers, taint : Taints, env : Values, has : Values, metered : BOOLEAN,
   keep : Seq(Taints) \cup (Owned \X BOOLEAN \X Owned), left : Nat, denied : BOOLEAN, given : Taints]

StacksOK ==
  /\ topic \in Topics
  /\ stack \in [Threads -> Seq(Frames)]
  /\ chain \in Seq(Threads) /\ chain # <<>>
  /\ status \in [Coroutines -> {"initial", "suspended", "running", "dead"}]

AccountsOK ==
  /\ revoked \in SUBSET (Threads \X (Nat \ {0}))
  /\ resumers \in Seq((Nat \ {0}) \X Threads)
  /\ stamp \in Taints /\ slot \in Taints /\ taintMode \in BOOLEAN
  /\ active \in Owned /\ exempt \in BOOLEAN
  /\ used \in [Owners -> 0 .. Limit]

TypeOK == StacksOK /\ AccountsOK

(***************************************************************************)
(* The threads that wait for one another, from the main one on, and what   *)
(* is on the stack of one that does not run.                               *)
(***************************************************************************)
Linked ==
  /\ chain[1] = Main
  /\ \A i, j \in DOMAIN chain : chain[i] = chain[j] => i = j
  /\ \A co \in Coroutines : status[co] = "running" <=> \E i \in DOMAIN chain : chain[i] = co
  /\ \A i \in DOMAIN chain : i # Len(chain) =>
       LET fs == stack[chain[i]] IN fs # <<>> /\ fs[Len(fs)].fn = "resume"

Parked ==
  \A co \in Coroutines :
    /\ status[co] \in {"initial", "dead"} => stack[co] = <<>>
    /\ status[co] = "suspended" =>
         /\ stack[co] # <<>> /\ stack[co][Len(stack[co])].fn = "yield"
         /\ \A j \in DOMAIN stack[co] : j # Len(stack[co]) => stack[co][j].fn = "lua"

(***************************************************************************)
(* What a securecall puts back: the taint of each frame below it, as the   *)
(* frames under the securecall say.                                        *)
(***************************************************************************)
Hidden(fs, i, k) == fs[i].fn = "range" \/ \E j \in i .. k : fs[j].fn = "securecall"

Tainted(fs, i, k) == IF Hidden(fs, i, k) THEN None ELSE fs[i].given

TaintsStand(fs) ==
  /\ \A i \in DOMAIN fs : fs[i].taint = Tainted(fs, i, Len(fs))
  /\ \A k \in DOMAIN fs : fs[k].fn = "securecall" =>
       /\ fs[k].keep \in Seq(Taints) /\ Len(fs[k].keep) = k
       /\ \A i \in 1 .. k - 1 : fs[k].keep[i] = Tainted(fs, i, k - 1)

AtHome(fs) == \A i \in DOMAIN fs : fs[i].has = Nearest(fs, i)

ScopesKeep(fs) == \A i \in DOMAIN fs : IsScope(fs[i]) => fs[i].keep \in Owned \X BOOLEAN \X Owned

Proper(fs) == TaintsStand(fs) /\ AtHome(fs) /\ ScopesKeep(fs)

Standing == StacksOK /\ Linked /\ Parked /\ \A t \in Threads : Proper(stack[t])

Core == Standing /\ AccountsOK

(***************************************************************************)
(* The entry of a thread is its lowest frame that has lost its access, or  *)
(* one above its stack that a push will drop: the host does not prune.  A  *)
(* waiting thread that is not listed as a resumer has no entry.            *)
(***************************************************************************)
Entry(r, t, fs) ==
  /\ \A x, y \in r : x[1] = t /\ y[1] = t => x = y
  /\ \A x \in r : x[1] = t =>
       /\ x[2] <= Len(fs) => fs[x[2]].denied
       /\ x[2] > Len(fs) => t = Main /\ fs = <<>>
       /\ \A j \in DOMAIN fs : j < x[2] => ~fs[j].denied
  /\ \A j \in DOMAIN fs : fs[j].denied => \E x \in r : x[1] = t

Entered ==
  /\ \A t \in Threads : Entry(revoked, t, stack[t])
  /\ \A t \in Threads : \A j \in DOMAIN stack[t] : stack[t][j].fn = "range" => topic = "taint"
  /\ topic # "secrets" => revoked = {}

Enrolled ==
  /\ \A i \in DOMAIN resumers :
       /\ resumers[i][1] \in DOMAIN chain /\ resumers[i][1] # Len(chain)
       /\ resumers[i][2] = chain[resumers[i][1]]
  /\ \A i, j \in DOMAIN resumers : i < j => resumers[i][1] < resumers[j][1]
  /\ \A k \in DOMAIN chain : k # Len(chain) =>
       \/ \E i \in DOMAIN resumers : resumers[i][1] = k
       \/ \A x \in revoked : x[1] # chain[k]

(***************************************************************************)
(* What the scopes of a chain of stacks make of the budgets.  A scope      *)
(* keeps what the ones around it make, and a Lua function is metered as    *)
(* they say.                                                               *)
(***************************************************************************)
Mark(i, j, f) == [at |-> <<i, j>>, fn |-> f.fn, keep |-> f.keep]

Marks(c, st) == UNION {{Mark(i, j, st[c[i]][j]) : j \in {k \in DOMAIN st[c[i]] : IsScope(st[c[i]][k])}} : i \in DOMAIN c}

Within(M, p) == {s \in M : Around(s.at, p)}

Made(M, a, e) ==
  /\ e = \E s \in M : s.fn = "exempt"
  /\ \A s \in M : (\A r \in M \ {s} : Around(r.at, s.at)) => a = IF e THEN None ELSE s.keep[3]
  /\ M = {} => a = None

Charges(M, p, f) == \E a \in Owned, e \in BOOLEAN : Made(Within(M, p), a, e) /\ f.metered = (a # None)

ScopesHold(c, st, a, e) ==
  /\ \A s \in Marks(c, st) : Made(Within(Marks(c, st), s.at), s.keep[1], s.keep[2])
  /\ Made(Marks(c, st), a, e)
  /\ \A i \in DOMAIN c : \A j \in DOMAIN st[c[i]] :
       st[c[i]][j].fn = "lua" => Charges(Marks(c, st), <<i, j>>, st[c[i]][j])

ScopesStand == ScopesHold(chain, stack, active, exempt)

IInv == Core /\ Entered /\ Enrolled /\ (topic = "budget" => ScopesStand)

-----------------------------------------------------------------------------
(***************************************************************************)
(* Numbers and sequences.                                                  *)
(***************************************************************************)
\* A set of numbers has a least one.
LEMMA LeastExists ==
  ASSUME NEW S \in SUBSET Nat, S # {}
  PROVE  \E x \in S : \A y \in S : x <= y
<1> DEFINE R == OpToRel(<, Nat)
<1>1. IsWellFoundedOn(R, Nat)
  BY NatLessThanWellFounded, Zenon
<1>2. \A x, y \in Nat : <<y, x>> \in R <=> y < x
  BY DEF OpToRel
<1> HIDE DEF R
<1>3. \E x \in S : \A y \in S : ~ (<<y, x>> \in R)
  BY <1>1, WFMin, Zenon
<1>4. \E x \in S : \A y \in S : x \in Nat /\ y \in Nat /\ ~ (y < x)
  BY <1>2, <1>3, Zenon
<1> QED BY <1>4

\* One that is bounded has a greatest one.
LEMMA GreatestExists ==
  ASSUME NEW n \in Nat, NEW S \in SUBSET (1 .. n), S # {}
  PROVE  \E x \in S : \A y \in S : y <= x
<1> DEFINE T == {n - x : x \in S}
<1>1. T \in SUBSET Nat /\ T # {}
  <2>1. \A x \in S : n - x \in Nat
    OBVIOUS
  <2>2. T \in SUBSET Nat
    BY <2>1
  <2> QED BY <2>2
<1>2. \A y \in S : n - y \in T
  OBVIOUS
<1> HIDE DEF T
<1>3. PICK d \in T : \A y \in T : d <= y
  BY <1>1, LeastExists
<1>4. PICK x \in S : d = n - x
  BY <1>3 DEF T
<1>5. ASSUME NEW y \in S PROVE y <= x
  <2>1. n - x <= n - y /\ x \in 1 .. n /\ y \in 1 .. n
    BY <1>2, <1>3, <1>4
  <2> QED BY <2>1
<1> QED BY <1>4, <1>5

\* The lowest of the numbers above another one.
LEMMA LowestIs ==
  ASSUME NEW S \in SUBSET Nat, S # {}
  PROVE  Lowest(S) \in S /\ \A j \in S : Lowest(S) <= j
<1>1. \E i \in S : \A j \in S : i <= j
  BY LeastExists
<1> QED BY <1>1 DEF Lowest

\* A place that is not the last one, or is no longer than the sequence.
LEMMA BelowLast ==
  ASSUME NEW n \in Nat
  PROVE  /\ \A i \in 1 .. n : i # n => i \in 1 .. n - 1
         /\ n <= n /\ n <= n + 1 /\ n # n + 1
OBVIOUS

\* There is a place before the last one.
LEMMA BeforeLast ==
  ASSUME NEW n \in Nat, n >= 1, n # 1
  PROVE  n >= 2 /\ n - 1 \in 1 .. n /\ n - 1 # n
OBVIOUS

\* One place more, and one less.
LEMMA OneMore ==
  ASSUME NEW n \in Nat
  PROVE  /\ \A i \in 1 .. n + 1 : i \in 1 .. n \/ i = n + 1
         /\ \A i \in 1 .. n : i \in 1 .. n + 1 /\ i # n + 1
         /\ n + 1 \in 1 .. n + 1 /\ n + 1 \in Nat /\ n + 1 > 0
         /\ n > 0 => /\ 1 \in 1 .. n /\ n \in 1 .. n /\ n - 1 \in Nat
                     /\ \A i \in 1 .. n - 1 : i \in 1 .. n /\ i # n
OBVIOUS

\* A sequence and its last element.
LEMMA SequenceIs ==
  ASSUME NEW S, NEW s \in Seq(S)
  PROVE  /\ DOMAIN s = 1 .. Len(s) /\ Len(s) \in Nat /\ \A i \in 1 .. Len(s) : s[i] \in S
         /\ s # <<>> <=> Len(s) > 0
         /\ Last(s) = s[Len(s)]
BY DEF Last

\* One that is made element by element.
LEMMA MadeSequence ==
  ASSUME NEW S, NEW n \in Nat, NEW s, DOMAIN s = 1 .. n, s = [i \in 1 .. n |-> s[i]], \A i \in 1 .. n : s[i] \in S
  PROVE  s \in Seq(S) /\ Len(s) = n
BY SMT

\* With one more element.
LEMMA PushIs ==
  ASSUME NEW S, NEW s \in Seq(S), NEW x \in S
  PROVE  /\ Append(s, x) \in Seq(S) /\ Len(Append(s, x)) = Len(s) + 1
         /\ Append(s, x)[Len(s) + 1] = x /\ \A i \in 1 .. Len(s) : Append(s, x)[i] = s[i]
BY SMT

\* The first n elements.
LEMMA CutIs ==
  ASSUME NEW S, NEW s \in Seq(S), NEW n \in 0 .. Len(s)
  PROVE  /\ SubSeq(s, 1, n) \in Seq(S) /\ Len(SubSeq(s, 1, n)) = n
         /\ \A i \in 1 .. n : SubSeq(s, 1, n)[i] = s[i]
BY SMT

\* Without the last element.
LEMMA FrontIs ==
  ASSUME NEW S, NEW s \in Seq(S), s # <<>>
  PROVE  /\ Front(s) \in Seq(S) /\ Len(Front(s)) = Len(s) - 1 /\ Len(s) >= 1
         /\ \A i \in 1 .. Len(s) - 1 : Front(s)[i] = s[i]
<1>1. Len(s) \in Nat /\ Len(s) >= 1 /\ Len(s) - 1 \in 0 .. Len(s)
  OBVIOUS
<1>2. Front(s) = SubSeq(s, 1, Len(s) - 1)
  BY DEF Front
<1> QED BY <1>1, <1>2, CutIs

\* With another last element.
LEMMA TopIs ==
  ASSUME NEW S, NEW s \in Seq(S), s # <<>>, NEW x \in S
  PROVE  /\ Append(Front(s), x) \in Seq(S) /\ Len(Append(Front(s), x)) = Len(s) /\ Len(s) >= 1
         /\ Append(Front(s), x)[Len(s)] = x /\ \A i \in 1 .. Len(s) - 1 : Append(Front(s), x)[i] = s[i]
<1> DEFINE p == Front(s)
<1>1. p \in Seq(S) /\ Len(p) = Len(s) - 1 /\ Len(s) >= 1 /\ \A i \in 1 .. Len(s) - 1 : p[i] = s[i]
  BY FrontIs
<1> HIDE DEF p
<1>2. /\ Append(p, x) \in Seq(S) /\ Len(Append(p, x)) = Len(p) + 1
      /\ Append(p, x)[Len(p) + 1] = x /\ \A i \in 1 .. Len(p) : Append(p, x)[i] = p[i]
  BY <1>1, PushIs
<1> QED BY <1>1, <1>2 DEF p

-----------------------------------------------------------------------------
(***************************************************************************)
(* Frames that are made and changed.                                       *)
(***************************************************************************)
\* A new frame.
LEMMA FrameIs ==
  ASSUME NEW fn \in {"lua", "resume", "yield"} \cup Callers, NEW t \in Taints, NEW env \in Values
  PROVE  /\ Frame(fn, t, env) \in Frames
         /\ Frame(fn, t, env).fn = fn /\ Frame(fn, t, env).taint = t /\ Frame(fn, t, env).given = t
         /\ Frame(fn, t, env).env = env /\ Frame(fn, t, env).has = env /\ ~Frame(fn, t, env).denied
<1>1. <<>> \in Seq(Taints)
  OBVIOUS
<1> QED BY <1>1 DEF Frame, Frames

\* The parts of a frame that all but taint and what it holds are.
Alike(f, g) ==
  /\ f.fn = g.fn /\ f.env = g.env /\ f.metered = g.metered /\ f.keep = g.keep
  /\ f.denied = g.denied /\ f.given = g.given

\* A frame with other contents.
LEMMA FrameWith ==
  ASSUME NEW f \in Frames
  PROVE  /\ f.fn \in {"lua", "resume", "yield"} \cup Callers /\ f.taint \in Taints /\ f.given \in Taints
         /\ f.env \in Values /\ f.has \in Values /\ f.metered \in BOOLEAN /\ f.denied \in BOOLEAN
         /\ \A v \in Values : LET g == [f EXCEPT !.has = v]
                              IN g \in Frames /\ g.has = v /\ g.taint = f.taint /\ Alike(f, g)
         /\ \A t \in Taints : LET g == [f EXCEPT !.taint = t]
                              IN g \in Frames /\ g.has = f.has /\ g.taint = t /\ Alike(f, g)
         /\ LET g == Received(f)
            IN g \in Frames /\ g.has = f.has /\ g.taint = f.taint /\ Alike(f, g)
         /\ \A b \in BOOLEAN : LET g == [f EXCEPT !.metered = b]
                               IN /\ g \in Frames /\ g.has = f.has /\ g.taint = f.taint /\ g.given = f.given
                                  /\ g.fn = f.fn /\ g.env = f.env /\ g.keep = f.keep /\ g.denied = f.denied
                                  /\ g.metered = b
<1>1. f.left \in Nat /\ IF f.left > 0 THEN f.left - 1 \in Nat ELSE TRUE
  BY DEF Frames
<1>2. Received(f) \in Frames
  BY <1>1 DEF Received, Frames
<1>3. LET g == Received(f) IN g.has = f.has /\ g.taint = f.taint /\ Alike(f, g)
  BY DEF Received, Frames, Alike
<1>4. \A v \in Values : LET g == [f EXCEPT !.has = v]
                        IN g \in Frames /\ g.has = v /\ g.taint = f.taint /\ Alike(f, g)
  BY DEF Frames, Alike
<1>5. \A t \in Taints : LET g == [f EXCEPT !.taint = t]
                        IN g \in Frames /\ g.has = f.has /\ g.taint = t /\ Alike(f, g)
  BY DEF Frames, Alike
<1>6. \A b \in BOOLEAN : LET g == [f EXCEPT !.metered = b]
                         IN /\ g \in Frames /\ g.has = f.has /\ g.taint = f.taint /\ g.given = f.given
                            /\ g.fn = f.fn /\ g.env = f.env /\ g.keep = f.keep /\ g.denied = f.denied
                            /\ g.metered = b
  BY DEF Frames
<1>7. /\ f.fn \in {"lua", "resume", "yield"} \cup Callers /\ f.taint \in Taints /\ f.given \in Taints
      /\ f.env \in Values /\ f.has \in Values /\ f.metered \in BOOLEAN /\ f.denied \in BOOLEAN
  BY DEF Frames
<1> QED BY <1>2, <1>3, <1>4, <1>5, <1>6, <1>7

-----------------------------------------------------------------------------
(***************************************************************************)
(* What ends of a stack: the frames that stay, and their taints.           *)
(***************************************************************************)
Stack == Seq(Frames)

\* G has the first frames of F, but for their taints and contents.
Keeps(F, G, n) == \A i \in 1 .. n : Alike(F[i], G[i])

\* A taint that is put back.
LEMMA PutBackIs ==
  ASSUME NEW F \in Stack, NEW keep \in Seq(Taints), Len(keep) >= Len(F)
  PROVE  /\ PutBack(F, keep) \in Stack /\ Len(PutBack(F, keep)) = Len(F)
         /\ \A i \in 1 .. Len(F) : /\ PutBack(F, keep)[i].taint = keep[i] /\ PutBack(F, keep)[i].has = F[i].has
                                   /\ Alike(F[i], PutBack(F, keep)[i])
<1> DEFINE G == PutBack(F, keep)
<1>1. DOMAIN F = 1 .. Len(F) /\ Len(F) \in Nat /\ \A i \in 1 .. Len(F) : F[i] \in Frames /\ keep[i] \in Taints
  BY DEF Stack
<1>2. G = [i \in 1 .. Len(F) |-> [F[i] EXCEPT !.taint = keep[i]]]
  BY <1>1 DEF PutBack
<1>3. ASSUME NEW i \in 1 .. Len(F)
      PROVE  G[i] \in Frames /\ G[i].taint = keep[i] /\ G[i].has = F[i].has /\ Alike(F[i], G[i])
  <2>1. F[i] \in Frames /\ keep[i] \in Taints /\ G[i] = [F[i] EXCEPT !.taint = keep[i]]
    BY <1>1, <1>2
  <2> HIDE DEF G
  <2> QED BY <2>1, FrameWith
<1> DEFINE e(i) == [F[i] EXCEPT !.taint = keep[i]]
<1>4. G = [i \in 1 .. Len(F) |-> e(i)]
  BY <1>2
<1>5. \A i \in 1 .. Len(F) : e(i) \in Frames
  BY <1>2, <1>3
<1> HIDE DEF e, G
<1>6. G \in Stack /\ Len(G) = Len(F)
  BY <1>1, <1>4, <1>5 DEF Stack
<1> QED BY <1>3, <1>6 DEF G

\* The calls of securecall above a frame.
LEMMA SecureCallsAre ==
  ASSUME NEW F \in Stack, NEW n \in 0 .. Len(F)
  PROVE  /\ SecureCalls(F, n) \in SUBSET Nat
         /\ \A i : i \in SecureCalls(F, n) <=> i \in n + 1 .. Len(F) /\ F[i].fn = "securecall"
BY DEF SecureCalls

\* What stays when the frames above n end.
LEMMA RestoredIs ==
  ASSUME NEW F \in Stack, TaintsStand(F), NEW n \in 0 .. Len(F), NEW ok
  PROVE  /\ Restored(F, n, ok) \in Stack /\ Len(Restored(F, n, ok)) = n
         /\ Keeps(F, Restored(F, n, ok), n)
         /\ \A i \in 1 .. n : /\ Restored(F, n, ok)[i].has = F[i].has
                              /\ Restored(F, n, ok)[i].taint = Tainted(F, i, n)
<1> DEFINE G == Restored(F, n, ok)
           S == SecureCalls(F, n)
           H == SubSeq(F, 1, n)
<1>1. H \in Stack /\ Len(H) = n /\ \A i \in 1 .. n : H[i] = F[i]
  BY CutIs DEF Stack
<1>2. S \in SUBSET Nat /\ \A i : i \in S <=> i \in n + 1 .. Len(F) /\ F[i].fn = "securecall"
  BY SecureCallsAre
<1>3. Len(F) \in Nat /\ DOMAIN F = 1 .. Len(F) /\ n \in Nat /\ n <= Len(F)
  BY DEF Stack
<1>4. G = IF S = {} THEN H ELSE PutBack(H, F[Lowest(S)].keep)
  BY DEF Restored
<1> HIDE DEF G, S, H
<1>5. CASE S = {}
  <2>1. G = H
    BY <1>4, <1>5
  <2>2. ASSUME NEW i \in 1 .. n PROVE F[i].taint = Tainted(F, i, n)
    <3>1. i \in DOMAIN F /\ F[i].taint = Tainted(F, i, Len(F))
      BY <1>3 DEF TaintsStand
    <3>2. \A j \in n + 1 .. Len(F) : F[j].fn # "securecall"
      BY <1>2, <1>5
    <3>3. Hidden(F, i, Len(F)) <=> Hidden(F, i, n)
      BY <1>3, <3>2 DEF Hidden
    <3> QED BY <3>1, <3>3 DEF Tainted
  <2>3. \A i \in 1 .. n : Alike(F[i], H[i])
    BY <1>1 DEF Alike
  <2> QED BY <1>1, <2>1, <2>2, <2>3 DEF Keeps, G
<1>6. CASE S # {}
  <2> DEFINE k == Lowest(S)
             keep == F[k].keep
  <2>1. k \in S /\ \A j \in S : k <= j
    BY <1>2, <1>6, LowestIs
  <2> HIDE DEF k
  <2>2. k \in n + 1 .. Len(F) /\ k \in DOMAIN F /\ F[k].fn = "securecall" /\ k \in Nat
    BY <1>2, <1>3, <2>1
  <2>3. keep \in Seq(Taints) /\ Len(keep) = k /\ \A i \in 1 .. k - 1 : keep[i] = Tainted(F, i, k - 1)
    BY <2>2 DEF TaintsStand
  <2>4. \A j \in n + 1 .. k - 1 : F[j].fn # "securecall"
    BY <1>2, <1>3, <2>1, <2>2
  <2>5. ASSUME NEW i \in 1 .. n PROVE keep[i] = Tainted(F, i, n)
    <3>1. i \in 1 .. k - 1
      BY <1>3, <2>2
    <3>2. Hidden(F, i, k - 1) <=> Hidden(F, i, n)
      BY <1>3, <2>2, <2>4 DEF Hidden
    <3> QED BY <2>3, <3>1, <3>2 DEF Tainted
  <2> HIDE DEF keep
  <2>6. Len(keep) >= Len(H) /\ G = PutBack(H, keep)
    BY <1>1, <1>3, <1>4, <1>6, <2>2, <2>3 DEF k, keep
  <2>7. /\ G \in Stack /\ Len(G) = n
        /\ \A i \in 1 .. n : /\ G[i].taint = keep[i] /\ G[i].has = H[i].has /\ Alike(H[i], G[i])
    BY <1>1, <2>3, <2>6, PutBackIs
  <2> QED BY <1>1, <2>5, <2>7 DEF Keeps, G
<1> QED BY <1>5, <1>6

-----------------------------------------------------------------------------
(***************************************************************************)
(* Taints.                                                                 *)
(***************************************************************************)
\* Who hides a taint is seen from the frames alone.
LEMMA TaintedSame ==
  ASSUME NEW F, NEW G, NEW n \in Nat, NEW i \in 1 .. n, NEW k \in Int, k <= n,
         \A j \in 1 .. n : F[j].fn = G[j].fn /\ F[j].given = G[j].given
  PROVE  Tainted(F, i, k) = Tainted(G, i, k)
<1>1. \A j \in i .. k : j \in 1 .. n
  OBVIOUS
<1> QED BY <1>1 DEF Tainted, Hidden

\* A stack whose frames have the taints that its own securecalls leave them.
LEMMA TaintsOf ==
  ASSUME NEW F \in Stack, TaintsStand(F), NEW G \in Stack, Len(G) <= Len(F),
         \A i \in 1 .. Len(G) : /\ G[i].fn = F[i].fn /\ G[i].given = F[i].given /\ G[i].keep = F[i].keep
                                /\ G[i].taint = Tainted(F, i, Len(G))
  PROVE  TaintsStand(G)
<1>1. DOMAIN G = 1 .. Len(G) /\ Len(G) \in Nat /\ DOMAIN F = 1 .. Len(F) /\ Len(F) \in Nat
  BY DEF Stack
<1>2. \A i \in 1 .. Len(G), k \in Int : k <= Len(G) => Tainted(F, i, k) = Tainted(G, i, k)
  BY <1>1, TaintedSame
<1>3. \A i \in DOMAIN G : G[i].taint = Tainted(G, i, Len(G))
  BY <1>1, <1>2
<1>4. ASSUME NEW k \in DOMAIN G, G[k].fn = "securecall"
      PROVE  /\ G[k].keep \in Seq(Taints) /\ Len(G[k].keep) = k
             /\ \A i \in 1 .. k - 1 : G[k].keep[i] = Tainted(G, i, k - 1)
  <2>1. k \in DOMAIN F /\ F[k].fn = "securecall" /\ G[k].keep = F[k].keep
    BY <1>1, <1>4
  <2>2. /\ F[k].keep \in Seq(Taints) /\ Len(F[k].keep) = k
        /\ \A i \in 1 .. k - 1 : F[k].keep[i] = Tainted(F, i, k - 1)
    BY <2>1 DEF TaintsStand
  <2>3. \A i \in 1 .. k - 1 : i \in 1 .. Len(G) /\ k - 1 \in Int /\ k - 1 <= Len(G)
    BY <1>1
  <2> QED BY <1>2, <2>1, <2>2, <2>3
<1> QED BY <1>3, <1>4 DEF TaintsStand

\* One more frame that hides no other.
LEMMA TaintsPush ==
  ASSUME NEW F \in Stack, TaintsStand(F), NEW G \in Stack, Len(G) = Len(F) + 1,
         \A i \in 1 .. Len(F) : G[i] = F[i],
         G[Len(G)].fn # "securecall",
         G[Len(G)].taint = IF G[Len(G)].fn = "range" THEN None ELSE G[Len(G)].given
  PROVE  TaintsStand(G)
<1>1. DOMAIN G = 1 .. Len(G) /\ Len(G) \in Nat /\ DOMAIN F = 1 .. Len(F) /\ Len(F) \in Nat
  BY DEF Stack
<1>2. \A i \in 1 .. Len(F), k \in Int : k <= Len(F) => Tainted(F, i, k) = Tainted(G, i, k)
  BY <1>1, TaintedSame
<1>3. ASSUME NEW i \in DOMAIN G PROVE G[i].taint = Tainted(G, i, Len(G))
  <2>1. CASE i = Len(G)
    <3>1. Hidden(G, i, Len(G)) <=> G[i].fn = "range"
      BY <1>1, <2>1 DEF Hidden
    <3> QED BY <2>1, <3>1 DEF Tainted
  <2>2. CASE i # Len(G)
    <3>1. i \in 1 .. Len(F) /\ i \in DOMAIN F
      BY <1>1, <2>2
    <3>2. Hidden(G, i, Len(G)) <=> Hidden(G, i, Len(F))
      BY <1>1, <3>1 DEF Hidden
    <3>3. G[i].taint = Tainted(F, i, Len(F))
      BY <3>1 DEF TaintsStand
    <3>4. Tainted(F, i, Len(F)) = Tainted(G, i, Len(F))
      BY <1>1, <1>2, <3>1
    <3> QED BY <3>2, <3>3, <3>4 DEF Tainted
  <2> QED BY <2>1, <2>2
<1>4. ASSUME NEW k \in DOMAIN G, G[k].fn = "securecall"
      PROVE  /\ G[k].keep \in Seq(Taints) /\ Len(G[k].keep) = k
             /\ \A i \in 1 .. k - 1 : G[k].keep[i] = Tainted(G, i, k - 1)
  <2>1. k \in DOMAIN F /\ F[k].fn = "securecall" /\ G[k].keep = F[k].keep
    BY <1>1, <1>4
  <2>2. /\ F[k].keep \in Seq(Taints) /\ Len(F[k].keep) = k
        /\ \A i \in 1 .. k - 1 : F[k].keep[i] = Tainted(F, i, k - 1)
    BY <2>1 DEF TaintsStand
  <2>3. \A i \in 1 .. k - 1 : i \in 1 .. Len(F) /\ k - 1 \in Int /\ k - 1 <= Len(F)
    BY <1>1, <2>1
  <2> QED BY <1>2, <2>1, <2>2, <2>3
<1> QED BY <1>3, <1>4 DEF TaintsStand

\* A securecall hides all taints, and keeps them.
LEMMA TaintsSecure ==
  ASSUME NEW F \in Stack, TaintsStand(F), NEW G \in Stack, Len(G) = Len(F) + 1,
         \A i \in 1 .. Len(F) : /\ G[i].fn = F[i].fn /\ G[i].given = F[i].given /\ G[i].keep = F[i].keep
                                /\ G[i].taint = None,
         G[Len(G)].fn = "securecall", G[Len(G)].taint = None,
         G[Len(G)].keep \in Seq(Taints), Len(G[Len(G)].keep) = Len(G),
         \A i \in 1 .. Len(F) : G[Len(G)].keep[i] = F[i].taint
  PROVE  TaintsStand(G)
<1>1. DOMAIN G = 1 .. Len(G) /\ Len(G) \in Nat /\ DOMAIN F = 1 .. Len(F) /\ Len(F) \in Nat
  BY DEF Stack
<1>2. \A i \in 1 .. Len(F), k \in Int : k <= Len(F) => Tainted(F, i, k) = Tainted(G, i, k)
  BY <1>1, TaintedSame
<1>3. ASSUME NEW i \in DOMAIN G PROVE G[i].taint = Tainted(G, i, Len(G))
  <2>1. Hidden(G, i, Len(G))
    BY <1>1 DEF Hidden
  <2>2. G[i].taint = None
    BY <1>1
  <2> QED BY <2>1, <2>2 DEF Tainted
<1>4. ASSUME NEW k \in DOMAIN G, G[k].fn = "securecall"
      PROVE  /\ G[k].keep \in Seq(Taints) /\ Len(G[k].keep) = k
             /\ \A i \in 1 .. k - 1 : G[k].keep[i] = Tainted(G, i, k - 1)
  <2>1. CASE k = Len(G)
    <3>1. \A i \in 1 .. Len(F) : F[i].taint = Tainted(F, i, Len(F))
      BY <1>1 DEF TaintsStand
    <3>2. \A i \in 1 .. Len(F) : G[k].keep[i] = Tainted(G, i, Len(F))
      BY <1>1, <1>2, <2>1, <3>1
    <3> QED BY <1>1, <2>1, <3>2
  <2>2. CASE k # Len(G)
    <3>1. k \in DOMAIN F /\ F[k].fn = "securecall" /\ G[k].keep = F[k].keep
      BY <1>1, <1>4, <2>2
    <3>2. /\ F[k].keep \in Seq(Taints) /\ Len(F[k].keep) = k
          /\ \A i \in 1 .. k - 1 : F[k].keep[i] = Tainted(F, i, k - 1)
      BY <3>1 DEF TaintsStand
    <3>3. \A i \in 1 .. k - 1 : i \in 1 .. Len(F) /\ k - 1 \in Int /\ k - 1 <= Len(F)
      BY <1>1, <3>1
    <3> QED BY <1>2, <3>1, <3>2, <3>3
  <2> QED BY <2>1, <2>2
<1> QED BY <1>3, <1>4 DEF TaintsStand

-----------------------------------------------------------------------------
(***************************************************************************)
(* Environments.                                                           *)
(***************************************************************************)
\* The nearest Lua function is the frame itself, or that of the frame below.
LEMMA NearestIs ==
  ASSUME NEW F, NEW i \in Nat
  PROVE  /\ i = 0 => Nearest(F, i) = "global"
         /\ i > 0 /\ F[i].fn = "lua" => Nearest(F, i) = F[i].env
         /\ i > 0 /\ F[i].fn # "lua" => Nearest(F, i) = Nearest(F, i - 1)
<1> DEFINE lua(k) == {j \in 1 .. k : F[j].fn = "lua"}
<1>1. CASE i = 0
  <2>1. lua(i) = {}
    BY <1>1
  <2> QED BY <1>1, <2>1 DEF Nearest
<1>2. CASE i > 0 /\ F[i].fn = "lua"
  <2>1. i \in lua(i) /\ \A k \in lua(i) : k <= i
    BY <1>2
  <2> DEFINE c == CHOOSE j \in lua(i) : \A k \in lua(i) : k <= j
  <2>2. c \in lua(i) /\ \A k \in lua(i) : k <= c
    BY <2>1
  <2>3. c = i
    BY <2>1, <2>2
  <2>4. Nearest(F, i) = F[c].env
    BY <2>1 DEF Nearest
  <2> QED BY <1>2, <2>3, <2>4
<1>3. CASE i > 0 /\ F[i].fn # "lua"
  <2>1. lua(i) = lua(i - 1)
    BY <1>3
  <2> DEFINE env(S) == IF S = {} THEN "global" ELSE F[CHOOSE j \in S : \A k \in S : k <= j].env
  <2>2. \A k : Nearest(F, k) = env(lua(k))
    BY DEF Nearest
  <2> HIDE DEF env, lua
  <2> QED BY <1>3, <2>1, <2>2
<1> QED BY <1>1, <1>2, <1>3

\* It depends on the frames up to there only.
LEMMA NearestSame ==
  ASSUME NEW F, NEW G, NEW i \in Nat,
         \A j \in 1 .. i : F[j].fn = G[j].fn /\ F[j].env = G[j].env
  PROVE  Nearest(F, i) = Nearest(G, i)
<1> DEFINE lua(H) == {j \in 1 .. i : H[j].fn = "lua"}
<1>1. lua(F) = lua(G)
  OBVIOUS
<1>2. CASE lua(F) = {}
  BY <1>1, <1>2 DEF Nearest
<1>3. CASE lua(F) # {}
  <2> DEFINE c(S) == CHOOSE j \in S : \A k \in S : k <= j
  <2>1. \E j \in lua(F) : \A k \in lua(F) : k <= j
    <3> DEFINE S == lua(F)
    <3>1. S \in SUBSET (1 .. i) /\ S # {}
      BY <1>3
    <3> HIDE DEF S
    <3> QED BY <3>1, GreatestExists DEF S
  <2>2. c(lua(F)) \in lua(F) /\ c(lua(F)) = c(lua(G))
    BY <1>1, <2>1
  <2>3. Nearest(F, i) = F[c(lua(F))].env /\ Nearest(G, i) = G[c(lua(G))].env
    BY <1>1, <1>3 DEF Nearest
  <2> HIDE DEF c
  <2> QED BY <2>2, <2>3
<1> QED BY <1>2, <1>3

\* What is in hand at the end of a stack is at home there.
LEMMA HoldsHome ==
  ASSUME NEW F \in Stack, AtHome(F)
  PROVE  Holds(F) = Nearest(F, Len(F)) /\ Holds(F) \in Values
<1>1. DOMAIN F = 1 .. Len(F) /\ Len(F) \in Nat /\ (F # <<>> <=> Len(F) > 0) /\ Last(F) = F[Len(F)]
      /\ \A i \in 1 .. Len(F) : F[i] \in Frames
  BY SequenceIs DEF Stack
<1>2. CASE F = <<>>
  BY <1>1, <1>2, NearestIs DEF Holds, Values
<1>3. CASE F # <<>>
  <2>1. Holds(F) = F[Len(F)].has /\ Len(F) \in DOMAIN F
    BY <1>1, <1>3 DEF Holds
  <2>2. F[Len(F)].has \in Values
    BY <1>1, <2>1, FrameWith
  <2> QED BY <2>1, <2>2 DEF AtHome
<1> QED BY <1>2, <1>3

\* A stack whose frames hold what those of another one do, but for its last.
LEMMA HomeOf ==
  ASSUME NEW F \in Stack, AtHome(F), NEW G \in Stack, NEW n \in Nat, n <= Len(F), n <= Len(G), Len(G) <= n + 1,
         \A i \in 1 .. n : /\ G[i].fn = F[i].fn /\ G[i].env = F[i].env
                           /\ G[i].has = F[i].has \/ G[i].has = Nearest(F, i),
         Len(G) = n + 1 => G[n + 1].has = IF G[n + 1].fn = "lua" THEN G[n + 1].env ELSE Nearest(F, n)
  PROVE  AtHome(G)
<1>1. DOMAIN G = 1 .. Len(G) /\ DOMAIN F = 1 .. Len(F) /\ Len(G) \in Nat /\ Len(F) \in Nat
  BY DEF Stack
<1>2. \A i \in 0 .. n : Nearest(F, i) = Nearest(G, i)
  <2> SUFFICES ASSUME NEW i \in 0 .. n PROVE Nearest(F, i) = Nearest(G, i)
    OBVIOUS
  <2>1. i \in Nat /\ \A j \in 1 .. i : F[j].fn = G[j].fn /\ F[j].env = G[j].env
    OBVIOUS
  <2> QED BY <2>1, NearestSame
<1>3. ASSUME NEW i \in 1 .. n PROVE G[i].has = Nearest(G, i)
  <2>1. i \in DOMAIN F /\ i \in 0 .. n
    <3>1. Len(F) \in Nat /\ n \in Nat /\ n <= Len(F) /\ i \in 1 .. n
      BY <1>1
    <3>2. i \in 1 .. Len(F) /\ i \in 0 .. n
      BY <3>1
    <3> QED BY <1>1, <3>2
  <2>2. F[i].has = Nearest(F, i)
    BY <2>1 DEF AtHome
  <2> QED BY <1>2, <2>1, <2>2
<1>4. ASSUME Len(G) = n + 1 PROVE G[n + 1].has = Nearest(G, n + 1)
  <2>1. Nearest(G, n + 1) = IF G[n + 1].fn = "lua" THEN G[n + 1].env ELSE Nearest(G, (n + 1) - 1)
    BY NearestIs
  <2>2. (n + 1) - 1 = n /\ n \in 0 .. n
    OBVIOUS
  <2> QED BY <1>2, <1>4, <2>1, <2>2
<1>5. ASSUME NEW i \in 1 .. Len(G) PROVE i \in 1 .. n \/ (i = n + 1 /\ Len(G) = n + 1)
  <2>1. Len(G) \in Nat /\ Len(G) <= n + 1 /\ n \in Nat
    BY <1>1
  <2> QED BY <2>1
<1> QED BY <1>1, <1>3, <1>4, <1>5 DEF AtHome

-----------------------------------------------------------------------------
(***************************************************************************)
(* Proper stacks: pushed, cut, and with another top.                       *)
(***************************************************************************)
\* A frame that hides no other is pushed.
LEMMA ProperPush ==
  ASSUME NEW F \in Stack, Proper(F), NEW f \in Frames,
         f.fn # "securecall", f.taint = IF f.fn = "range" THEN None ELSE f.given,
         f.has = IF f.fn = "lua" THEN f.env ELSE Holds(F),
         IsScope(f) => f.keep \in Owned \X BOOLEAN \X Owned
  PROVE  Append(F, f) \in Stack /\ Proper(Append(F, f))
<1> DEFINE G == Append(F, f)
<1>1. G \in Stack /\ Len(G) = Len(F) + 1 /\ G[Len(F) + 1] = f /\ \A i \in 1 .. Len(F) : G[i] = F[i]
  BY PushIs DEF Stack
<1>2. Len(F) \in Nat /\ DOMAIN F = 1 .. Len(F) /\ DOMAIN G = 1 .. Len(F) + 1
  BY <1>1 DEF Stack
<1> HIDE DEF G
<1>3. TaintsStand(G)
  BY <1>1, <1>2, TaintsPush DEF Proper
<1>4. AtHome(G)
  BY <1>1, <1>2, HomeOf, HoldsHome DEF Proper
<1>5. ScopesKeep(G)
  <2> SUFFICES ASSUME NEW i \in DOMAIN G, IsScope(G[i]) PROVE G[i].keep \in Owned \X BOOLEAN \X Owned
    BY DEF ScopesKeep
  <2>1. CASE i = Len(F) + 1
    BY <1>1, <2>1
  <2>2. CASE i # Len(F) + 1
    <3>1. i \in DOMAIN F /\ G[i] = F[i]
      BY <1>1, <1>2, <2>2
    <3> QED BY <3>1 DEF Proper, ScopesKeep
  <2> QED BY <2>1, <2>2
<1> QED BY <1>1, <1>3, <1>4, <1>5 DEF Proper, G

\* Frames end.
LEMMA ProperCut ==
  ASSUME NEW F \in Stack, Proper(F), NEW n \in 0 .. Len(F), NEW ok
  PROVE  Restored(F, n, ok) \in Stack /\ Proper(Restored(F, n, ok))
<1> DEFINE G == Restored(F, n, ok)
<1>1. /\ G \in Stack /\ Len(G) = n /\ Keeps(F, G, n)
      /\ \A i \in 1 .. n : G[i].has = F[i].has /\ G[i].taint = Tainted(F, i, n)
  BY RestoredIs DEF Proper
<1>2. Len(F) \in Nat /\ DOMAIN F = 1 .. Len(F) /\ DOMAIN G = 1 .. n /\ n \in Nat /\ n <= Len(F)
  BY <1>1 DEF Stack
<1> HIDE DEF G
<1>3. \A i \in 1 .. n : G[i].fn = F[i].fn /\ G[i].given = F[i].given /\ G[i].keep = F[i].keep /\ G[i].env = F[i].env
  BY <1>1 DEF Keeps, Alike
<1>4. TaintsStand(G)
  BY <1>1, <1>2, <1>3, TaintsOf DEF Proper
<1>5. AtHome(G)
  BY <1>1, <1>2, <1>3, HomeOf DEF Proper
<1>6. ScopesKeep(G)
  BY <1>2, <1>3 DEF Proper, ScopesKeep, IsScope
<1> QED BY <1>1, <1>4, <1>5, <1>6 DEF Proper, G

\* The stack without its last frame, if that is no securecall.
LEMMA ProperFront ==
  ASSUME NEW F \in Stack, Proper(F), F # <<>>, F[Len(F)].fn # "securecall"
  PROVE  Front(F) \in Stack /\ Proper(Front(F))
<1> DEFINE G == Front(F)
<1>1. G \in Stack /\ Len(G) = Len(F) - 1 /\ \A i \in 1 .. Len(F) - 1 : G[i] = F[i]
  BY FrontIs DEF Stack
<1>2. Len(F) \in Nat /\ Len(F) > 0 /\ DOMAIN F = 1 .. Len(F) /\ DOMAIN G = 1 .. Len(G) /\ Len(G) \in Nat
  BY <1>1 DEF Stack
<1> HIDE DEF G
<1>3. \A i \in 1 .. Len(G) : G[i] = F[i]
  BY <1>1
<1>4. ASSUME NEW i \in 1 .. Len(G) PROVE G[i].taint = Tainted(F, i, Len(G))
  <2>1. G[i].taint = Tainted(F, i, Len(F))
    BY <1>1, <1>2, <1>3 DEF Proper, TaintsStand
  <2>2. Hidden(F, i, Len(F)) <=> Hidden(F, i, Len(G))
    BY <1>1, <1>2 DEF Hidden
  <2> QED BY <2>1, <2>2 DEF Tainted
<1>5. TaintsStand(G)
  BY <1>1, <1>2, <1>3, <1>4, TaintsOf DEF Proper
<1>6. AtHome(G)
  BY <1>1, <1>2, <1>3, HomeOf DEF Proper
<1>7. ScopesKeep(G)
  BY <1>1, <1>2, <1>3 DEF Proper, ScopesKeep
<1> QED BY <1>1, <1>5, <1>6, <1>7 DEF Proper, G

\* Another last frame, that stands where the last one stood.
LEMMA ProperTop ==
  ASSUME NEW F \in Stack, Proper(F), F # <<>>, NEW f \in Frames,
         Alike(Last(F), f), f.taint = Last(F).taint,
         f.has = Last(F).has \/ f.has = Nearest(F, Len(F))
  PROVE  Append(Front(F), f) \in Stack /\ Proper(Append(Front(F), f))
<1> DEFINE G == Append(Front(F), f)
<1>1. G \in Stack /\ Len(G) = Len(F) /\ G[Len(F)] = f /\ \A i \in 1 .. Len(F) - 1 : G[i] = F[i]
  BY TopIs DEF Stack
<1>2. Len(F) \in Nat /\ Len(F) > 0 /\ DOMAIN F = 1 .. Len(F) /\ DOMAIN G = 1 .. Len(F) /\ Last(F) = F[Len(F)]
  BY <1>1, SequenceIs DEF Stack
<1> HIDE DEF G
<1>3. ASSUME NEW i \in 1 .. Len(F)
      PROVE  /\ Alike(F[i], G[i]) /\ G[i].taint = F[i].taint
             /\ G[i].has = F[i].has \/ G[i].has = Nearest(F, i)
  <2>1. CASE i = Len(F)
    BY <1>1, <1>2, <2>1
  <2>2. CASE i # Len(F)
    <3>1. i \in 1 .. Len(F) - 1
      <4>1. Len(F) \in Nat /\ i \in 1 .. Len(F) /\ i # Len(F)
        BY <1>2, <2>2
      <4> QED BY <4>1, BelowLast
    <3>2. G[i] = F[i]
      BY <1>1, <3>1
    <3> QED BY <3>2 DEF Alike
  <2> QED BY <2>1, <2>2
<1>4. \A i \in 1 .. Len(F) : G[i].fn = F[i].fn /\ G[i].given = F[i].given /\ G[i].keep = F[i].keep /\ G[i].env = F[i].env
  BY <1>3 DEF Alike
<1>5. \A i \in 1 .. Len(F) : G[i].taint = Tainted(F, i, Len(F))
  BY <1>2, <1>3 DEF Proper, TaintsStand
<1>6. TaintsStand(G)
  BY <1>1, <1>2, <1>4, <1>5, TaintsOf DEF Proper
<1>7. AtHome(G)
  <2>1. Len(F) <= Len(F) /\ Len(F) <= Len(G) /\ Len(G) <= Len(F) + 1 /\ Len(G) # Len(F) + 1
    <3>1. Len(F) \in Nat /\ Len(G) = Len(F)
      BY <1>1, <1>2
    <3> QED BY <3>1, BelowLast
  <2> QED BY <1>1, <1>2, <1>3, <1>4, <2>1, HomeOf DEF Proper
<1>8. ScopesKeep(G)
  BY <1>1, <1>2, <1>4 DEF Proper, ScopesKeep, IsScope
<1> QED BY <1>1, <1>6, <1>7, <1>8 DEF Proper, G

\* The frames of a coroutine that goes on, without that of its yield.
LEMMA ProperBody ==
  ASSUME NEW F \in Stack, Proper(F), F # <<>>, F[Len(F)].fn # "securecall",
         NEW G \in Stack, Len(G) = Len(F) - 1,
         \A i \in 1 .. Len(F) - 1 : /\ G[i].fn = F[i].fn /\ G[i].given = F[i].given /\ G[i].keep = F[i].keep
                                    /\ G[i].env = F[i].env /\ G[i].taint = F[i].taint /\ G[i].has = F[i].has
  PROVE  Proper(G)
<1> DEFINE H == Front(F)
<1>1. H \in Stack /\ Proper(H) /\ Len(H) = Len(F) - 1 /\ \A i \in 1 .. Len(F) - 1 : H[i] = F[i]
  BY FrontIs, ProperFront DEF Stack
<1>2. Len(H) \in Nat /\ DOMAIN H = 1 .. Len(H) /\ DOMAIN G = 1 .. Len(H) /\ Len(G) = Len(H)
  BY <1>1 DEF Stack
<1> HIDE DEF H
<1>3. \A i \in 1 .. Len(H) : /\ G[i].fn = H[i].fn /\ G[i].given = H[i].given /\ G[i].keep = H[i].keep
                             /\ G[i].env = H[i].env /\ G[i].taint = H[i].taint /\ G[i].has = H[i].has
  BY <1>1
<1>4. \A i \in 1 .. Len(H) : G[i].taint = Tainted(H, i, Len(H))
  BY <1>1, <1>2, <1>3 DEF Proper, TaintsStand
<1>5. TaintsStand(G)
  BY <1>1, <1>2, <1>3, <1>4, TaintsOf DEF Proper
<1>6. AtHome(G)
  <2>1. Len(H) <= Len(H) /\ Len(H) <= Len(G) /\ Len(G) <= Len(H) + 1 /\ Len(G) # Len(H) + 1
    BY <1>2
  <2> QED BY <1>1, <1>2, <1>3, <2>1, HomeOf DEF Proper
<1>7. ScopesKeep(G)
  BY <1>1, <1>2, <1>3 DEF Proper, ScopesKeep, IsScope
<1> QED BY <1>5, <1>6, <1>7 DEF Proper

\* A stack of one new Lua function, or of none.
LEMMA ProperNew ==
  ASSUME NEW f \in Frames, f.fn = "lua", f.taint = f.given, f.has = f.env
  PROVE  <<>> \in Stack /\ Proper(<<>>) /\ <<f>> \in Stack /\ Proper(<<f>>)
<1>1. <<>> \in Stack /\ Proper(<<>>)
  BY DEF Stack, Proper, TaintsStand, AtHome, ScopesKeep
<1>2. ~IsScope(f)
  BY DEF IsScope
<1>3. Append(<<>>, f) \in Stack /\ Proper(Append(<<>>, f))
  BY <1>1, <1>2, ProperPush
<1>4. Append(<<>>, f) = <<f>>
  OBVIOUS
<1> QED BY <1>1, <1>3, <1>4

-----------------------------------------------------------------------------
(***************************************************************************)
(* The running thread, and steps that change its stack only.               *)
(***************************************************************************)
\* The running thread is the last of the chain, and is not one that waits.
LEMMA NowIs ==
  ASSUME Standing
  PROVE  /\ Len(chain) \in Nat /\ Len(chain) >= 1 /\ DOMAIN chain = 1 .. Len(chain)
         /\ current = chain[Len(chain)] /\ current \in Threads
         /\ \A i \in 1 .. Len(chain) : chain[i] \in Threads /\ (chain[i] = current <=> i = Len(chain))
         /\ current \in Coroutines => status[current] = "running"
         /\ DOMAIN stack = Threads /\ \A t \in Threads : stack[t] \in Stack /\ Proper(stack[t])
<1>1. chain \in Seq(Threads) /\ chain # <<>>
  BY DEF Standing, StacksOK
<1>2. /\ DOMAIN chain = 1 .. Len(chain) /\ Len(chain) \in Nat /\ \A i \in 1 .. Len(chain) : chain[i] \in Threads
      /\ Len(chain) > 0 /\ Last(chain) = chain[Len(chain)]
  BY <1>1, SequenceIs
<1>3. Len(chain) \in 1 .. Len(chain)
  BY <1>2
<1>4. current = chain[Len(chain)]
  BY <1>2 DEF current
<1>5. \A i, j \in DOMAIN chain : chain[i] = chain[j] => i = j
  BY DEF Standing, Linked
<1>6. \A i \in 1 .. Len(chain) : chain[i] = current <=> i = Len(chain)
  BY <1>2, <1>3, <1>4, <1>5
<1>7. Len(chain) >= 1 /\ current \in Threads
  BY <1>2, <1>3, <1>4
<1>8. current \in Coroutines => status[current] = "running"
  BY <1>2, <1>3 DEF Standing, Linked, current
<1>9. DOMAIN stack = Threads /\ \A t \in Threads : stack[t] \in Stack /\ Proper(stack[t])
  BY DEF Standing, StacksOK, Stack
<1> QED BY <1>2, <1>4, <1>6, <1>7, <1>8, <1>9

\* Its stack.
LEMMA FramesAre ==
  ASSUME Standing
  PROVE  /\ frames \in Stack /\ Proper(frames) /\ ci = Len(frames) /\ ci \in Nat /\ DOMAIN frames = 1 .. ci
         /\ (frames # <<>> <=> ci > 0) /\ Last(frames) = frames[ci] /\ \A i \in 1 .. ci : frames[i] \in Frames
         /\ ci > 0 => ci \in 1 .. ci
<1>1. frames \in Stack /\ Proper(frames)
  BY NowIs DEF frames
<1>2. /\ DOMAIN frames = 1 .. Len(frames) /\ Len(frames) \in Nat /\ \A i \in 1 .. Len(frames) : frames[i] \in Frames
      /\ (frames # <<>> <=> Len(frames) > 0) /\ Last(frames) = frames[Len(frames)]
  BY <1>1, SequenceIs DEF Stack
<1> QED BY <1>1, <1>2 DEF ci

\* A step of the running thread on its own stack.
LEMMA WithStands ==
  ASSUME Standing, SameThreads, NEW G \in Stack, Proper(G), With(G)
  PROVE  Standing' /\ stack'[current] = G /\ \A t \in Threads : t # current => stack'[t] = stack[t]
<1>1. stack' = [stack EXCEPT ![current] = G] /\ UNCHANGED <<topic, chain, status>>
  BY DEF With, SameThreads
<1>2. /\ DOMAIN chain = 1 .. Len(chain) /\ current \in Threads
      /\ \A i \in 1 .. Len(chain) : chain[i] \in Threads /\ (chain[i] = current <=> i = Len(chain))
      /\ current \in Coroutines => status[current] = "running"
      /\ DOMAIN stack = Threads /\ \A t \in Threads : stack[t] \in Stack /\ Proper(stack[t])
  BY NowIs
<1>3. stack'[current] = G /\ \A t \in Threads : t # current => stack'[t] = stack[t]
  BY <1>1, <1>2
<1>4. stack' \in [Threads -> Stack] /\ \A t \in Threads : Proper(stack'[t])
  <2>1. DOMAIN stack' = Threads /\ stack' = [t \in Threads |-> stack'[t]]
    BY <1>1, <1>2 DEF Standing, StacksOK
  <2>2. \A t \in Threads : stack'[t] \in Stack /\ Proper(stack'[t])
    BY <1>2, <1>3
  <2> QED BY <2>1, <2>2
<1>5. StacksOK'
  BY <1>1, <1>4 DEF Standing, StacksOK, Stack
<1>6. Linked'
  <2>1. \A i \in DOMAIN chain : i # Len(chain) => stack'[chain[i]] = stack[chain[i]]
    BY <1>2, <1>3
  <2> QED BY <1>1, <2>1 DEF Standing, Linked
<1>7. Parked'
  <2> SUFFICES ASSUME NEW co \in Coroutines
               PROVE  /\ status[co] \in {"initial", "dead"} => stack'[co] = <<>>
                      /\ status[co] = "suspended" =>
                           /\ stack'[co] # <<>> /\ stack'[co][Len(stack'[co])].fn = "yield"
                           /\ \A j \in DOMAIN stack'[co] : j # Len(stack'[co]) => stack'[co][j].fn = "lua"
    BY <1>1 DEF Parked
  <2>1. CASE co = current
    BY <1>2, <2>1
  <2>2. CASE co # current
    <3>1. stack'[co] = stack[co]
      BY <1>3, <2>2 DEF Threads
    <3> QED BY <3>1 DEF Standing, Parked
  <2> QED BY <2>1, <2>2
<1>9. (\A t \in Threads : Proper(stack[t]))'
  BY <1>4
<1> QED BY <1>3, <1>5, <1>6, <1>7, <1>9 DEF Standing

\* A step that leaves all stacks alone.
LEMMA SameStands ==
  ASSUME Standing, SameThreads, UNCHANGED stack
  PROVE  Standing'
BY DEF SameThreads, Standing, StacksOK, Linked, Parked, Proper, TaintsStand, AtHome, ScopesKeep

-----------------------------------------------------------------------------
(***************************************************************************)
(* What a call puts on the stack.                                          *)
(***************************************************************************)
\* g stands for f in what is said of losses and budgets.
Same(f, g) ==
  /\ g.fn = f.fn /\ g.metered = f.metered /\ g.denied = f.denied
  /\ IsScope(f) => g.keep = f.keep

\* G is F with f pushed, or F down to its n-th frame.
Grown(F, G, f) ==
  /\ Len(G) = Len(F) + 1 /\ Same(f, G[Len(G)])
  /\ \A i \in 1 .. Len(F) : Same(F[i], G[i])
Kept(F, G, n) ==
  /\ Len(G) = n /\ n <= Len(F)
  /\ \A i \in 1 .. n : Same(F[i], G[i])

\* A Lua function that is called is at home.
LEMMA LuaFrameIs ==
  ASSUME Core, NEW t \in Taints, NEW env \in Environments \cup {"global"}
  PROVE  LET f == LuaFrame(t, env)
         IN /\ f \in Frames /\ f.fn = "lua" /\ f.taint = t /\ f.given = t /\ f.env = env /\ f.has = env /\ ~f.denied
            /\ f.metered = IF IsLua THEN frames[ci].metered ELSE active # None
<1>1. /\ frames \in Stack /\ AtHome(frames) /\ ci = Len(frames) /\ \A i \in 1 .. ci : frames[i] \in Frames
      /\ ci > 0 => ci \in 1 .. ci
  BY FramesAre DEF Core, Proper
<1>2. ToCallee(env) = env
  BY <1>1, HoldsHome DEF ToCallee, Converted, TransferFrom
<1> DEFINE m == IF IsLua THEN frames[ci].metered ELSE active # None
           f == Frame("lua", t, env)
           g == [f EXCEPT !.has = env]
<1>3. m \in BOOLEAN
  BY <1>1, FrameWith DEF IsLua
<1>4. LuaFrame(t, env) = [f EXCEPT !.has = env, !.metered = m]
  BY <1>2 DEF LuaFrame
<1>5. env \in Values /\ "lua" \in {"lua", "resume", "yield"} \cup Callers
  BY DEF Values
<1>6. f \in Frames /\ f.fn = "lua" /\ f.taint = t /\ f.given = t /\ f.env = env /\ f.has = env /\ ~f.denied
  BY <1>5, FrameIs
<1> HIDE DEF m, f
<1> DEFINE h == [f EXCEPT !.has = env, !.metered = m]
<1>7. h \in Frames /\ h.fn = "lua" /\ h.taint = t /\ h.given = t /\ h.env = env /\ h.has = env /\ ~h.denied /\ h.metered = m
  BY <1>3, <1>5, <1>6 DEF Frames
<1> QED BY <1>4, <1>7 DEF m

\* A Rust function that is called has what its caller has.
LEMMA RustFrameIs ==
  ASSUME Standing, NEW fn \in {"resume", "yield"} \cup Callers, NEW t \in Taints
  PROVE  LET f == RustFrame(fn, t)
         IN f \in Frames /\ f.fn = fn /\ f.taint = t /\ f.given = t /\ f.has = Holds(frames) /\ ~f.denied
<1>1. frames \in Stack /\ AtHome(frames)
  BY FramesAre DEF Proper
<1>2. Holds(frames) \in Values
  BY <1>1, HoldsHome
<1> DEFINE f == Frame(fn, t, "rust")
<1>3. "rust" \in Values
  BY DEF Values
<1>4. f \in Frames /\ f.fn = fn /\ f.taint = t /\ f.given = t /\ ~f.denied
  BY <1>3, FrameIs
<1>5. RustFrame(fn, t) = [f EXCEPT !.has = Holds(frames)]
  BY DEF RustFrame
<1> HIDE DEF f
<1> DEFINE g == [f EXCEPT !.has = Holds(frames)]
<1>6. g \in Frames /\ g.has = Holds(frames) /\ g.taint = f.taint /\ Alike(f, g)
  BY <1>2, <1>4, FrameWith
<1>7. g \in Frames /\ g.fn = fn /\ g.taint = t /\ g.given = t /\ g.has = Holds(frames) /\ ~g.denied
  BY <1>4, <1>6 DEF Alike
<1> QED BY <1>5, <1>7

\* A call that pushes a frame.
LEMMA PushStands ==
  ASSUME Standing, SameThreads, NEW f \in Frames, With(Append(frames, f)),
         f.fn # "securecall", f.taint = IF f.fn = "range" THEN None ELSE f.given,
         f.has = IF f.fn = "lua" THEN f.env ELSE Holds(frames),
         IsScope(f) => f.keep \in Owned \X BOOLEAN \X Owned
  PROVE  /\ Standing' /\ Grown(frames, stack'[current], f)
         /\ \A t \in Threads : t # current => stack'[t] = stack[t]
<1> DEFINE G == Append(frames, f)
<1>1. frames \in Stack /\ Proper(frames)
  BY FramesAre
<1>2. G \in Stack /\ Proper(G)
  BY <1>1, ProperPush
<1>3. Len(G) = Len(frames) + 1 /\ G[Len(frames) + 1] = f /\ \A i \in 1 .. Len(frames) : G[i] = frames[i]
  BY <1>1, PushIs DEF Stack
<1>4. With(G)
  OBVIOUS
<1> HIDE DEF G
<1>5. Standing' /\ stack'[current] = G /\ \A t \in Threads : t # current => stack'[t] = stack[t]
  BY <1>2, <1>4, WithStands
<1>6. Grown(frames, G, f)
  BY <1>3 DEF Grown, Same
<1> QED BY <1>5, <1>6

\* Call.
LEMMA CallStands ==
  ASSUME Core, NEW t \in Taints, NEW env \in Environments \cup {"global"}, Call(t, env)
  PROVE  /\ Standing' /\ Grown(frames, stack'[current], LuaFrame(t, env))
         /\ \A u \in Threads : u # current => stack'[u] = stack[u]
<1> DEFINE f == LuaFrame(t, env)
<1>1. f \in Frames /\ f.fn = "lua" /\ f.taint = t /\ f.given = t /\ f.env = env /\ f.has = env
  BY LuaFrameIs
<1>2. SameThreads /\ With(Append(frames, f))
  BY DEF Call
<1> HIDE DEF f
<1>3. ~IsScope(f)
  BY <1>1 DEF IsScope
<1>4. Standing
  BY DEF Core
<1> QED BY <1>1, <1>2, <1>3, <1>4, PushStands DEF f

\* Pcall.
LEMMA PcallStands ==
  ASSUME Core, NEW t \in Taints, Pcall(t)
  PROVE  /\ Standing' /\ Grown(frames, stack'[current], RustFrame("pcall", t))
         /\ \A u \in Threads : u # current => stack'[u] = stack[u]
<1> DEFINE f == RustFrame("pcall", t)
<1>1. f \in Frames /\ f.fn = "pcall" /\ f.taint = t /\ f.given = t /\ f.has = Holds(frames)
  BY RustFrameIs DEF Core, Callers
<1>2. SameThreads /\ With(Append(frames, f))
  BY DEF Pcall, CallRust
<1> HIDE DEF f
<1>3. ~IsScope(f)
  BY <1>1 DEF IsScope
<1>4. Standing
  BY DEF Core
<1> QED BY <1>1, <1>2, <1>3, <1>4, PushStands DEF f

\* SecureExecuteRange, whose frame has the entries that are left.
LEMMA RangeStands ==
  ASSUME Core, NEW t \in Taints, SecureExecuteRange(t)
  PROVE  /\ Standing' /\ \E f \in Frames : f.fn = "range" /\ ~f.denied /\ Grown(frames, stack'[current], f)
         /\ \A u \in Threads : u # current => stack'[u] = stack[u]
<1>1. PICK n \in 0 .. 2 : With(Append(frames, [RustFrame("range", t) EXCEPT !.left = n, !.taint = None]))
  BY DEF SecureExecuteRange
<1> DEFINE e == RustFrame("range", t)
           f == [e EXCEPT !.left = n, !.taint = None]
<1>2. e \in Frames /\ e.fn = "range" /\ e.has = Holds(frames) /\ ~e.denied
  BY RustFrameIs DEF Core, Callers
<1>3. SameThreads /\ With(Append(frames, f))
  BY <1>1 DEF SecureExecuteRange, CallRust
<1> HIDE DEF e
<1>4. f \in Frames /\ f.fn = "range" /\ f.taint = None /\ f.has = Holds(frames) /\ ~f.denied
  <2>1. n \in Nat
    BY <1>1
  <2> QED BY <1>2, <2>1 DEF Frames, Taints
<1> HIDE DEF f
<1>5. ~IsScope(f)
  BY <1>4 DEF IsScope
<1>6. Standing
  BY DEF Core
<1> QED BY <1>3, <1>4, <1>5, <1>6, PushStands

\* The scopes, which keep what is the case.
LEMMA ScopeStands ==
  ASSUME Core, NEW fn \in {"owner", "exempt"}, NEW o \in Owned, SameThreads,
         With(Append(frames, [RustFrame(fn, None) EXCEPT !.keep = <<active, exempt, o>>]))
  PROVE  /\ Standing'
         /\ \E f \in Frames : f.fn = fn /\ ~f.denied /\ f.keep = <<active, exempt, o>> /\ Grown(frames, stack'[current], f)
         /\ \A u \in Threads : u # current => stack'[u] = stack[u]
<1> DEFINE e == RustFrame(fn, None)
           f == [e EXCEPT !.keep = <<active, exempt, o>>]
<1>1. e \in Frames /\ e.fn = fn /\ e.taint = None /\ e.given = None /\ e.has = Holds(frames) /\ ~e.denied
  BY RustFrameIs DEF Core, Callers, Taints
<1>2. With(Append(frames, f))
  OBVIOUS
<1> HIDE DEF e
<1>3. <<active, exempt, o>> \in Owned \X BOOLEAN \X Owned
  BY DEF Core, AccountsOK
<1>4. /\ f \in Frames /\ f.fn = fn /\ f.taint = None /\ f.given = None /\ f.has = Holds(frames) /\ ~f.denied
      /\ f.keep = <<active, exempt, o>>
  BY <1>1, <1>3 DEF Frames
<1> HIDE DEF f
<1>5. Standing
  BY DEF Core
<1> QED BY <1>2, <1>3, <1>4, <1>5, PushStands

\* SecureCall, which hides the taints of all frames and keeps them.
LEMMA SecureStands ==
  ASSUME Core, NEW t \in Taints, SecureCall(t)
  PROVE  /\ Standing' /\ Grown(frames, stack'[current], RustFrame("securecall", t))
         /\ \A u \in Threads : u # current => stack'[u] = stack[u]
<1> DEFINE f == RustFrame("securecall", t)
           all == Append(frames, f)
           taints == [j \in DOMAIN all |-> all[j].taint]
           e(i) == [all[i] EXCEPT !.taint = None, !.keep = IF i = Len(all) THEN taints ELSE @]
           G == [i \in DOMAIN all |-> e(i)]
<1>1. f \in Frames /\ f.fn = "securecall" /\ f.taint = t /\ f.given = t /\ f.has = Holds(frames) /\ ~f.denied
  BY RustFrameIs DEF Core, Callers
<1>2. SameThreads /\ With(G)
  BY DEF SecureCall, CallRust
<1>3. Standing
  BY DEF Core
<1>4. frames \in Stack /\ Proper(frames) /\ Len(frames) \in Nat /\ DOMAIN frames = 1 .. Len(frames)
      /\ \A i \in 1 .. Len(frames) : frames[i] \in Frames
  BY <1>3, FramesAre
<1> HIDE DEF f
<1>5. /\ all \in Stack /\ Len(all) = Len(frames) + 1
      /\ all[Len(frames) + 1] = f /\ \A i \in 1 .. Len(frames) : all[i] = frames[i]
  BY <1>1, <1>4, PushIs DEF Stack
<1>6. DOMAIN all = 1 .. Len(all) /\ \A i \in 1 .. Len(all) : all[i] \in Frames
  BY <1>5, SequenceIs DEF Stack
<1> HIDE DEF all
<1>7. Len(all) \in Nat /\ \A i \in 1 .. Len(frames) : i \in 1 .. Len(all) /\ i # Len(all)
  BY <1>4, <1>5
<1>8. taints \in Seq(Taints) /\ Len(taints) = Len(all) /\ \A i \in 1 .. Len(all) : taints[i] = all[i].taint
  <2>1. \A i \in 1 .. Len(all) : all[i].taint \in Taints
    BY <1>6, FrameWith
  <2>2. taints = [i \in 1 .. Len(all) |-> all[i].taint]
    BY <1>6
  <2> HIDE DEF taints
  <2>3. \A i \in 1 .. Len(all) : taints[i] = all[i].taint
    BY <2>2
  <2>4. DOMAIN taints = 1 .. Len(all) /\ taints = [i \in 1 .. Len(all) |-> taints[i]]
    BY <2>2
  <2> QED BY <1>7, <2>1, <2>3, <2>4, MadeSequence
<1> HIDE DEF taints
<1>9. ASSUME NEW i \in 1 .. Len(all)
      PROVE  /\ e(i) \in Frames /\ e(i).fn = all[i].fn /\ e(i).given = all[i].given /\ e(i).taint = None
             /\ e(i).env = all[i].env /\ e(i).has = all[i].has /\ e(i).denied = all[i].denied /\ e(i).metered = all[i].metered
             /\ e(i).keep = IF i = Len(all) THEN taints ELSE all[i].keep
  <2>1. all[i] \in Frames /\ taints \in Seq(Taints) /\ None \in Taints
    BY <1>6, <1>8 DEF Taints
  <2> QED BY <2>1 DEF Frames
<1>10. G = [i \in 1 .. Len(all) |-> e(i)]
  BY <1>6
<1> HIDE DEF e
<1> HIDE DEF G
<1>11. G \in Stack /\ Len(G) = Len(all) /\ \A i \in 1 .. Len(all) : G[i] = e(i)
  <2>1. \A i \in 1 .. Len(all) : G[i] = e(i) /\ G[i] \in Frames
    BY <1>9, <1>10
  <2>2. DOMAIN G = 1 .. Len(all) /\ G = [i \in 1 .. Len(all) |-> G[i]]
    BY <1>10
  <2> QED BY <1>7, <2>1, <2>2, MadeSequence DEF Stack
<1>12. Len(all) \in 1 .. Len(all)
  BY <1>4, <1>5
<1>13. ASSUME NEW i \in 1 .. Len(frames)
       PROVE  /\ G[i].fn = frames[i].fn /\ G[i].given = frames[i].given /\ G[i].keep = frames[i].keep /\ G[i].taint = None
              /\ G[i].env = frames[i].env /\ G[i].has = frames[i].has
              /\ G[i].denied = frames[i].denied /\ G[i].metered = frames[i].metered
  BY <1>5, <1>7, <1>9, <1>11
<1>14. /\ G[Len(all)].fn = "securecall" /\ G[Len(all)].taint = None /\ G[Len(all)].keep = taints
       /\ G[Len(all)].denied = f.denied
       /\ G[Len(all)].metered = f.metered /\ G[Len(all)].has = Holds(frames)
  BY <1>1, <1>5, <1>9, <1>11, <1>12
<1>15. Len(G) = Len(frames) + 1 /\ G[Len(frames) + 1] = G[Len(all)]
  BY <1>5, <1>11
<1>16. TaintsStand(G)
  <2>1. G[Len(G)].keep \in Seq(Taints) /\ Len(G[Len(G)].keep) = Len(G)
    BY <1>8, <1>11, <1>14
  <2>2. \A i \in 1 .. Len(frames) : G[Len(G)].keep[i] = frames[i].taint
    BY <1>5, <1>7, <1>8, <1>11, <1>14
  <2>3. TaintsStand(frames) /\ G[Len(G)].fn = "securecall" /\ G[Len(G)].taint = None
    BY <1>4, <1>11, <1>14 DEF Proper
  <2> QED BY <1>4, <1>11, <1>13, <1>15, <2>1, <2>2, <2>3, TaintsSecure
<1>17. AtHome(G)
  <2>1. Len(frames) <= Len(frames) /\ Len(frames) <= Len(G) /\ Len(G) <= Len(frames) + 1
    BY <1>4, <1>15
  <2>2. G[Len(frames) + 1].has = Nearest(frames, Len(frames)) /\ G[Len(frames) + 1].fn # "lua"
    BY <1>4, <1>14, <1>15, HoldsHome DEF Proper
  <2> QED BY <1>4, <1>11, <1>13, <2>1, <2>2, HomeOf DEF Proper
<1>18. ScopesKeep(G)
  <2> SUFFICES ASSUME NEW i \in 1 .. Len(G), IsScope(G[i]) PROVE G[i].keep \in Owned \X BOOLEAN \X Owned
    BY <1>11 DEF ScopesKeep, Stack
  <2>1. i # Len(all)
    BY <1>14 DEF IsScope
  <2>2. i \in 1 .. Len(frames)
    BY <1>4, <1>5, <1>11, <2>1
  <2> QED BY <1>4, <1>13, <2>2 DEF Proper, ScopesKeep, IsScope
<1>19. Proper(G)
  BY <1>16, <1>17, <1>18 DEF Proper
<1>20. Standing' /\ stack'[current] = G /\ \A u \in Threads : u # current => stack'[u] = stack[u]
  BY <1>2, <1>3, <1>11, <1>19, WithStands
<1>21. Grown(frames, G, f)
  BY <1>1, <1>11, <1>13, <1>14, <1>15 DEF Grown, Same, IsScope
<1> QED BY <1>20, <1>21 DEF f

\* A step that changes the last frame, or leaves it.
LEMMA TopStands ==
  ASSUME Standing, SameThreads, ci > 0, frames[ci].fn # "securecall", NEW f \in Frames, Top(f),
         f.fn \in {"lua", "pcall"}, f.taint = f.given,
         \/ f.fn = "lua" /\ f.has = f.env
         \/ f.fn = frames[ci].fn /\ f.env = frames[ci].env /\ f.has = frames[ci].has
  PROVE  /\ Standing' /\ Len(stack'[current]) = ci /\ stack'[current][ci] = f
         /\ \A i \in 1 .. ci - 1 : stack'[current][i] = frames[i]
         /\ \A u \in Threads : u # current => stack'[u] = stack[u]
<1> DEFINE H == Front(frames)
           G == Append(H, f)
<1>1. frames \in Stack /\ Proper(frames) /\ frames # <<>> /\ ci = Len(frames) /\ ci \in Nat /\ Last(frames) = frames[ci]
  BY FramesAre
<1>2. H \in Stack /\ Proper(H) /\ Len(H) = ci - 1 /\ \A i \in 1 .. ci - 1 : H[i] = frames[i]
  BY <1>1, FrontIs, ProperFront DEF Stack
<1>3. f.has = IF f.fn = "lua" THEN f.env ELSE Holds(H)
  <2> SUFFICES ASSUME f.fn = frames[ci].fn /\ f.env = frames[ci].env /\ f.has = frames[ci].has
               PROVE  f.has = IF f.fn = "lua" THEN f.env ELSE Holds(H)
    OBVIOUS
  <2>1. f.has = Nearest(frames, ci) /\ ci \in Nat
    BY <1>1 DEF Proper, AtHome, Stack
  <2>2. Holds(H) = Nearest(H, ci - 1)
    BY <1>2, HoldsHome DEF Proper
  <2>3. Nearest(H, ci - 1) = Nearest(frames, ci - 1)
    <3>1. ci - 1 \in Nat
      BY <1>1
    <3> QED BY <1>2, <3>1, NearestSame
  <2> QED BY <2>1, <2>2, <2>3, NearestIs
<1>4. f.fn # "securecall" /\ f.fn # "range" /\ ~IsScope(f)
  BY DEF IsScope
<1> HIDE DEF H
<1>5. G \in Stack /\ Proper(G)
  BY <1>2, <1>3, <1>4, ProperPush
<1>6. /\ Len(G) = ci /\ G[ci] = f /\ \A i \in 1 .. ci - 1 : G[i] = frames[i]
  BY <1>1, TopIs DEF Stack, H
<1>7. With(G)
  BY DEF Top, H
<1> HIDE DEF G
<1>8. Standing' /\ stack'[current] = G /\ \A u \in Threads : u # current => stack'[u] = stack[u]
  BY <1>5, <1>7, WithStands
<1> QED BY <1>6, <1>8

\* The taint of a last frame that calls no entries is the one it was given.
LEMMA TopTaint ==
  ASSUME Standing, ci > 0, frames[ci].fn \in {"lua", "pcall"}
  PROVE  frames[ci].taint = frames[ci].given /\ frames[ci] \in Frames
<1>1. Proper(frames) /\ ci = Len(frames) /\ ci \in Nat /\ DOMAIN frames = 1 .. ci /\ ci \in 1 .. ci /\ frames[ci] \in Frames
  BY FramesAre
<1>2. frames[ci].taint = Tainted(frames, ci, ci)
  BY <1>1 DEF Proper, TaintsStand
<1>3. ~Hidden(frames, ci, ci)
  BY <1>1 DEF Hidden
<1> QED BY <1>1, <1>2, <1>3 DEF Tainted

\* A last frame in the place of a like one.
LEMMA TopKept ==
  ASSUME Standing, ci > 0, NEW G, Len(G) = ci, Same(frames[ci], G[ci]), \A i \in 1 .. ci - 1 : G[i] = frames[i]
  PROVE  Kept(frames, G, ci)
<1>1. ci = Len(frames) /\ ci \in Nat
  BY FramesAre
<1>2. ASSUME NEW i \in 1 .. ci PROVE Same(frames[i], G[i])
  <2>1. CASE i = ci
    BY <2>1
  <2>2. CASE i # ci
    <3>1. G[i] = frames[i]
      BY <1>1, <2>2, BelowLast
    <3> QED BY <3>1 DEF Same
  <2> QED BY <2>1, <2>2
<1> QED BY <1>1, <1>2 DEF Kept

\* TailCall.
LEMMA TailCallStands ==
  ASSUME Core, NEW t \in Taints, NEW env \in Environments \cup {"global"}, TailCall(t, env)
  PROVE  /\ Standing' /\ Kept(frames, stack'[current], ci)
         /\ \A u \in Threads : u # current => stack'[u] = stack[u]
<1> DEFINE e == LuaFrame(t, env)
           f == [e EXCEPT !.taint = TailTaint(t, frames[ci].taint), !.given = TailTaint(t, frames[ci].given),
                          !.denied = frames[ci].denied]
<1>1. Standing
  BY DEF Core
<1>2. ci > 0 /\ frames[ci].fn = "lua" /\ IsLua
  BY DEF TailCall, IsLua
<1>3. SameThreads /\ Top(f)
  BY DEF TailCall, Top
<1>4. frames[ci].taint = frames[ci].given /\ frames[ci] \in Frames
  BY <1>1, <1>2, TopTaint
<1>5. e \in Frames /\ e.fn = "lua" /\ e.env = env /\ e.has = env /\ e.metered = frames[ci].metered
  BY <1>2, LuaFrameIs
<1> HIDE DEF e
<1>6. frames[ci].taint \in Taints /\ frames[ci].denied \in BOOLEAN
  BY <1>4, FrameWith
<1>7. TailTaint(t, frames[ci].taint) \in Taints
  BY <1>6 DEF TailTaint
<1>8. /\ f \in Frames /\ f.fn = "lua" /\ f.env = env /\ f.has = env /\ f.metered = frames[ci].metered
      /\ f.denied = frames[ci].denied /\ f.taint = f.given
  BY <1>4, <1>5, <1>6, <1>7 DEF Frames
<1> HIDE DEF f
<1>9. /\ Standing' /\ Len(stack'[current]) = ci /\ stack'[current][ci] = f
      /\ \A i \in 1 .. ci - 1 : stack'[current][i] = frames[i]
      /\ \A u \in Threads : u # current => stack'[u] = stack[u]
  BY <1>1, <1>2, <1>3, <1>8, TopStands
<1>10. Same(frames[ci], f)
  BY <1>2, <1>8 DEF Same, IsScope
<1>11. Kept(frames, stack'[current], ci)
  BY <1>1, <1>2, <1>9, <1>10, TopKept
<1> QED BY <1>9, <1>11

\* A taint that is set.
LEMMA TaintStands ==
  ASSUME Core, NEW t \in Taints, ci > 0, frames[ci].fn = "lua", SameThreads, Top(SetTaint(frames[ci], t))
  PROVE  /\ Standing' /\ Kept(frames, stack'[current], ci)
         /\ \A u \in Threads : u # current => stack'[u] = stack[u]
<1> DEFINE f == SetTaint(frames[ci], t)
<1>1. Standing
  BY DEF Core
<1>2. frames[ci] \in Frames
  BY <1>1, TopTaint
<1>3. /\ f \in Frames /\ f.taint = t /\ f.given = t /\ f.fn = frames[ci].fn /\ f.env = frames[ci].env /\ f.has = frames[ci].has
      /\ f.metered = frames[ci].metered /\ f.denied = frames[ci].denied /\ f.keep = frames[ci].keep
  BY <1>2 DEF SetTaint, Frames
<1>4. Top(f)
  OBVIOUS
<1> HIDE DEF f
<1>5. /\ Standing' /\ Len(stack'[current]) = ci /\ stack'[current][ci] = f
      /\ \A i \in 1 .. ci - 1 : stack'[current][i] = frames[i]
      /\ \A u \in Threads : u # current => stack'[u] = stack[u]
  BY <1>1, <1>3, <1>4, TopStands
<1>6. Same(frames[ci], f)
  BY <1>3 DEF Same
<1>7. Kept(frames, stack'[current], ci)
  BY <1>1, <1>5, <1>6, TopKept
<1> QED BY <1>5, <1>7

\* Revoke, by which the last frame loses its access.
LEMMA RevokeStands ==
  ASSUME Core, Revoke
  PROVE  /\ Standing' /\ Len(stack'[current]) = ci /\ stack'[current][ci] = [frames[ci] EXCEPT !.denied = TRUE]
         /\ \A i \in 1 .. ci - 1 : stack'[current][i] = frames[i]
         /\ \A u \in Threads : u # current => stack'[u] = stack[u]
         /\ stack'[current][ci].denied /\ stack'[current][ci].fn = frames[ci].fn
<1> DEFINE f == [frames[ci] EXCEPT !.denied = TRUE]
<1>1. Standing
  BY DEF Core
<1>2. ci > 0 /\ frames[ci].fn \in {"lua", "pcall"} /\ SameThreads /\ Top(f)
  BY DEF Revoke
<1>3. frames[ci] \in Frames /\ frames[ci].taint = frames[ci].given
  BY <1>1, <1>2, TopTaint
<1>4. /\ f \in Frames /\ f.taint = frames[ci].taint /\ f.given = frames[ci].given /\ f.fn = frames[ci].fn
      /\ f.env = frames[ci].env /\ f.has = frames[ci].has /\ f.denied
  BY <1>3 DEF Frames
<1> HIDE DEF f
<1>5. /\ Standing' /\ Len(stack'[current]) = ci /\ stack'[current][ci] = f
      /\ \A i \in 1 .. ci - 1 : stack'[current][i] = frames[i]
      /\ \A u \in Threads : u # current => stack'[u] = stack[u]
  BY <1>1, <1>2, <1>3, <1>4, TopStands
<1> QED BY <1>4, <1>5 DEF f

-----------------------------------------------------------------------------
(***************************************************************************)
(* Returns and errors.                                                     *)
(***************************************************************************)
\* What is alike stands for the other.
LEMMA AlikeSame ==
  ASSUME NEW f, NEW g, NEW h, Alike(f, g)
  PROVE  Same(f, g) /\ (Same(g, h) => Same(f, h))
BY DEF Alike, Same, IsScope

\* A result is received by the last frame.
LEMMA DeliveredIs ==
  ASSUME NEW F \in Stack, Proper(F), F # <<>>, NEW f \in Frames,
         Alike(Last(F), f), f.taint = Last(F).taint, f.has = Last(F).has \/ f.has = Nearest(F, Len(F))
  PROVE  LET G == Append(Front(F), f)
         IN G \in Stack /\ Proper(G) /\ Kept(F, G, Len(F))
<1> DEFINE G == Append(Front(F), f)
<1>1. G \in Stack /\ Proper(G)
  BY ProperTop
<1>2. Len(G) = Len(F) /\ G[Len(F)] = f /\ \A i \in 1 .. Len(F) - 1 : G[i] = F[i]
  BY TopIs DEF Stack
<1>3. Len(F) \in Nat /\ Last(F) = F[Len(F)]
  BY SequenceIs DEF Stack
<1> HIDE DEF G
<1>4. ASSUME NEW i \in 1 .. Len(F) PROVE Same(F[i], G[i])
  <2>1. CASE i = Len(F)
    BY <1>2, <1>3, <2>1, AlikeSame
  <2>2. CASE i # Len(F)
    <3>1. i \in 1 .. Len(F) - 1
      BY <1>3, <2>2, BelowLast
    <3> QED BY <1>2, <3>1 DEF Same
  <2> QED BY <2>1, <2>2
<1>5. Kept(F, G, Len(F))
  BY <1>2, <1>3, <1>4, BelowLast DEF Kept
<1> QED BY <1>1, <1>5 DEF G

\* What stays of the running thread's stack.
LEMMA CutStands ==
  ASSUME Standing, NEW n \in 0 .. ci, NEW ok
  PROVE  LET G == Restored(frames, n, ok)
         IN /\ G \in Stack /\ Proper(G) /\ Kept(frames, G, n) /\ Nearest(G, n) = Nearest(frames, n)
            /\ Len(G) = n /\ (G = <<>> <=> n = 0) /\ \A i \in 1 .. n : G[i].fn = frames[i].fn
<1> DEFINE G == Restored(frames, n, ok)
<1>1. frames \in Stack /\ Proper(frames) /\ ci = Len(frames) /\ ci \in Nat
  BY FramesAre
<1>2. G \in Stack /\ Proper(G) /\ Len(G) = n /\ Keeps(frames, G, n)
  BY <1>1, ProperCut, RestoredIs DEF Proper
<1> HIDE DEF G
<1>3. Kept(frames, G, n)
  BY <1>1, <1>2, AlikeSame DEF Keeps, Kept
<1>4. \A i \in 1 .. n : G[i].fn = frames[i].fn /\ G[i].env = frames[i].env
  BY <1>2 DEF Keeps, Alike
<1>5. Nearest(G, n) = Nearest(frames, n)
  <2>1. n \in Nat
    BY <1>1
  <2> QED BY <1>4, <2>1, NearestSame
<1>6. G = <<>> <=> n = 0
  BY <1>2 DEF Stack
<1> QED BY <1>2, <1>3, <1>4, <1>5, <1>6 DEF G

\* What is kept of what is kept.
LEMMA KeptKept ==
  ASSUME NEW F, NEW G, NEW H, NEW n, Kept(F, G, n), Kept(G, H, n)
  PROVE  Kept(F, H, n)
BY DEF Kept, Same, IsScope

\* A function returns to the one below it.
LEMMA ReturnStands ==
  ASSUME Core, Return, ~(ci = 1 /\ current # Main)
  PROVE  /\ Standing' /\ ci > 0 /\ Kept(frames, stack'[current], ci - 1)
         /\ \A u \in Threads : u # current => stack'[u] = stack[u]
         /\ SameThreads /\ revoked' = Pruned(revoked, current, ci - 1) /\ resumers' = resumers /\ UNCHANGED <<taintVars, used>>
<1> DEFINE below == Restored(frames, ci - 1, TRUE)
           value == IF IsLua THEN Converted(frames[ci].has, frames[ci].env, TransferFrom(frames, ci - 1)) ELSE frames[ci].has
           f == [Received(Last(below)) EXCEPT !.has = value]
           G == IF below = <<>> THEN below ELSE Append(Front(below), f)
<1>1. Standing /\ ci > 0
  BY DEF Core, Return
<1>2. ci \in Nat /\ ci - 1 \in 0 .. ci /\ ci = Len(frames) /\ ci \in DOMAIN frames /\ AtHome(frames) /\ (ci # 1 <=> ci - 1 # 0)
  BY <1>1, FramesAre DEF Proper
<1>3. /\ below \in Stack /\ Proper(below) /\ Kept(frames, below, ci - 1) /\ Nearest(below, ci - 1) = Nearest(frames, ci - 1)
      /\ Len(below) = ci - 1 /\ (below = <<>> <=> ci - 1 = 0)
  BY <1>1, <1>2, CutStands
<1>4. value = Nearest(frames, ci - 1)
  <2>1. frames[ci].has = Nearest(frames, ci)
    BY <1>2 DEF AtHome
  <2> QED BY <1>1, <1>2, <2>1, NearestIs DEF IsLua, Converted, TransferFrom
<1>5. /\ With(G) /\ SameThreads /\ revoked' = Pruned(revoked, current, ci - 1) /\ resumers' = resumers
      /\ UNCHANGED <<taintVars, used>>
  <2>1. ~(below = <<>> /\ current # Main)
    BY <1>2, <1>3
  <2> QED BY <2>1 DEF Return
<1> HIDE DEF below, value
<1>6. G \in Stack /\ Proper(G) /\ Kept(below, G, ci - 1)
  <2>1. CASE below = <<>>
    BY <1>3, <2>1 DEF Kept, Same
  <2>2. CASE below # <<>>
    <3>1. Last(below) \in Frames
      BY <1>3, <2>2, SequenceIs DEF Stack
    <3> DEFINE g == Received(Last(below))
    <3>2. g \in Frames /\ g.has = Last(below).has /\ g.taint = Last(below).taint /\ Alike(Last(below), g)
      BY <3>1, FrameWith
    <3>3. value \in Values
      <4>1. Holds(below) = Nearest(below, ci - 1) /\ Holds(below) \in Values
        BY <1>3, HoldsHome DEF Proper
      <4> QED BY <1>3, <1>4, <4>1
    <3> HIDE DEF g
    <3>4. f = [g EXCEPT !.has = value]
      BY DEF g
    <3> HIDE DEF f
    <3>5. f \in Frames /\ f.has = value /\ f.taint = g.taint /\ Alike(g, f)
      <4> DEFINE h == [g EXCEPT !.has = value]
      <4>1. h \in Frames /\ h.has = value /\ h.taint = g.taint /\ Alike(g, h)
        BY <3>2, <3>3, FrameWith
      <4> HIDE DEF h
      <4>2. f = h
        BY <3>4 DEF h
      <4> QED BY <4>1, <4>2
    <3>6. Alike(Last(below), f) /\ f.taint = Last(below).taint /\ f.has = Nearest(below, Len(below))
      BY <1>3, <1>4, <3>2, <3>5 DEF Alike
    <3> QED BY <1>3, <2>2, <3>5, <3>6, DeliveredIs
  <2> QED BY <2>1, <2>2
<1> HIDE DEF G
<1>7. Kept(frames, G, ci - 1)
  BY <1>3, <1>6, KeptKept
<1>8. Standing' /\ stack'[current] = G /\ \A u \in Threads : u # current => stack'[u] = stack[u]
  BY <1>1, <1>5, <1>6, WithStands
<1> QED BY <1>1, <1>5, <1>7, <1>8

\* Or ends a coroutine.
LEMMA ReturnEnds ==
  ASSUME Core, Return, ci = 1, current # Main
  PROVE  SwitchBack(<<>>, "dead")
<1>1. Standing
  BY DEF Core
<1>2. ci - 1 \in 0 .. ci /\ ci - 1 = 0
  OBVIOUS
<1>3. Restored(frames, ci - 1, TRUE) = <<>>
  BY <1>1, <1>2, CutStands
<1> QED BY <1>3 DEF Return

\* An error goes to a frame that catches it.
LEMMA CatcherIs ==
  ASSUME Standing
  PROVE  /\ Catcher(frames) \in 0 .. ci
         /\ Catcher(frames) > 0 => frames[Catcher(frames)].fn \in {"pcall", "range"}
<1> DEFINE S == {i \in DOMAIN frames : frames[i].fn \in {"pcall", "range"}}
<1>1. ci \in Nat /\ DOMAIN frames = 1 .. ci
  BY FramesAre
<1>2. CASE S = {}
  BY <1>1, <1>2 DEF Catcher
<1>3. CASE S # {}
  <2>1. S \in SUBSET (1 .. ci)
    BY <1>1
  <2> DEFINE c == CHOOSE i \in S : \A j \in S : j <= i
  <2>2. Catcher(frames) = c
    BY <1>3 DEF Catcher
  <2>3. \A i \in S : frames[i].fn \in {"pcall", "range"}
    OBVIOUS
  <2> HIDE DEF S
  <2>4. \E i \in S : \A j \in S : j <= i
    BY <1>1, <1>3, <2>1, GreatestExists
  <2>5. c \in S
    BY <2>4
  <2> HIDE DEF c
  <2>6. c \in 0 .. ci
    <3>1. c \in 1 .. ci
      BY <2>1, <2>5
    <3> QED BY <1>1, <3>1
  <2> QED BY <2>2, <2>3, <2>5, <2>6
<1> QED BY <1>2, <1>3

\* Fails, if no coroutine ends.
LEMMA FailsStands ==
  ASSUME Core, Fails, ~(Catcher(frames) = 0 /\ current # Main)
  PROVE  /\ Standing' /\ SameThreads /\ resumers' = resumers /\ UNCHANGED <<taintVars, used>>
         /\ \A u \in Threads : u # current => stack'[u] = stack[u]
         /\ \E n \in 0 .. ci :
              /\ Kept(frames, stack'[current], n)
              /\ \/ n = Catcher(frames) - 1 /\ Catcher(frames) > 0 /\ revoked' = Pruned(revoked, current, n)
                    /\ frames[Catcher(frames)].fn = "pcall"
                 \/ n = Catcher(frames) /\ revoked' = revoked /\ (n = 0 \/ frames[n].fn = "range")
<1> DEFINE to == Catcher(frames)
           rest == Restored(frames, to, FALSE)
           caught == to > 0 /\ rest[to].fn = "pcall"
           below == IF caught THEN Front(rest) ELSE rest
           n == IF caught THEN to - 1 ELSE to
           G == IF below = <<>> THEN below ELSE Append(Front(below), Received(Last(below)))
<1>1. Standing
  BY DEF Core
<1>2. to \in 0 .. ci /\ (to > 0 => frames[to].fn \in {"pcall", "range"}) /\ ci \in Nat /\ ci = Len(frames)
  BY <1>1, CatcherIs, FramesAre
<1>3. /\ With(G) /\ SameThreads /\ resumers' = resumers /\ UNCHANGED <<taintVars, used>>
      /\ revoked' = IF caught THEN Pruned(revoked, current, to - 1) ELSE revoked
  BY DEF Fails
<1> HIDE DEF to
<1>4. /\ rest \in Stack /\ Proper(rest) /\ Kept(frames, rest, to) /\ Len(rest) = to
      /\ \A i \in 1 .. to : rest[i].fn = frames[i].fn
  BY <1>1, <1>2, CutStands
<1> HIDE DEF rest
<1>5. n \in 0 .. ci /\ (to > 0 => rest[to].fn = frames[to].fn)
  BY <1>2, <1>4
<1>6. below \in Stack /\ Proper(below) /\ Kept(frames, below, n) /\ Len(below) = n
  <2>1. CASE caught
    <3>1. rest # <<>> /\ rest[Len(rest)].fn # "securecall"
      BY <1>4, <2>1
    <3>2. Front(rest) \in Stack /\ Proper(Front(rest))
      BY <1>4, <3>1, ProperFront
    <3>3. Len(Front(rest)) = to - 1 /\ \A i \in 1 .. to - 1 : Front(rest)[i] = rest[i]
      BY <1>4, <3>1, FrontIs DEF Stack
    <3>4. Kept(frames, Front(rest), to - 1)
      <4>1. \A i \in 1 .. to - 1 : i \in 1 .. to
        BY <1>2
      <4>2. to - 1 <= Len(frames)
        BY <1>2
      <4> QED BY <1>4, <3>3, <4>1, <4>2 DEF Kept
    <3> QED BY <2>1, <3>2, <3>3, <3>4
  <2>2. CASE ~caught
    BY <1>4, <2>2
  <2> QED BY <2>1, <2>2
<1> HIDE DEF below
<1>7. G \in Stack /\ Proper(G) /\ Kept(below, G, n)
  <2>1. CASE below = <<>>
    BY <1>6, <2>1 DEF Kept, Same
  <2>2. CASE below # <<>>
    <3>1. Last(below) \in Frames
      BY <1>6, <2>2, SequenceIs DEF Stack
    <3> DEFINE g == Received(Last(below))
    <3>2. g \in Frames /\ g.has = Last(below).has /\ g.taint = Last(below).taint /\ Alike(Last(below), g)
      BY <3>1, FrameWith
    <3> HIDE DEF g
    <3>3. LET H == Append(Front(below), g) IN H \in Stack /\ Proper(H) /\ Kept(below, H, Len(below))
      BY <1>6, <2>2, <3>2, DeliveredIs
    <3> QED BY <1>6, <2>2, <3>3 DEF g
  <2> QED BY <2>1, <2>2
<1> HIDE DEF G
<1>8. Kept(frames, G, n)
  BY <1>6, <1>7, KeptKept
<1>9. Standing' /\ stack'[current] = G /\ \A u \in Threads : u # current => stack'[u] = stack[u]
  BY <1>1, <1>3, <1>7, WithStands
<1>10. \/ n = to - 1 /\ to > 0 /\ revoked' = Pruned(revoked, current, n) /\ frames[to].fn = "pcall"
       \/ n = to /\ revoked' = revoked /\ (n = 0 \/ frames[n].fn = "range")
  BY <1>2, <1>3, <1>5
<1> HIDE DEF n
<1> QED BY <1>3, <1>5, <1>8, <1>9, <1>10 DEF to

\* Or if it does.
LEMMA FailsEnds ==
  ASSUME Fails, Catcher(frames) = 0, current # Main
  PROVE  SwitchBack(<<>>, "dead")
BY DEF Fails

-----------------------------------------------------------------------------
(***************************************************************************)
(* Threads.                                                                *)
(***************************************************************************)
\* A coroutine that runs has a resumer, which waits in its call of resume.
LEMMA ResumerIs ==
  ASSUME Standing, current # Main
  PROVE  LET r == chain[Len(chain) - 1]
         IN /\ Len(chain) >= 2 /\ Len(chain) \in Nat /\ Len(chain) - 1 \in 1 .. Len(chain) /\ r \in Threads /\ r # current
            /\ current \in Coroutines /\ stack[r] \in Stack /\ Proper(stack[r]) /\ stack[r] # <<>>
            /\ stack[r][Len(stack[r])].fn = "resume"
            /\ r \in Coroutines => status[r] = "running"
<1>1. /\ Len(chain) \in Nat /\ Len(chain) >= 1 /\ DOMAIN chain = 1 .. Len(chain)
      /\ current = chain[Len(chain)] /\ current \in Threads
      /\ \A i \in 1 .. Len(chain) : chain[i] \in Threads /\ (chain[i] = current <=> i = Len(chain))
      /\ \A t \in Threads : stack[t] \in Stack /\ Proper(stack[t])
  BY NowIs
<1>2. chain[1] = Main
  BY DEF Standing, Linked
<1>3. Len(chain) \in Nat /\ Len(chain) >= 1 /\ Len(chain) # 1
  BY <1>1, <1>2
<1>4. Len(chain) >= 2 /\ Len(chain) - 1 \in 1 .. Len(chain) /\ Len(chain) - 1 # Len(chain)
  BY <1>3, BeforeLast
<1>5. chain[Len(chain) - 1] \in Threads /\ chain[Len(chain) - 1] # current
  BY <1>1, <1>4
<1>6. LET fs == stack[chain[Len(chain) - 1]] IN fs # <<>> /\ fs[Len(fs)].fn = "resume"
  BY <1>1, <1>4 DEF Standing, Linked
<1>7. chain[Len(chain) - 1] \in Coroutines => status[chain[Len(chain) - 1]] = "running"
  BY <1>1, <1>4 DEF Standing, Linked
<1>8. current \in Coroutines
  BY <1>1 DEF Threads
<1> QED BY <1>1, <1>3, <1>4, <1>5, <1>6, <1>7, <1>8

\* Back to it.
LEMMA SwitchStands ==
  ASSUME Main \notin Coroutines, Standing, current # Main, NEW left \in Stack, Proper(left), NEW after \in {"suspended", "dead"},
         after = "dead" => left = <<>>,
         after = "suspended" => /\ left # <<>> /\ left[Len(left)].fn = "yield"
                                /\ \A j \in DOMAIN left : j # Len(left) => left[j].fn = "lua",
         SwitchBack(left, after)
  PROVE  LET r == chain[Len(chain) - 1]
         IN /\ Standing' /\ stack'[current] = left /\ stack'[r] = Front(stack[r]) /\ current' = r
            /\ \A t \in Threads : t # current /\ t # r => stack'[t] = stack[t]
            /\ Len(chain') = Len(chain) - 1 /\ \A i \in 1 .. Len(chain) - 1 : chain'[i] = chain[i]
<1> DEFINE r == chain[Len(chain) - 1]
<1>1. /\ Len(chain) >= 2 /\ Len(chain) \in Nat /\ Len(chain) - 1 \in 1 .. Len(chain) /\ r \in Threads /\ r # current
      /\ current \in Coroutines /\ stack[r] \in Stack /\ Proper(stack[r]) /\ stack[r] # <<>>
      /\ stack[r][Len(stack[r])].fn = "resume" /\ (r \in Coroutines => status[r] = "running")
  BY ResumerIs
<1>2. /\ DOMAIN chain = 1 .. Len(chain) /\ current = chain[Len(chain)] /\ current \in Threads
      /\ \A i \in 1 .. Len(chain) : chain[i] \in Threads /\ (chain[i] = current <=> i = Len(chain))
      /\ DOMAIN stack = Threads /\ \A t \in Threads : stack[t] \in Stack /\ Proper(stack[t])
      /\ status[current] = "running"
  BY <1>1, NowIs
<1>3. /\ stack' = [stack EXCEPT ![current] = left, ![r] = Front(stack[r])]
      /\ chain' = Front(chain) /\ status' = [status EXCEPT ![current] = after] /\ topic' = topic
  BY DEF SwitchBack
<1>4. chain \in Seq(Threads) /\ chain # <<>> /\ status \in [Coroutines -> {"initial", "suspended", "running", "dead"}]
  BY DEF Standing, StacksOK
<1>5. chain' \in Seq(Threads) /\ Len(chain') = Len(chain) - 1 /\ \A i \in 1 .. Len(chain) - 1 : chain'[i] = chain[i]
  BY <1>3, <1>4, FrontIs
<1>6. DOMAIN chain' = 1 .. Len(chain) - 1 /\ chain' # <<>> /\ Last(chain') = chain'[Len(chain')]
  BY <1>1, <1>5, SequenceIs
<1>7. current' = r
  BY <1>1, <1>5, <1>6 DEF current
<1> HIDE DEF r
<1>8. stack'[current] = left /\ stack'[r] = Front(stack[r]) /\ \A t \in Threads : t # current /\ t # r => stack'[t] = stack[t]
  BY <1>1, <1>2, <1>3
<1>9. Front(stack[r]) \in Stack /\ Proper(Front(stack[r]))
  BY <1>1, ProperFront
<1>10. \A t \in Threads : stack'[t] \in Stack /\ Proper(stack'[t])
  BY <1>2, <1>8, <1>9
<1>11. StacksOK'
  <2>1. stack' \in [Threads -> Stack]
    <3>1. DOMAIN stack' = Threads /\ stack' = [t \in Threads |-> stack'[t]]
      BY <1>2, <1>3 DEF Standing, StacksOK
    <3> QED BY <1>10, <3>1
  <2>2. status' \in [Coroutines -> {"initial", "suspended", "running", "dead"}]
    BY <1>3, <1>4
  <2> QED BY <1>3, <1>5, <1>6, <2>1, <2>2 DEF Standing, StacksOK, Stack
<1>12. status'[current] = after /\ \A co \in Coroutines : co # current => status'[co] = status[co]
  BY <1>1, <1>3, <1>4
<1>13. Linked'
  <2>1. chain'[1] = Main
    <3>1. 1 \in 1 .. Len(chain) - 1
      BY <1>1
    <3> QED BY <1>5, <3>1 DEF Standing, Linked
  <2>2. \A i \in 1 .. Len(chain) - 1 : i \in 1 .. Len(chain) /\ i # Len(chain)
    BY <1>1
  <2>3. \A i, j \in 1 .. Len(chain) : chain[i] = chain[j] => i = j
    BY <1>2 DEF Standing, Linked
  <2>4. \A i, j \in DOMAIN chain' : chain'[i] = chain'[j] => i = j
    BY <1>5, <1>6, <2>2, <2>3
  <2>5. ASSUME NEW co \in Coroutines
        PROVE  status'[co] = "running" <=> \E i \in DOMAIN chain' : chain'[i] = co
    <3>1. CASE co = current
      <4>1. ~ \E i \in DOMAIN chain' : chain'[i] = co
        BY <1>2, <1>5, <1>6, <2>2, <3>1
      <4> QED BY <1>12, <3>1, <4>1
    <3>2. CASE co # current
      <4>1. status[co] = "running" <=> \E i \in 1 .. Len(chain) : chain[i] = co
        BY <1>2 DEF Standing, Linked
      <4>2. \A i \in 1 .. Len(chain) : chain[i] = co => i \in 1 .. Len(chain) - 1
        <5>1. \A i \in 1 .. Len(chain) : chain[i] = co => i # Len(chain)
          BY <1>2, <3>2
        <5> QED BY <1>1, <5>1, BelowLast
      <4>3. (\E i \in 1 .. Len(chain) : chain[i] = co) <=> \E i \in DOMAIN chain' : chain'[i] = co
        BY <1>5, <1>6, <2>2, <4>2
      <4> QED BY <1>12, <3>2, <4>1, <4>3
    <3> QED BY <3>1, <3>2
  <2>6. ASSUME NEW i \in DOMAIN chain', i # Len(chain')
        PROVE  LET fs == stack'[chain'[i]] IN fs # <<>> /\ fs[Len(fs)].fn = "resume"
    <3>1. i \in 1 .. Len(chain) /\ i # Len(chain) /\ i # Len(chain) - 1 /\ chain'[i] = chain[i]
      BY <1>5, <1>6, <2>2, <2>6
    <3>2. chain[i] # current /\ chain[i] # r
      BY <1>1, <1>2, <3>1 DEF Standing, Linked, r
    <3>3. stack'[chain'[i]] = stack[chain[i]]
      BY <1>2, <1>8, <3>1, <3>2
    <3>4. LET fs == stack[chain[i]] IN fs # <<>> /\ fs[Len(fs)].fn = "resume"
      BY <1>2, <3>1 DEF Standing, Linked
    <3> QED BY <3>3, <3>4
  <2> QED BY <2>1, <2>4, <2>5, <2>6 DEF Linked
<1>14. Parked'
  <2> SUFFICES ASSUME NEW co \in Coroutines
               PROVE  /\ status'[co] \in {"initial", "dead"} => stack'[co] = <<>>
                      /\ status'[co] = "suspended" =>
                           /\ stack'[co] # <<>> /\ stack'[co][Len(stack'[co])].fn = "yield"
                           /\ \A j \in DOMAIN stack'[co] : j # Len(stack'[co]) => stack'[co][j].fn = "lua"
    BY DEF Parked
  <2>1. CASE co = current
    BY <1>8, <1>12, <2>1
  <2>2. CASE co = r
    BY <1>1, <1>12, <2>2
  <2>3. CASE co # current /\ co # r
    <3>1. stack'[co] = stack[co] /\ status'[co] = status[co]
      BY <1>8, <1>12, <2>3 DEF Threads
    <3> QED BY <3>1 DEF Standing, Parked
  <2> QED BY <2>1, <2>2, <2>3
<1>15. (\A t \in Threads : Proper(stack[t]))'
  BY <1>10
<1>16. Standing'
  BY <1>11, <1>13, <1>14, <1>15 DEF Standing
<1> QED BY <1>5, <1>7, <1>8, <1>16 DEF r

\* What a coroutine that yields leaves on its stack.
Yielded(left) == \E f \in Frames : f.fn = "yield" /\ ~f.denied /\ Grown(frames, left, f)

\* Yield.
LEMMA YieldStands ==
  ASSUME Main \notin Coroutines, Core, Yield
  PROVE  /\ current # Main /\ ci > 0
         /\ \E left \in Stack :
              /\ SwitchBack(left, "suspended") /\ Proper(left) /\ Yielded(left)
              /\ left # <<>> /\ left[Len(left)].fn = "yield"
              /\ \A j \in DOMAIN left : j # Len(left) => left[j].fn = "lua"
<1> DEFINE f == RustFrame("yield", None)
           G == Append(frames, f)
<1>1. Standing
  BY DEF Core
<1>2. f \in Frames /\ f.fn = "yield" /\ f.taint = None /\ f.given = None /\ f.has = Holds(frames) /\ ~f.denied
  BY <1>1, RustFrameIs DEF Taints
<1>3. current # Main /\ ci > 0 /\ (\A i \in DOMAIN frames : frames[i].fn = "lua") /\ SwitchBack(G, "suspended")
  BY DEF Yield, IsLua
<1> HIDE DEF f
<1>4. frames \in Stack /\ Proper(frames) /\ Len(frames) \in Nat /\ DOMAIN frames = 1 .. Len(frames)
  BY <1>1, FramesAre
<1>5. ~IsScope(f)
  BY <1>2 DEF IsScope
<1>6. G \in Stack /\ Proper(G)
  BY <1>2, <1>4, <1>5, ProperPush
<1>7. Len(G) = Len(frames) + 1 /\ G[Len(frames) + 1] = f /\ \A i \in 1 .. Len(frames) : G[i] = frames[i]
  BY <1>2, <1>4, PushIs DEF Stack
<1> HIDE DEF G
<1>8. G # <<>> /\ DOMAIN G = 1 .. Len(frames) + 1
  BY <1>4, <1>6, <1>7, SequenceIs DEF Stack
<1>9. ASSUME NEW j \in DOMAIN G, j # Len(G) PROVE G[j].fn = "lua"
  <2>1. j \in 1 .. Len(frames)
    BY <1>4, <1>7, <1>8, <1>9
  <2> QED BY <1>3, <1>4, <1>7, <2>1
<1>10. Grown(frames, G, f)
  BY <1>7 DEF Grown, Same
<1>11. Yielded(G)
  BY <1>2, <1>10 DEF Yielded
<1> QED BY <1>2, <1>3, <1>6, <1>7, <1>8, <1>9, <1>11

\* What a coroutine runs on with: a new function, or what was there before its yield.
Body(co, t) ==
  IF status[co] = "initial" THEN <<[Frame("lua", t, "global") EXCEPT !.metered = active # None]>>
  ELSE [i \in 1 .. (Len(stack[co]) - 1) |-> [stack[co][i] EXCEPT !.metered = active # None]]

LosesIn(fs, j) == j \in DOMAIN fs /\ fs[j].denied

\* What the coroutine runs on with is well formed, and metered as is said now.
LEMMA BodyIs ==
  ASSUME Standing, NEW co \in Coroutines, NEW t \in Taints, status[co] \in {"initial", "suspended"}
  PROVE  /\ Body(co, t) \in Stack /\ Proper(Body(co, t))
         /\ status[co] = "initial" => stack[co] = <<>> /\ Len(Body(co, t)) = 1
         /\ status[co] = "suspended" => /\ stack[co] # <<>> /\ Len(Body(co, t)) = Len(stack[co]) - 1
                                        /\ stack[co][Len(stack[co])].fn = "yield"
         /\ \A j \in 1 .. Len(Body(co, t)) :
              /\ Body(co, t)[j].fn = "lua" /\ Body(co, t)[j].metered = (active # None)
              /\ Body(co, t)[j].denied <=> LosesIn(stack[co], j)
<1> DEFINE m == active # None
           F == stack[co]
           B == Body(co, t)
<1>1. F \in Stack /\ Proper(F) /\ m \in BOOLEAN
  BY NowIs DEF Threads
<1>2. Len(F) \in Nat /\ DOMAIN F = 1 .. Len(F) /\ (F # <<>> <=> Len(F) > 0) /\ \A i \in 1 .. Len(F) : F[i] \in Frames
  BY <1>1, SequenceIs DEF Stack
<1>3. CASE status[co] = "initial"
  <2> DEFINE e == Frame("lua", t, "global")
             f == [e EXCEPT !.metered = m]
  <2>1. F = <<>>
    BY <1>3 DEF Standing, Parked
  <2>2. B = <<f>>
    BY <1>3 DEF Body
  <2>3. "global" \in Values /\ "lua" \in {"lua", "resume", "yield"} \cup Callers
    BY DEF Values
  <2>4. e \in Frames /\ e.fn = "lua" /\ e.taint = t /\ e.given = t /\ e.env = "global" /\ e.has = "global" /\ ~e.denied
    BY <2>3, FrameIs
  <2> HIDE DEF e, m
  <2>5. /\ f \in Frames /\ f.fn = "lua" /\ f.taint = t /\ f.given = t /\ f.env = "global" /\ f.has = "global" /\ ~f.denied
        /\ f.metered = m
    BY <1>1, <2>4, FrameWith
  <2> HIDE DEF f, F, B
  <2>6. B \in Stack /\ Proper(B)
    BY <2>2, <2>5, ProperNew
  <2>7. Len(B) = 1 /\ B[1] = f /\ \A j : ~LosesIn(F, j)
    BY <2>1, <2>2 DEF LosesIn
  <2>8. \A j \in 1 .. Len(B) : B[j] = f
    BY <2>7
  <2> QED BY <1>3, <2>1, <2>5, <2>6, <2>7, <2>8 DEF F, B, m
<1>4. CASE status[co] = "suspended"
  <2>1. F # <<>> /\ F[Len(F)].fn = "yield" /\ \A j \in DOMAIN F : j # Len(F) => F[j].fn = "lua"
    BY <1>4 DEF Standing, Parked
  <2> DEFINE n == Len(F) - 1
             e(i) == [F[i] EXCEPT !.metered = m]
  <2>2. B = [i \in 1 .. n |-> e(i)]
    BY <1>4 DEF Body
  <2> HIDE DEF m, F, B
  <2>3. n \in Nat /\ \A i \in 1 .. n : i \in 1 .. Len(F) /\ i # Len(F)
    <3>1. Len(F) \in Nat /\ Len(F) > 0
      BY <1>2, <2>1
    <3> QED BY <3>1, OneMore
  <2> HIDE DEF n
  <2>4. ASSUME NEW i \in 1 .. n
        PROVE  /\ e(i) \in Frames /\ e(i).fn = "lua" /\ e(i).has = F[i].has /\ e(i).taint = F[i].taint /\ e(i).given = F[i].given
               /\ e(i).fn = F[i].fn /\ e(i).env = F[i].env /\ e(i).keep = F[i].keep /\ e(i).denied = F[i].denied
               /\ e(i).metered = m
    <3>1. F[i] \in Frames /\ F[i].fn = "lua"
      BY <1>2, <2>1, <2>3
    <3> QED BY <1>1, <3>1, FrameWith
  <2> HIDE DEF e
  <2>5. B \in Stack /\ Len(B) = n /\ \A i \in 1 .. n : B[i] = e(i)
    <3>1. \A i \in 1 .. n : B[i] = e(i) /\ B[i] \in Frames
      BY <2>2, <2>4
    <3>2. DOMAIN B = 1 .. n /\ B = [i \in 1 .. n |-> B[i]]
      BY <2>2
    <3> QED BY <2>3, <3>1, <3>2, MadeSequence DEF Stack
  <2>6. Len(B) = Len(F) - 1
    BY <2>5 DEF n
  <2>7. \A i \in 1 .. Len(F) - 1 : /\ B[i].fn = F[i].fn /\ B[i].given = F[i].given /\ B[i].keep = F[i].keep
                                   /\ B[i].env = F[i].env /\ B[i].taint = F[i].taint /\ B[i].has = F[i].has
    BY <2>4, <2>5 DEF n
  <2>8. F[Len(F)].fn # "securecall"
    BY <2>1
  <2>9. Proper(B)
    BY <1>1, <2>1, <2>5, <2>6, <2>7, <2>8, ProperBody DEF F
  <2>10. ASSUME NEW j \in 1 .. Len(B)
         PROVE  B[j].fn = "lua" /\ B[j].metered = m /\ (B[j].denied <=> LosesIn(F, j))
    <3>1. j \in 1 .. n /\ j \in DOMAIN F
      BY <1>2, <2>3, <2>5 DEF F
    <3> QED BY <2>4, <2>5, <3>1 DEF LosesIn
  <2> QED BY <1>4, <2>1, <2>5, <2>6, <2>9, <2>10 DEF F, B, m
<1> QED BY <1>3, <1>4

\* Resume.
LEMMA ResumeStands ==
  ASSUME Main \notin Coroutines, Core, NEW co \in Coroutines, NEW t \in Taints, Resume(co, t)
  PROVE  /\ Standing' /\ current' = co /\ co # current /\ co # Main /\ IsLua
         /\ status[co] \in {"initial", "suspended"}
         /\ Len(chain') = Len(chain) + 1 /\ chain'[Len(chain) + 1] = co
         /\ \A i \in 1 .. Len(chain) : chain'[i] = chain[i] /\ chain[i] # co
         /\ \E f \in Frames : f.fn = "resume" /\ ~f.denied /\ Grown(frames, stack'[current], f)
         /\ stack'[co] = Body(co, t)
         /\ \A u \in Threads : u # current /\ u # co => stack'[u] = stack[u]
         /\ revoked' = Pruned(Pruned(revoked, current, ci), co, Len(Body(co, t)))
         /\ resumers' = Enlisted(current)
         /\ UNCHANGED <<topic, taintVars, budgetVars>>
<1> DEFINE f == RustFrame("resume", None)
           G == Append(frames, f)
           B == Body(co, t)
<1>1. Standing
  BY DEF Core
<1>2. /\ IsLua /\ status[co] \in {"initial", "suspended"} /\ stack' = [stack EXCEPT ![current] = G, ![co] = B]
      /\ chain' = Append(chain, co) /\ status' = [status EXCEPT ![co] = "running"] /\ UNCHANGED <<topic, taintVars, budgetVars>>
      /\ revoked' = Pruned(Pruned(revoked, current, ci), co, Len(B)) /\ resumers' = Enlisted(current)
  BY DEF Resume, Body, frames, PrunedOnPush
<1>3. f \in Frames /\ f.fn = "resume" /\ f.taint = None /\ f.given = None /\ f.has = Holds(frames) /\ ~f.denied
  BY <1>1, RustFrameIs DEF Taints
<1> HIDE DEF f
<1>4. frames \in Stack /\ Proper(frames)
  BY <1>1, FramesAre
<1>5. ~IsScope(f)
  BY <1>3 DEF IsScope
<1>6. G \in Stack /\ Proper(G)
  BY <1>3, <1>4, <1>5, ProperPush
<1>7. Len(G) = Len(frames) + 1 /\ G[Len(frames) + 1] = f /\ \A i \in 1 .. Len(frames) : G[i] = frames[i]
  BY <1>3, <1>4, PushIs DEF Stack
<1>8. B \in Stack /\ Proper(B)
  BY <1>1, <1>2, BodyIs
<1> HIDE DEF G, B
<1>9. Grown(frames, G, f)
  BY <1>7 DEF Grown, Same
<1>10. /\ Len(chain) \in Nat /\ DOMAIN chain = 1 .. Len(chain) /\ current = chain[Len(chain)] /\ current \in Threads
       /\ \A i \in 1 .. Len(chain) : chain[i] \in Threads /\ (chain[i] = current <=> i = Len(chain))
       /\ DOMAIN stack = Threads /\ (\A u \in Threads : stack[u] \in Stack /\ Proper(stack[u])) /\ Len(chain) \in 1 .. Len(chain)
  <2>1. Len(chain) \in Nat /\ Len(chain) >= 1
    BY <1>1, NowIs
  <2>2. Len(chain) \in 1 .. Len(chain)
    BY <2>1
  <2> QED BY <1>1, <2>2, NowIs
<1>11. \A i \in 1 .. Len(chain) : chain[i] # co
  BY <1>1, <1>2, <1>10 DEF Standing, Linked
<1>12. co # current /\ co # Main /\ co \in Threads
  BY <1>10, <1>11 DEF Threads
<1>13. chain \in Seq(Threads) /\ status \in [Coroutines -> {"initial", "suspended", "running", "dead"}]
  BY <1>1 DEF Standing, StacksOK
<1>14. /\ chain' \in Seq(Threads) /\ Len(chain') = Len(chain) + 1 /\ chain'[Len(chain) + 1] = co
       /\ \A i \in 1 .. Len(chain) : chain'[i] = chain[i]
  BY <1>2, <1>12, <1>13, PushIs
<1>15. Len(chain) > 0
  <2>1. chain # <<>>
    BY <1>1 DEF Standing, StacksOK
  <2> QED BY <1>13, <2>1, SequenceIs
<1>16. DOMAIN chain' = 1 .. Len(chain) + 1 /\ chain' # <<>> /\ Last(chain') = chain'[Len(chain')]
  BY <1>10, <1>14, OneMore, SequenceIs
<1>17. current' = co
  BY <1>14, <1>16 DEF current
<1>18. stack'[current] = G /\ stack'[co] = B /\ \A u \in Threads : u # current /\ u # co => stack'[u] = stack[u]
  BY <1>2, <1>10, <1>12
<1>19. \A u \in Threads : stack'[u] \in Stack /\ Proper(stack'[u])
  BY <1>6, <1>8, <1>10, <1>18
<1>20. StacksOK'
  <2>1. stack' \in [Threads -> Stack]
    <3>1. DOMAIN stack' = Threads /\ stack' = [u \in Threads |-> stack'[u]]
      BY <1>1, <1>2, <1>10 DEF Standing, StacksOK
    <3> QED BY <1>19, <3>1
  <2>2. status' \in [Coroutines -> {"initial", "suspended", "running", "dead"}]
    BY <1>2, <1>13
  <2> QED BY <1>1, <1>2, <1>14, <1>16, <2>1, <2>2 DEF Standing, StacksOK, Stack
<1>21. status'[co] = "running" /\ \A c \in Coroutines : c # co => status'[c] = status[c]
  BY <1>2, <1>13
<1>22. Linked'
  <2>1. chain'[1] = Main
    <3>1. 1 \in 1 .. Len(chain)
      BY <1>10, <1>15, OneMore
    <3> QED BY <1>1, <1>14, <3>1 DEF Standing, Linked
  <2>2. \A i \in DOMAIN chain' : i \in 1 .. Len(chain) \/ i = Len(chain) + 1
    BY <1>10, <1>16, OneMore
  <2>3. \A i, j \in 1 .. Len(chain) : chain[i] = chain[j] => i = j
    BY <1>1, <1>10 DEF Standing, Linked
  <2>4. \A i, j \in DOMAIN chain' : chain'[i] = chain'[j] => i = j
    BY <1>11, <1>14, <2>2, <2>3
  <2>5. \A i \in 1 .. Len(chain) : i \in DOMAIN chain'
    BY <1>10, <1>16, OneMore
  <2>6. Len(chain) + 1 \in DOMAIN chain'
    BY <1>10, <1>16, OneMore
  <2>7. ASSUME NEW c \in Coroutines
        PROVE  status'[c] = "running" <=> \E i \in DOMAIN chain' : chain'[i] = c
    <3>1. CASE c = co
      BY <1>14, <1>21, <2>6, <3>1
    <3>2. CASE c # co
      <4>1. status[c] = "running" <=> \E i \in 1 .. Len(chain) : chain[i] = c
        BY <1>1, <1>10 DEF Standing, Linked
      <4>2. (\E i \in 1 .. Len(chain) : chain[i] = c) <=> \E i \in DOMAIN chain' : chain'[i] = c
        BY <1>14, <2>2, <2>5, <3>2
      <4> QED BY <1>21, <3>2, <4>1, <4>2
    <3> QED BY <3>1, <3>2
  <2>8. ASSUME NEW i \in DOMAIN chain', i # Len(chain')
        PROVE  LET fs == stack'[chain'[i]] IN fs # <<>> /\ fs[Len(fs)].fn = "resume"
    <3>1. i \in 1 .. Len(chain) /\ chain'[i] = chain[i] /\ chain[i] # co /\ chain[i] \in Threads
      BY <1>10, <1>11, <1>14, <2>2, <2>8
    <3>2. CASE i = Len(chain)
      <4>1. stack'[chain'[i]] = G
        BY <1>10, <1>18, <3>1, <3>2
      <4>2. G # <<>> /\ G[Len(G)].fn = "resume"
        <5>1. Len(frames) \in Nat
          BY <1>4 DEF Stack
        <5>2. Len(G) > 0 /\ G[Len(G)] = f
          BY <1>7, <5>1
        <5> QED BY <1>3, <1>6, <5>2, SequenceIs DEF Stack
      <4> QED BY <4>1, <4>2
    <3>3. CASE i # Len(chain)
      <4>1. stack'[chain'[i]] = stack[chain[i]]
        BY <1>10, <1>18, <3>1, <3>3
      <4>2. LET fs == stack[chain[i]] IN fs # <<>> /\ fs[Len(fs)].fn = "resume"
        BY <1>1, <1>10, <3>1, <3>3 DEF Standing, Linked
      <4> QED BY <4>1, <4>2
    <3> QED BY <3>2, <3>3
  <2> QED BY <2>1, <2>4, <2>7, <2>8 DEF Linked
<1>23. Parked'
  <2> SUFFICES ASSUME NEW c \in Coroutines
               PROVE  /\ status'[c] \in {"initial", "dead"} => stack'[c] = <<>>
                      /\ status'[c] = "suspended" =>
                           /\ stack'[c] # <<>> /\ stack'[c][Len(stack'[c])].fn = "yield"
                           /\ \A j \in DOMAIN stack'[c] : j # Len(stack'[c]) => stack'[c][j].fn = "lua"
    BY DEF Parked
  <2>1. CASE c = co
    BY <1>21, <2>1
  <2>2. CASE c = current
    <3>1. status'[c] = "running"
      BY <1>1, <1>12, <1>21, <2>2, NowIs
    <3> QED BY <3>1
  <2>3. CASE c # current /\ c # co
    <3>1. stack'[c] = stack[c] /\ status'[c] = status[c]
      BY <1>18, <1>21, <2>3 DEF Threads
    <3> QED BY <1>1, <3>1 DEF Standing, Parked
  <2> QED BY <2>1, <2>2, <2>3
<1>24. (\A u \in Threads : Proper(stack[u]))'
  BY <1>19
<1>25. Standing'
  BY <1>20, <1>22, <1>23, <1>24 DEF Standing
<1> QED BY <1>2, <1>3, <1>9, <1>11, <1>12, <1>14, <1>17, <1>18, <1>25 DEF B

-----------------------------------------------------------------------------
(***************************************************************************)
(* What the scopes restore.                                                *)
(***************************************************************************)
\* It is what the lowest scope that ends keeps, if one does.
LEMMA UnwoundIs ==
  ASSUME Core, NEW n \in 0 .. ci
  PROVE  LET k == ScopesUnwound(frames, n)
         IN /\ k[1] \in Owned /\ k[2] \in BOOLEAN
            /\ \/ k = <<active, exempt>> /\ \A j \in n + 1 .. ci : ~IsScope(frames[j])
               \/ \E l \in n + 1 .. ci :
                    /\ IsScope(frames[l]) /\ k = frames[l].keep
                    /\ \A j \in n + 1 .. ci : IsScope(frames[j]) => l <= j
<1> DEFINE S == ScopesAbove(frames, n)
<1>1. /\ frames \in Stack /\ Proper(frames) /\ ci = Len(frames) /\ ci \in Nat /\ DOMAIN frames = 1 .. ci
  BY FramesAre DEF Core
<1>2. \A i : i \in S <=> i \in n + 1 .. ci /\ IsScope(frames[i])
  BY <1>1 DEF ScopesAbove
<1>3. CASE S = {}
  <2>1. ScopesUnwound(frames, n) = <<active, exempt>>
    BY <1>3 DEF ScopesUnwound
  <2>2. active \in Owned /\ exempt \in BOOLEAN
    BY DEF Core, AccountsOK
  <2> QED BY <1>2, <1>3, <2>1, <2>2
<1>4. CASE S # {}
  <2> DEFINE l == Lowest(S)
  <2>1. ScopesUnwound(frames, n) = frames[l].keep
    BY <1>4 DEF ScopesUnwound
  <2> HIDE DEF S
  <2>2. S \in SUBSET Nat
    <3>1. \A i \in n + 1 .. ci : i \in Nat
      BY <1>1
    <3> QED BY <1>2, <3>1
  <2>3. l \in S /\ \A j \in S : l <= j
    BY <1>4, <2>2, LowestIs
  <2> HIDE DEF l
  <2>4. l \in n + 1 .. ci /\ IsScope(frames[l])
    BY <1>2, <2>3
  <2>5. l \in DOMAIN frames
    BY <1>1, <2>4
  <2>6. frames[l].keep \in Owned \X BOOLEAN \X Owned
    BY <1>1, <2>4, <2>5 DEF Proper, ScopesKeep
  <2>7. frames[l].keep[1] \in Owned /\ frames[l].keep[2] \in BOOLEAN
    BY <2>6
  <2>8. \A j \in n + 1 .. ci : IsScope(frames[j]) => l <= j
    BY <1>2, <2>3
  <2> QED BY <2>1, <2>4, <2>7, <2>8
<1> QED BY <1>3, <1>4

\* Frames that are no scopes restore nothing.
LEMMA NothingUnwound ==
  ASSUME Core, NEW n \in 0 .. ci, \A j \in n + 1 .. ci : ~IsScope(frames[j])
  PROVE  ScopesUnwound(frames, n) = <<active, exempt>>
<1>1. ci = Len(frames)
  BY FramesAre DEF Core
<1>2. ScopesAbove(frames, n) = {}
  BY <1>1 DEF ScopesAbove
<1> QED BY <1>2 DEF ScopesUnwound

-----------------------------------------------------------------------------
(***************************************************************************)
(* The kinds of step there are.                                            *)
(***************************************************************************)
OthersStay == \A u \in Threads : u # current => stack'[u] = stack[u]

PushStep ==
  /\ SameThreads /\ OthersStay /\ revoked' = Pruned(revoked, current, ci) /\ resumers' = resumers /\ used' = used
  /\ \E f \in Frames :
       /\ Grown(frames, stack'[current], f) /\ ~f.denied /\ (f.fn = "range" => topic = "taint")
       /\ f.fn = "lua" => f.metered = IF IsLua THEN frames[ci].metered ELSE active # None
       /\ IsScope(f) => \E o \in Owned : f.keep = <<active, exempt, o>>
       /\ f.fn = "owner" => active' = (IF exempt THEN None ELSE f.keep[3]) /\ exempt' = exempt
       /\ f.fn = "exempt" => active' = None /\ exempt' = TRUE
       /\ ~IsScope(f) => active' = active /\ exempt' = exempt

CutStep ==
  /\ SameThreads /\ OthersStay /\ resumers' = resumers
  /\ \E n \in 0 .. ci :
       /\ Kept(frames, stack'[current], n)
       /\ Scoped(ScopesUnwound(frames, n))
       /\ \/ revoked' = Pruned(revoked, current, n)
          \/ revoked' = revoked /\ (n = ci \/ (n = 0 /\ current = Main) \/ (n > 0 /\ frames[n].fn = "range"))

BackStep ==
  /\ current # Main
  /\ Scoped(ScopesUnwound(frames, 0))
  /\ \E left \in Stack, after \in {"suspended", "dead"} :
       /\ SwitchBack(left, after) /\ stack'[current] = left
       /\ after = "dead" => left = <<>>
       /\ after = "suspended" => /\ Yielded(left)
                                 /\ \A j \in DOMAIN frames : frames[j].fn = "lua"

BackSwitch ==
  LET r == chain[Len(chain) - 1]
  IN /\ stack'[r] = Front(stack[r]) /\ current' = r
     /\ \A t \in Threads : t # current /\ t # r => stack'[t] = stack[t]
     /\ Len(chain') = Len(chain) - 1 /\ \A i \in 1 .. Len(chain) - 1 : chain'[i] = chain[i]

ResumeStep == \E co \in Coroutines, t \in Taints : Resume(co, t)

\* A step that leaves the stacks as they are.
LEMMA StillIs ==
  ASSUME Core, SameThreads, UNCHANGED <<stack, revoked, resumers, active, exempt>>
  PROVE  Standing' /\ CutStep
<1>1. Standing
  BY DEF Core
<1>2. Standing'
  BY <1>1, SameStands
<1>3. ci \in Nat /\ ci = Len(frames) /\ frames = stack[current]
  BY <1>1, FramesAre DEF frames
<1>4. ci \in 0 .. ci /\ \A j \in ci + 1 .. ci : FALSE
  BY <1>3
<1>5. Kept(frames, stack'[current], ci)
  BY <1>3, BelowLast DEF Kept, Same
<1>6. ScopesUnwound(frames, ci) = <<active, exempt>>
  BY <1>4, NothingUnwound
<1>7. Scoped(ScopesUnwound(frames, ci))
  BY <1>6 DEF Scoped
<1>8. OthersStay
  BY DEF OthersStay
<1> QED BY <1>2, <1>4, <1>5, <1>7, <1>8 DEF CutStep

\* One that changes the last frame only.
LEMMA TopIsCut ==
  ASSUME Core, SameThreads, OthersStay, Kept(frames, stack'[current], ci), UNCHANGED <<resumers, active, exempt>>,
         revoked' = revoked \/ revoked' = Pruned(revoked, current, ci)
  PROVE  CutStep
<1>1. ci \in Nat
  BY FramesAre DEF Core
<1>2. ci \in 0 .. ci /\ \A j \in ci + 1 .. ci : FALSE
  BY <1>1
<1>3. ScopesUnwound(frames, ci) = <<active, exempt>>
  BY <1>2, NothingUnwound
<1>4. Scoped(ScopesUnwound(frames, ci))
  BY <1>3 DEF Scoped
<1> QED BY <1>2, <1>4 DEF CutStep

\* Calls.
LEMMA CallIsPush ==
  ASSUME Core, NEW t \in Taints, NEW env \in Environments \cup {"global"}, Call(t, env)
  PROVE  Standing' /\ PushStep
<1> DEFINE f == LuaFrame(t, env)
<1>1. Standing' /\ Grown(frames, stack'[current], f) /\ OthersStay
  BY CallStands DEF OthersStay
<1>2. f \in Frames /\ f.fn = "lua" /\ ~f.denied /\ f.metered = IF IsLua THEN frames[ci].metered ELSE active # None
  BY LuaFrameIs
<1>3. SameThreads /\ revoked' = Pruned(revoked, current, ci) /\ UNCHANGED <<resumers, budgetVars>>
  BY DEF Call, Calls, PrunedOnPush
<1> HIDE DEF f
<1>4. ~IsScope(f)
  BY <1>2 DEF IsScope
<1> QED BY <1>1, <1>2, <1>3, <1>4 DEF PushStep, budgetVars

\* pcall.
LEMMA PcallIsPush ==
  ASSUME Core, NEW t \in Taints, Pcall(t)
  PROVE  Standing' /\ PushStep
<1> DEFINE f == RustFrame("pcall", t)
<1>1. Standing' /\ Grown(frames, stack'[current], f) /\ OthersStay
  BY PcallStands DEF OthersStay
<1>2. f \in Frames /\ f.fn = "pcall" /\ ~f.denied
  BY RustFrameIs DEF Core, Callers
<1>3. SameThreads /\ revoked' = Pruned(revoked, current, ci) /\ UNCHANGED <<resumers, budgetVars>>
  BY DEF Pcall, CallRust, PrunedOnPush
<1> HIDE DEF f
<1>4. ~IsScope(f)
  BY <1>2 DEF IsScope
<1> QED BY <1>1, <1>2, <1>3, <1>4 DEF PushStep, budgetVars

\* securecall.
LEMMA SecureIsPush ==
  ASSUME Core, NEW t \in Taints, SecureCall(t)
  PROVE  Standing' /\ PushStep
<1> DEFINE f == RustFrame("securecall", t)
<1>1. Standing' /\ Grown(frames, stack'[current], f) /\ OthersStay
  BY SecureStands DEF OthersStay
<1>2. f \in Frames /\ f.fn = "securecall" /\ ~f.denied
  BY RustFrameIs DEF Core, Callers
<1>3. SameThreads /\ revoked' = Pruned(revoked, current, ci) /\ UNCHANGED <<resumers, budgetVars>>
  BY DEF SecureCall, CallRust, PrunedOnPush
<1> HIDE DEF f
<1>4. ~IsScope(f)
  BY <1>2 DEF IsScope
<1> QED BY <1>1, <1>2, <1>3, <1>4 DEF PushStep, budgetVars

\* secureexecuterange.
LEMMA RangeIsPush ==
  ASSUME Core, NEW t \in Taints, SecureExecuteRange(t)
  PROVE  Standing' /\ PushStep
<1>1. Standing' /\ OthersStay
  BY RangeStands DEF OthersStay
<1>2. PICK f \in Frames : f.fn = "range" /\ ~f.denied /\ Grown(frames, stack'[current], f)
  BY RangeStands
<1>3. SameThreads /\ revoked' = Pruned(revoked, current, ci) /\ UNCHANGED <<resumers, budgetVars>> /\ topic = "taint"
  BY DEF SecureExecuteRange, CallRust, PrunedOnPush
<1>4. ~IsScope(f)
  BY <1>2 DEF IsScope
<1> QED BY <1>1, <1>2, <1>3, <1>4 DEF PushStep, budgetVars

\* A scope of an owner.
LEMMA OwnerIsPush ==
  ASSUME Core, NEW o \in Owners, WithInstructionOwner(o)
  PROVE  Standing' /\ PushStep
<1>1. o \in Owned
  BY DEF Owned
<1>2. /\ SameThreads /\ With(Append(frames, [RustFrame("owner", None) EXCEPT !.keep = <<active, exempt, o>>]))
      /\ revoked' = Pruned(revoked, current, ci) /\ UNCHANGED <<resumers, used, exempt>>
      /\ active' = IF exempt THEN None ELSE o
  BY DEF WithInstructionOwner, CallRust, PrunedOnPush
<1>3. Standing' /\ OthersStay
  BY <1>1, <1>2, ScopeStands DEF OthersStay
<1>4. PICK f \in Frames : f.fn = "owner" /\ ~f.denied /\ f.keep = <<active, exempt, o>> /\ Grown(frames, stack'[current], f)
  BY <1>1, <1>2, ScopeStands
<1>5. IsScope(f) /\ f.keep[3] = o
  BY <1>4 DEF IsScope
<1> QED BY <1>1, <1>2, <1>3, <1>4, <1>5 DEF PushStep

\* An exemption.
LEMMA ExemptIsPush ==
  ASSUME Core, WithExemption
  PROVE  Standing' /\ PushStep
<1>1. None \in Owned
  BY DEF Owned
<1>2. /\ SameThreads /\ With(Append(frames, [RustFrame("exempt", None) EXCEPT !.keep = <<active, exempt, None>>]))
      /\ revoked' = Pruned(revoked, current, ci) /\ UNCHANGED <<resumers, used>>
      /\ active' = None /\ exempt' = TRUE
  BY DEF WithExemption, CallRust, PrunedOnPush
<1>3. Standing' /\ OthersStay
  BY <1>1, <1>2, ScopeStands DEF OthersStay
<1>4. PICK f \in Frames : f.fn = "exempt" /\ ~f.denied /\ f.keep = <<active, exempt, None>> /\ Grown(frames, stack'[current], f)
  BY <1>1, <1>2, ScopeStands
<1>5. IsScope(f)
  BY <1>4 DEF IsScope
<1> QED BY <1>1, <1>2, <1>3, <1>4, <1>5 DEF PushStep

\* A tail call.
LEMMA TailCallIsCut ==
  ASSUME Core, NEW t \in Taints, NEW env \in Environments \cup {"global"}, TailCall(t, env)
  PROVE  Standing' /\ CutStep
<1>1. Standing' /\ Kept(frames, stack'[current], ci) /\ OthersStay
  BY TailCallStands DEF OthersStay
<1>2. SameThreads /\ revoked' = Pruned(revoked, current, ci) /\ UNCHANGED <<resumers, active, exempt>>
  BY DEF TailCall, Calls, PrunedOnPush, budgetVars
<1> QED BY <1>1, <1>2, TopIsCut

\* The steps about taints.
LEMMA TaintIsCut ==
  ASSUME Core, NEW t \in Taints,
         SetStackTaint(t) \/ SetObjectTaint(t) \/ SetTaintMode \/ MakeClosure \/ ReadField \/ WriteField
  PROVE  Standing' /\ CutStep
<1>1. OnTaint
  BY DEF SetStackTaint, SetObjectTaint, SetTaintMode, MakeClosure, ReadField, WriteField
<1>2. ci > 0 /\ frames[ci].fn = "lua" /\ SameThreads /\ UNCHANGED <<revoked, resumers, active, exempt>>
  BY <1>1 DEF OnTaint, IsLua, secretVars, budgetVars
<1>3. CASE UNCHANGED stack
  BY <1>2, <1>3, StillIs
<1>4. CASE \E u \in Taints : Top(SetTaint(frames[ci], u))
  <2>1. PICK u \in Taints : Top(SetTaint(frames[ci], u))
    BY <1>4
  <2>2. Standing' /\ Kept(frames, stack'[current], ci) /\ OthersStay
    BY <1>2, <2>1, TaintStands DEF OthersStay
  <2> QED BY <1>2, <2>2, TopIsCut
<1>5. slot \in Taints
  BY DEF Core, AccountsOK
<1> QED BY <1>3, <1>4, <1>5 DEF SetStackTaint, SetObjectTaint, SetTaintMode, MakeClosure, ReadField, WriteField

\* An instruction.
LEMMA InstructionIsCut ==
  ASSUME Core, Instruction
  PROVE  Standing' /\ CutStep
BY StillIs DEF Instruction, secretVars

\* A scope that returns restores what it keeps.
LEMMA ReturnScopes ==
  ASSUME Core, Return
  PROVE  Scoped(ScopesUnwound(frames, ci - 1))
<1>1. ci \in Nat /\ ci > 0 /\ ci = Len(frames)
  BY FramesAre DEF Core, Return
<1>2. \A i : i \in ci - 1 + 1 .. ci <=> i = ci
  BY <1>1
<1>3. CASE IsScope(frames[ci])
  <2>1. ScopesAbove(frames, ci - 1) = {ci}
    BY <1>1, <1>2, <1>3 DEF ScopesAbove
  <2>2. Lowest({ci}) = ci
    BY DEF Lowest
  <2>3. ScopesUnwound(frames, ci - 1) = frames[ci].keep
    BY <2>1, <2>2 DEF ScopesUnwound
  <2> QED BY <1>3, <2>3 DEF Return
<1>4. CASE ~IsScope(frames[ci])
  <2>1. ScopesAbove(frames, ci - 1) = {}
    BY <1>1, <1>2, <1>4 DEF ScopesAbove
  <2>2. ScopesUnwound(frames, ci - 1) = <<active, exempt>>
    BY <2>1 DEF ScopesUnwound
  <2> QED BY <1>4, <2>2 DEF Return
<1> QED BY <1>3, <1>4

\* A return.
LEMMA ReturnIsCut ==
  ASSUME Core, Return, ~(ci = 1 /\ current # Main)
  PROVE  Standing' /\ CutStep
<1>1. /\ Standing' /\ Kept(frames, stack'[current], ci - 1) /\ OthersStay
      /\ SameThreads /\ revoked' = Pruned(revoked, current, ci - 1) /\ resumers' = resumers /\ ci > 0
  BY ReturnStands DEF OthersStay
<1>2. ci \in Nat
  BY FramesAre DEF Core
<1>3. ci - 1 \in 0 .. ci
  BY <1>1, <1>2
<1>4. Scoped(ScopesUnwound(frames, ci - 1))
  BY ReturnScopes
<1> QED BY <1>1, <1>3, <1>4 DEF CutStep

\* An error.
LEMMA FailsIsCut ==
  ASSUME Core, Fails, ~(Catcher(frames) = 0 /\ current # Main)
  PROVE  Standing' /\ CutStep
<1> DEFINE to == Catcher(frames)
<1>1. /\ Standing' /\ OthersStay /\ SameThreads /\ resumers' = resumers
  BY FailsStands DEF OthersStay
<1>2. PICK n \in 0 .. ci :
         /\ Kept(frames, stack'[current], n)
         /\ \/ n = to - 1 /\ to > 0 /\ revoked' = Pruned(revoked, current, n) /\ frames[to].fn = "pcall"
            \/ n = to /\ revoked' = revoked /\ (n = 0 \/ frames[n].fn = "range")
  BY FailsStands
<1>3. to \in 0 .. ci /\ ci \in Nat /\ ci = Len(frames)
  BY CatcherIs, FramesAre DEF Core
<1>4. Scoped(ScopesUnwound(frames, to))
  BY DEF Fails
<1>5. ~(to = 0 /\ current # Main)
  OBVIOUS
<1> HIDE DEF to
<1>6. CASE n = to - 1 /\ to > 0 /\ revoked' = Pruned(revoked, current, n) /\ frames[to].fn = "pcall"
  <2>1. ScopesAbove(frames, n) = ScopesAbove(frames, to)
    <3>1. \A i \in n + 1 .. ci : i = to \/ i \in to + 1 .. ci
      BY <1>3, <1>6
    <3>2. \A i \in to + 1 .. ci : i \in n + 1 .. ci
      BY <1>3, <1>6
    <3>3. ~IsScope(frames[to])
      BY <1>6 DEF IsScope
    <3> QED BY <1>3, <3>1, <3>2, <3>3 DEF ScopesAbove
  <2>2. ScopesUnwound(frames, n) = ScopesUnwound(frames, to)
    BY <2>1 DEF ScopesUnwound
  <2> QED BY <1>1, <1>2, <1>4, <1>6, <2>2 DEF CutStep
<1>7. CASE n = to /\ revoked' = revoked /\ (n = 0 \/ frames[n].fn = "range")
  <2>1. (n = 0 /\ current = Main) \/ (n > 0 /\ frames[n].fn = "range")
    BY <1>3, <1>5, <1>7
  <2> QED BY <1>1, <1>2, <1>4, <1>7, <2>1 DEF CutStep
<1> QED BY <1>2, <1>6, <1>7

\* The end of a coroutine.
LEMMA EndIsBack ==
  ASSUME Main \notin Coroutines, Core, current # Main, SwitchBack(<<>>, "dead"), Scoped(ScopesUnwound(frames, 0))
  PROVE  Standing' /\ BackStep /\ BackSwitch
<1>1. <<>> \in Stack /\ Proper(<<>>) /\ Standing
  BY DEF Stack, Proper, TaintsStand, AtHome, ScopesKeep, Core
<1>2. Standing' /\ stack'[current] = <<>> /\ BackSwitch
  BY <1>1, SwitchStands DEF BackSwitch
<1> QED BY <1>1, <1>2 DEF BackStep

\* The return that ends a coroutine.
LEMMA ReturnIsBack ==
  ASSUME Main \notin Coroutines, Core, Return, ci = 1, current # Main
  PROVE  Standing' /\ BackStep /\ BackSwitch
<1>1. SwitchBack(<<>>, "dead")
  BY ReturnEnds
<1>2. Scoped(ScopesUnwound(frames, ci - 1)) /\ ci - 1 = 0
  BY ReturnScopes
<1> QED BY <1>1, <1>2, EndIsBack

\* The error that does.
LEMMA FailsIsBack ==
  ASSUME Main \notin Coroutines, Core, Fails, Catcher(frames) = 0, current # Main
  PROVE  Standing' /\ BackStep /\ BackSwitch
<1>1. SwitchBack(<<>>, "dead")
  BY FailsEnds
<1>2. Scoped(ScopesUnwound(frames, 0))
  BY DEF Fails
<1> QED BY <1>1, <1>2, EndIsBack

\* A yield.
LEMMA YieldIsBack ==
  ASSUME Main \notin Coroutines, Core, Yield
  PROVE  Standing' /\ BackStep /\ BackSwitch
<1>1. current # Main /\ ci > 0
  BY YieldStands
<1>2. PICK left \in Stack :
         /\ SwitchBack(left, "suspended") /\ Proper(left) /\ Yielded(left)
         /\ left # <<>> /\ left[Len(left)].fn = "yield"
         /\ \A j \in DOMAIN left : j # Len(left) => left[j].fn = "lua"
  BY YieldStands
<1>3. Standing
  BY DEF Core
<1>4. Standing' /\ stack'[current] = left /\ BackSwitch
  BY <1>1, <1>2, <1>3, SwitchStands DEF BackSwitch
<1>5. (\A j \in DOMAIN frames : frames[j].fn = "lua") /\ UNCHANGED <<active, exempt>>
  BY DEF Yield
<1>6. Scoped(ScopesUnwound(frames, 0))
  <2>1. ci \in Nat /\ DOMAIN frames = 1 .. ci
    BY <1>3, FramesAre
  <2>2. 0 \in 0 .. ci /\ \A j \in 0 + 1 .. ci : j \in DOMAIN frames
    BY <2>1
  <2>3. ScopesUnwound(frames, 0) = <<active, exempt>>
    BY <1>5, <2>2, NothingUnwound DEF IsScope
  <2> QED BY <1>5, <2>3 DEF Scoped
<1>8. left \in Stack /\ "suspended" \in {"suspended", "dead"} /\ SwitchBack(left, "suspended")
  BY <1>2
<1>9. \E l \in Stack, after \in {"suspended", "dead"} :
        /\ SwitchBack(l, after) /\ stack'[current] = l
        /\ after = "dead" => l = <<>>
        /\ after = "suspended" => /\ Yielded(l)
                                  /\ \A j \in DOMAIN frames : frames[j].fn = "lua"
  <2>1. "suspended" # "dead"
    OBVIOUS
  <2> QED BY <1>2, <1>4, <1>5, <1>8, <2>1
<1> QED BY <1>1, <1>4, <1>6, <1>9 DEF BackStep

\* All steps.
LEMMA Steps ==
  ASSUME Main \notin Coroutines, Core, Next
  PROVE  Standing' /\ (PushStep \/ CutStep \/ Revoke \/ (BackStep /\ BackSwitch) \/ ResumeStep)
<1>1. ASSUME NEW t \in Taints, NEW env \in Environments \cup {"global"}, Call(t, env) \/ TailCall(t, env)
      PROVE  Standing' /\ (PushStep \/ CutStep)
  BY <1>1, CallIsPush, TailCallIsCut
<1>2. ASSUME NEW t \in Taints, Pcall(t) \/ SecureCall(t) \/ SecureExecuteRange(t)
      PROVE  Standing' /\ PushStep
  BY <1>2, PcallIsPush, SecureIsPush, RangeIsPush
<1>3. ASSUME NEW t \in Taints, NEW co \in Coroutines, Resume(co, t)
      PROVE  Standing' /\ ResumeStep
  BY <1>3, ResumeStands DEF ResumeStep
<1>4. ASSUME NEW t \in Taints,
             SetStackTaint(t) \/ SetObjectTaint(t) \/ SetTaintMode \/ MakeClosure \/ ReadField \/ WriteField
      PROVE  Standing' /\ CutStep
  BY <1>4, TaintIsCut
<1>5. None \in Taints
  BY DEF Taints
<1>6. CASE Yield
  BY <1>6, YieldIsBack
<1>7. CASE Return
  BY <1>7, ReturnIsCut, ReturnIsBack
<1>8. CASE Error \/ OutOfBudget
  <2>1. Fails
    BY <1>8 DEF Error, OutOfBudget
  <2> QED BY <2>1, FailsIsCut, FailsIsBack
<1>9. CASE Revoke
  BY <1>9, RevokeStands
<1>10. CASE (\E o \in Owners : WithInstructionOwner(o)) \/ WithExemption
  BY <1>10, OwnerIsPush, ExemptIsPush
<1>11. CASE Instruction
  BY <1>11, InstructionIsCut
<1> QED BY <1>1, <1>2, <1>3, <1>4, <1>5, <1>6, <1>7, <1>8, <1>9, <1>10, <1>11 DEF Next

-----------------------------------------------------------------------------
(***************************************************************************)
(* The types of what is kept beside the stacks.                            *)
(***************************************************************************)
\* The nearest taint is a taint.
LEMMA NearestTaintIs ==
  ASSUME NEW F \in Stack
  PROVE  NearestTaint(F) \in Taints
<1> DEFINE S == {i \in DOMAIN F : F[i].taint # None}
           c == CHOOSE i \in S : \A j \in S : j <= i
<1>1. Len(F) \in Nat /\ DOMAIN F = 1 .. Len(F) /\ \A i \in 1 .. Len(F) : F[i] \in Frames
  BY SequenceIs DEF Stack
<1>2. CASE S = {}
  BY <1>2 DEF NearestTaint, Taints
<1>3. CASE S # {}
  <2>1. NearestTaint(F) = F[c].taint
    BY <1>3 DEF NearestTaint
  <2>2. S \in SUBSET (1 .. Len(F))
    BY <1>1
  <2> HIDE DEF S
  <2>3. \E i \in S : \A j \in S : j <= i
    BY <1>1, <1>3, <2>2, GreatestExists
  <2>4. c \in S
    BY <2>3
  <2> HIDE DEF c
  <2>5. F[c] \in Frames
    BY <1>1, <2>2, <2>4
  <2> QED BY <2>1, <2>5, FrameWith
<1> QED BY <1>2, <1>3

\* The entries of the threads.
LEMMA SecretsTyped ==
  ASSUME Main \notin Coroutines, Core, Next
  PROVE  revoked' \in SUBSET (Threads \X (Nat \ {0})) /\ resumers' \in Seq((Nat \ {0}) \X Threads)
<1> DEFINE X == Threads \X (Nat \ {0})
           Y == (Nat \ {0}) \X Threads
<1>1. revoked \in SUBSET X /\ resumers \in Seq(Y) /\ Standing
  BY DEF Core, AccountsOK
<1>2. \A r \in SUBSET X : \A t, d : Pruned(r, t, d) \in SUBSET X /\ Forgotten(r, t) \in SUBSET X
  BY DEF Pruned, Forgotten
<1>3. PushStep \/ CutStep \/ Revoke \/ (BackStep /\ BackSwitch) \/ ResumeStep
  BY Steps
<1>4. /\ Len(chain) \in Nat /\ Len(chain) >= 1 /\ current \in Threads
  BY <1>1, NowIs
<1> HIDE DEF X, Y
<1>5. CASE PushStep
  BY <1>1, <1>2, <1>5 DEF PushStep, X, Y
<1>6. CASE CutStep
  BY <1>1, <1>2, <1>6 DEF CutStep, X, Y
<1>7. CASE Revoke
  <2>1. ci \in Nat /\ ci > 0
    BY <1>1, <1>7, FramesAre DEF Revoke
  <2>2. <<current, ci>> \in X
    BY <1>4, <2>1 DEF X
  <2>3. ASSUME NEW r \in SUBSET X PROVE Lower(r, ci) \in SUBSET X
    <3> DEFINE own == {x \in r : x[1] = current}
    <3>1. \A x \in own : <<current, IF x[2] <= ci THEN x[2] ELSE ci>> \in X
      BY <1>4, <2>1 DEF X
    <3>2. Lower(r, ci) = IF own = {} THEN r \cup {<<current, ci>>}
                         ELSE (r \ own) \cup {<<current, IF x[2] <= ci THEN x[2] ELSE ci>> : x \in own}
      BY DEF Lower
    <3> HIDE DEF own
    <3> QED BY <2>2, <3>1, <3>2
  <2>4. revoked' = Pruned(Lower(Pruned(revoked, current, ci), ci), current, ci) /\ resumers' = resumers
    BY <1>7 DEF Revoke, PrunedOnPush
  <2>5. Pruned(revoked, current, ci) \in SUBSET X
    BY <1>1, <1>2
  <2>6. Lower(Pruned(revoked, current, ci), ci) \in SUBSET X
    BY <2>3, <2>5
  <2>7. revoked' \in SUBSET X
    BY <1>2, <2>4, <2>6
  <2> QED BY <1>1, <2>4, <2>7 DEF X, Y
<1>8. CASE BackStep
  <2>1. PICK left \in Stack, after \in {"suspended", "dead"} : SwitchBack(left, after)
    BY <1>8 DEF BackStep
  <2> DEFINE kept == IF after = "dead" THEN Forgotten(revoked, current) ELSE revoked
             r == chain[Len(chain) - 1]
  <2>2. /\ revoked' = Pruned(kept, r, Len(Front(stack[r])))
        /\ resumers' = resumers \/ (resumers # <<>> /\ resumers' = Front(resumers))
    BY <2>1 DEF SwitchBack
  <2>3. kept \in SUBSET X
    BY <1>1, <1>2
  <2> HIDE DEF kept, r
  <2>4. revoked' \in SUBSET X
    BY <1>2, <2>2, <2>3
  <2>5. resumers' \in Seq(Y)
    BY <1>1, <2>2, FrontIs
  <2> QED BY <2>4, <2>5 DEF X, Y
<1>9. CASE ResumeStep
  <2>1. PICK co \in Coroutines, t \in Taints : Resume(co, t)
    BY <1>9 DEF ResumeStep
  <2>2. revoked' = Pruned(Pruned(revoked, current, ci), co, Len(Body(co, t))) /\ resumers' = Enlisted(current)
    BY <2>1, ResumeStands
  <2>3. revoked' \in SUBSET X
    <3>1. Pruned(revoked, current, ci) \in SUBSET X
      BY <1>1, <1>2
    <3> QED BY <1>2, <2>2, <3>1
  <2>4. <<Len(chain), current>> \in Y
    BY <1>4 DEF Y
  <2>5. resumers' \in Seq(Y)
    BY <1>1, <2>2, <2>4, PushIs DEF Enlisted
  <2> QED BY <2>3, <2>5 DEF X, Y
<1> QED BY <1>3, <1>5, <1>6, <1>7, <1>8, <1>9

\* Who is charged.
LEMMA OwnersTyped ==
  ASSUME Main \notin Coroutines, Core, Next
  PROVE  active' \in Owned /\ exempt' \in BOOLEAN
<1>1. active \in Owned /\ exempt \in BOOLEAN /\ None \in Owned /\ Standing
  BY DEF Core, AccountsOK, Owned
<1>2. PushStep \/ CutStep \/ Revoke \/ (BackStep /\ BackSwitch) \/ ResumeStep
  BY Steps
<1>3. CASE PushStep
  <2>1. PICK f \in Frames :
             /\ IsScope(f) => \E o \in Owned : f.keep = <<active, exempt, o>>
             /\ f.fn = "owner" => active' = (IF exempt THEN None ELSE f.keep[3]) /\ exempt' = exempt
             /\ f.fn = "exempt" => active' = None /\ exempt' = TRUE
             /\ ~IsScope(f) => active' = active /\ exempt' = exempt
    BY <1>3 DEF PushStep
  <2>2. CASE f.fn = "owner"
    <3>1. PICK o \in Owned : f.keep = <<active, exempt, o>>
      BY <2>1, <2>2 DEF IsScope
    <3>2. f.keep[3] \in Owned
      BY <3>1
    <3> QED BY <1>1, <2>1, <2>2, <3>2
  <2>3. CASE f.fn = "exempt"
    BY <1>1, <2>1, <2>3
  <2>4. CASE ~IsScope(f)
    BY <1>1, <2>1, <2>4
  <2> QED BY <2>2, <2>3, <2>4 DEF IsScope
<1>4. CASE CutStep
  <2>1. PICK n \in 0 .. ci : Scoped(ScopesUnwound(frames, n))
    BY <1>4 DEF CutStep
  <2> QED BY <2>1, UnwoundIs DEF Scoped
<1>5. CASE BackStep
  <2>1. 0 \in 0 .. ci
    BY <1>1, FramesAre
  <2> QED BY <1>5, <2>1, UnwoundIs DEF BackStep, Scoped
<1>6. CASE Revoke \/ ResumeStep
  <2>1. UNCHANGED <<active, exempt>>
    BY <1>6, ResumeStands DEF Revoke, ResumeStep, budgetVars
  <2> QED BY <1>1, <2>1
<1> QED BY <1>2, <1>3, <1>4, <1>5, <1>6

\* The taints of objects.
LEMMA TaintsTyped ==
  ASSUME Core, Next
  PROVE  stamp' \in Taints /\ slot' \in Taints /\ taintMode' \in BOOLEAN
<1>1. stamp \in Taints /\ slot \in Taints /\ taintMode \in BOOLEAN /\ Standing
  BY DEF Core, AccountsOK
<1>2. CASE UNCHANGED taintVars
  BY <1>1, <1>2 DEF taintVars
<1>3. ASSUME NEW t \in Taints, NEW env, Call(t, env) \/ TailCall(t, env) PROVE UNCHANGED taintVars
  BY <1>3 DEF Call, TailCall
<1>4. ASSUME NEW t \in Taints, Pcall(t) \/ SecureCall(t) \/ SecureExecuteRange(t) PROVE UNCHANGED taintVars
  BY <1>4 DEF Pcall, SecureCall, SecureExecuteRange, CallRust
<1>5. ASSUME NEW t \in Taints, NEW co, Resume(co, t) PROVE UNCHANGED taintVars
  BY <1>5 DEF Resume
<1>6. ASSUME NEW t \in Taints, SetStackTaint(t) \/ SetObjectTaint(t)
      PROVE  stamp' \in Taints /\ slot' \in Taints /\ taintMode' \in BOOLEAN
  BY <1>1, <1>6 DEF SetStackTaint, SetObjectTaint, taintVars
<1>7. CASE Yield \/ Return \/ Error \/ OutOfBudget
  <2>1. UNCHANGED taintVars
    BY <1>7 DEF Yield, Return, Error, OutOfBudget, Fails, SwitchBack
  <2> QED BY <1>2, <2>1
<1>8. CASE Revoke \/ (\E o \in Owners : WithInstructionOwner(o)) \/ WithExemption \/ Instruction
  <2>1. UNCHANGED taintVars
    BY <1>8 DEF Revoke, WithInstructionOwner, WithExemption, CallRust, Instruction
  <2> QED BY <1>2, <2>1
<1>9. CASE SetTaintMode \/ ReadField
  BY <1>1, <1>9 DEF SetTaintMode, ReadField, taintVars
<1>10. CASE MakeClosure
  <2>1. frames \in Stack
    BY <1>1, FramesAre
  <2> QED BY <1>1, <1>10, <2>1, NearestTaintIs DEF MakeClosure
<1>11. CASE WriteField
  <2>1. ci > 0 /\ frames[ci].fn = "lua"
    BY <1>11 DEF WriteField, OnTaint, IsLua
  <2>2. frames[ci] \in Frames
    BY <1>1, <2>1, TopTaint
  <2>3. frames[ci].taint \in Taints
    BY <2>2, FrameWith
  <2> QED BY <1>1, <1>11, <2>3 DEF WriteField
<1> QED BY <1>2, <1>3, <1>4, <1>5, <1>6, <1>7, <1>8, <1>9, <1>10, <1>11 DEF Next

\* No budget is used beyond the limit.
LEMMA UseTyped ==
  ASSUME Limit \in Nat, Core, Next
  PROVE  used' \in [Owners -> 0 .. Limit]
<1>1. used \in [Owners -> 0 .. Limit] /\ active \in Owned
  BY DEF Core, AccountsOK
<1>2. CASE UNCHANGED used
  BY <1>1, <1>2
<1>3. ASSUME NEW t \in Taints, NEW env, Call(t, env) \/ TailCall(t, env) PROVE UNCHANGED used
  BY <1>3 DEF Call, TailCall, budgetVars
<1>4. ASSUME NEW t \in Taints, Pcall(t) \/ SecureCall(t) \/ SecureExecuteRange(t) PROVE UNCHANGED used
  BY <1>4 DEF Pcall, SecureCall, SecureExecuteRange, budgetVars
<1>5. ASSUME NEW t \in Taints, NEW co, Resume(co, t) PROVE UNCHANGED used
  BY <1>5 DEF Resume, budgetVars
<1>6. ASSUME NEW t \in Taints,
             SetStackTaint(t) \/ SetObjectTaint(t) \/ SetTaintMode \/ MakeClosure \/ ReadField \/ WriteField
      PROVE  UNCHANGED used
  BY <1>6 DEF SetStackTaint, SetObjectTaint, SetTaintMode, MakeClosure, ReadField, WriteField, OnTaint, budgetVars
<1>7. CASE Yield \/ Return \/ Error \/ OutOfBudget
  <2>1. UNCHANGED used
    BY <1>7 DEF Yield, Return, Error, OutOfBudget, Fails, SwitchBack
  <2> QED BY <1>1, <2>1
<1>8. CASE Revoke \/ (\E o \in Owners : WithInstructionOwner(o)) \/ WithExemption
  <2>1. UNCHANGED used
    BY <1>8 DEF Revoke, WithInstructionOwner, WithExemption, budgetVars
  <2> QED BY <1>1, <2>1
<1>9. CASE Instruction
  <2>1. active \in Owners /\ ~(used[active] >= Limit) /\ used' = [used EXCEPT ![active] = used[active] + 1]
    BY <1>1, <1>9 DEF Instruction, Charged, Exhausted, Owned
  <2>2. used[active] \in 0 .. Limit
    BY <1>1, <2>1
  <2>3. used[active] + 1 \in 0 .. Limit
    BY <2>1, <2>2
  <2> QED BY <1>1, <2>1, <2>3
<1>10. None \in Taints
  BY DEF Taints
<1>11. CASE SetTaintMode \/ MakeClosure \/ ReadField \/ WriteField
  BY <1>2, <1>6, <1>10, <1>11
<1> QED BY <1>2, <1>3, <1>4, <1>5, <1>6, <1>7, <1>8, <1>9, <1>11 DEF Next

\* All of Core.
LEMMA CoreStep ==
  ASSUME Main \notin Coroutines, Limit \in Nat, Core, [Next]_guardVars
  PROVE  Core'
<1>1. CASE Next
  <2>1. Standing'
    BY <1>1, Steps
  <2>2. AccountsOK'
    BY <1>1, SecretsTyped, OwnersTyped, TaintsTyped, UseTyped DEF AccountsOK
  <2> QED BY <2>1, <2>2 DEF Core
<1>2. CASE UNCHANGED guardVars
  <2>1. Standing'
    BY <1>2, SameStands DEF guardVars, SameThreads, Core
  <2>2. AccountsOK'
    BY <1>2 DEF guardVars, AccountsOK, Core
  <2> QED BY <2>1, <2>2 DEF Core
<1> QED BY <1>1, <1>2

\* The state at the beginning.
LEMMA CoreInit ==
  ASSUME Main \notin Coroutines, Limit \in Nat, Init
  PROVE  Core
<1>1. Main \in Threads /\ None \in Taints /\ None \in Owned
  BY DEF Threads, Taints, Owned
<1>2. /\ topic \in Topics /\ chain = <<Main>> /\ stack = [t \in Threads |-> <<>>] /\ status = [co \in Coroutines |-> "initial"]
      /\ revoked = {} /\ resumers = <<>> /\ stamp = None /\ slot = None /\ taintMode = FALSE
      /\ active = None /\ exempt = FALSE /\ used = [o \in Owners |-> 0]
  BY DEF Init, Begin
<1>3. <<>> \in Stack /\ Proper(<<>>)
  BY DEF Stack, Proper, TaintsStand, AtHome, ScopesKeep
<1>4. StacksOK
  BY <1>1, <1>2 DEF StacksOK
<1>5. AccountsOK
  <2>1. revoked \in SUBSET (Threads \X (Nat \ {0})) /\ resumers \in Seq((Nat \ {0}) \X Threads)
    BY <1>2
  <2>2. used \in [Owners -> 0 .. Limit]
    BY <1>2
  <2> QED BY <1>1, <1>2, <2>1, <2>2 DEF AccountsOK
<1>6. Len(chain) = 1 /\ DOMAIN chain = {1} /\ chain[1] = Main
  BY <1>2
<1>7. Linked
  <2>1. \A co \in Coroutines : status[co] = "initial" /\ co # Main
    BY <1>2
  <2> QED BY <1>6, <2>1 DEF Linked
<1>8. Parked
  BY <1>2 DEF Parked, Threads
<1>9. \A t \in Threads : Proper(stack[t])
  BY <1>2, <1>3
<1> QED BY <1>4, <1>5, <1>7, <1>8, <1>9 DEF Core, Standing

-----------------------------------------------------------------------------
(***************************************************************************)
(* What Core says of taints and environments.                              *)
(***************************************************************************)
\* Taints.
LEMMA CoreTaints ==
  ASSUME Core
  PROVE  TaintKept
<1>1. ASSUME NEW t \in Threads, NEW i \in DOMAIN stack[t]
      PROVE  stack[t][i].taint = IF Suspended(stack[t], i) THEN None ELSE stack[t][i].given
  BY DEF Core, Standing, Proper, TaintsStand, Tainted, Hidden, Suspended
<1>2. current \in Threads
  BY NowIs DEF Core
<1>3. \A i \in DOMAIN frames : frames[i].taint = IF Suspended(frames, i) THEN None ELSE frames[i].given
  BY <1>1, <1>2 DEF frames
<1>4. StateIsSecure <=> \A i \in DOMAIN frames : Suspended(frames, i) \/ frames[i].given = None
  BY <1>3 DEF StateIsSecure
<1> QED BY <1>1, <1>4 DEF TaintKept

\* Environments.
LEMMA CoreFits ==
  ASSUME Core
  PROVE  Fits
BY FramesAre DEF Core, Proper, AtHome, Fits

-----------------------------------------------------------------------------
(***************************************************************************)
(* The entries of the threads.                                             *)
(***************************************************************************)
Entries == SUBSET (Threads \X (Nat \ {0}))

\* An entry is a thread and a depth.
LEMMA EntryIs ==
  ASSUME NEW r \in Entries
  PROVE  \A x \in r : x[1] \in Threads /\ x[2] \in Nat /\ x[2] > 0 /\ x = <<x[1], x[2]>>
BY DEF Entries

\* Only a thread's own entries matter.
LEMMA EntrySame ==
  ASSUME NEW r, NEW s, NEW t, NEW F, Entry(r, t, F), \A x : x[1] = t => (x \in s <=> x \in r)
  PROVE  Entry(s, t, F)
BY DEF Entry

\* A thread without entries has lost no access.
LEMMA NoEntry ==
  ASSUME NEW r, NEW t, NEW F, \A x \in r : x[1] # t, \A j \in DOMAIN F : ~F[j].denied
  PROVE  Entry(r, t, F)
BY DEF Entry

\* A frame is pushed.
LEMMA EntryPush ==
  ASSUME NEW r \in Entries, NEW s, NEW t \in Threads, NEW F \in Stack, Entry(r, t, F), NEW G \in Stack, NEW f \in Frames,
         Grown(F, G, f), ~f.denied,
         \A x : x[1] = t => (x \in s <=> x \in r /\ x[2] <= Len(F))
  PROVE  Entry(s, t, G)
<1>1. Len(F) \in Nat /\ DOMAIN F = 1 .. Len(F) /\ Len(G) = Len(F) + 1 /\ DOMAIN G = 1 .. Len(F) + 1
  BY DEF Grown, Stack
<1>2. (\A i \in 1 .. Len(F) : G[i].denied <=> F[i].denied) /\ ~G[Len(F) + 1].denied
  BY <1>1 DEF Grown, Same
<1>3. \A x \in r : x[2] \in Nat /\ x[2] > 0
  BY EntryIs
<1>4. ASSUME NEW x \in s, NEW y \in s, x[1] = t, y[1] = t PROVE x = y
  BY <1>4 DEF Entry
<1>5. ASSUME NEW x \in s, x[1] = t
      PROVE  /\ x[2] <= Len(G) => G[x[2]].denied
             /\ x[2] > Len(G) => t = Main /\ G = <<>>
             /\ \A j \in DOMAIN G : j < x[2] => ~G[j].denied
  <2>1. x \in r /\ x[2] <= Len(F) /\ x[2] \in 1 .. Len(F)
    BY <1>1, <1>3, <1>5
  <2>2. F[x[2]].denied /\ \A j \in 1 .. Len(F) : j < x[2] => ~F[j].denied
    BY <1>1, <1>5, <2>1 DEF Entry
  <2>3. ~(x[2] > Len(G))
    BY <1>1, <2>1
  <2>4. \A j \in DOMAIN G : j < x[2] => j \in 1 .. Len(F)
    BY <1>1, <2>1
  <2> QED BY <1>2, <2>1, <2>2, <2>3, <2>4
<1>6. ASSUME NEW j \in DOMAIN G, G[j].denied PROVE \E x \in s : x[1] = t
  <2>1. j \in 1 .. Len(F) /\ F[j].denied
    BY <1>1, <1>2, <1>6, OneMore
  <2>2. PICK x \in r : x[1] = t
    BY <1>1, <2>1 DEF Entry
  <2>3. x[2] \in Nat /\ ~(x[2] > Len(F))
    BY <1>1, <1>3, <2>1, <2>2 DEF Entry
  <2>4. x[2] <= Len(F)
    BY <1>1, <2>3
  <2> QED BY <2>2, <2>4
<1> QED BY <1>4, <1>5, <1>6 DEF Entry

\* Frames end, and their entries are dropped.
LEMMA EntryCut ==
  ASSUME NEW r \in Entries, NEW s, NEW t \in Threads, NEW F \in Stack, Entry(r, t, F), NEW G \in Stack, NEW n \in 0 .. Len(F),
         Len(G) = n, \A i \in 1 .. n : G[i].denied <=> F[i].denied,
         \A x : x[1] = t => (x \in s <=> x \in r /\ x[2] <= n)
  PROVE  Entry(s, t, G)
<1>1. Len(F) \in Nat /\ DOMAIN F = 1 .. Len(F) /\ DOMAIN G = 1 .. n /\ n \in Nat /\ n <= Len(F)
  BY DEF Stack
<1>2. \A x \in r : x[2] \in Nat /\ x[2] > 0
  BY EntryIs
<1>3. \A i \in 1 .. n : i \in 1 .. Len(F)
  BY <1>1
<1>4. ASSUME NEW x \in s, NEW y \in s, x[1] = t, y[1] = t PROVE x = y
  BY <1>4 DEF Entry
<1>5. ASSUME NEW x \in s, x[1] = t
      PROVE  /\ x[2] <= Len(G) => G[x[2]].denied
             /\ x[2] > Len(G) => t = Main /\ G = <<>>
             /\ \A j \in DOMAIN G : j < x[2] => ~G[j].denied
  <2>1. x \in r /\ x[2] <= n /\ x[2] \in 1 .. n
    BY <1>1, <1>2, <1>5
  <2>2. x[2] <= Len(F) /\ ~(x[2] > n)
    BY <1>1, <2>1
  <2>3. F[x[2]].denied /\ \A j \in 1 .. Len(F) : j < x[2] => ~F[j].denied
    BY <1>1, <1>5, <2>1, <2>2 DEF Entry
  <2> QED BY <1>1, <1>3, <2>1, <2>2, <2>3
<1>6. ASSUME NEW j \in DOMAIN G, G[j].denied PROVE \E x \in s : x[1] = t
  <2>1. j \in 1 .. n /\ j \in DOMAIN F /\ F[j].denied
    BY <1>1, <1>3, <1>6
  <2>2. PICK x \in r : x[1] = t
    BY <2>1 DEF Entry
  <2>3. x[2] \in Nat /\ ~(j < x[2])
    BY <1>2, <2>1, <2>2 DEF Entry
  <2>4. x[2] <= n
    BY <1>1, <2>1, <2>3
  <2> QED BY <2>2, <2>4
<1> QED BY <1>4, <1>5, <1>6 DEF Entry

\* All entries of a coroutine, and of a thread with frames, are on its stack.
LEMMA EntryWithin ==
  ASSUME NEW r \in Entries, NEW t \in Threads, NEW F \in Stack, Entry(r, t, F), t # Main \/ F # <<>>
  PROVE  \A x \in r : x[1] = t => x[2] <= Len(F)
<1>1. Len(F) \in Nat /\ \A x \in r : x[2] \in Nat
  BY EntryIs DEF Stack
<1>2. \A x \in r : x[1] = t => ~(x[2] > Len(F))
  BY DEF Entry
<1> QED BY <1>1, <1>2

\* What is pruned.
LEMMA PrunedIs ==
  ASSUME NEW r, NEW t, NEW d
  PROVE  /\ \A x : x \in Pruned(r, t, d) <=> x \in r /\ (x[1] # t \/ x[2] <= d)
         /\ \A x : x \in Forgotten(r, t) <=> x \in r /\ x[1] # t
BY DEF Pruned, Forgotten

\* A push.
LEMMA PushEntered ==
  ASSUME Core, Entered, Standing', PushStep
  PROVE  Entered'
<1>1. PICK f \in Frames : Grown(frames, stack'[current], f) /\ ~f.denied /\ (f.fn = "range" => topic = "taint")
  BY DEF PushStep
<1>2. /\ SameThreads /\ OthersStay /\ revoked' = Pruned(revoked, current, ci) /\ topic' = topic
  BY DEF PushStep, SameThreads
<1>3. current \in Threads /\ (\A t \in Threads : stack[t] \in Stack /\ stack'[t] \in Stack) /\ revoked \in Entries
      /\ frames = stack[current] /\ ci = Len(frames) /\ frames \in Stack /\ ci \in Nat
  BY NowIs, FramesAre DEF Core, AccountsOK, Standing, StacksOK, Stack, Entries, frames
<1>4. ASSUME NEW t \in Threads PROVE Entry(revoked', t, stack'[t])
  <2>1. CASE t = current
    <3>1. \A x : x[1] = t => (x \in revoked' <=> x \in revoked /\ x[2] <= Len(frames))
      BY <1>2, <1>3, <2>1, PrunedIs
    <3>2. Entry(revoked, t, frames)
      BY <1>3, <2>1 DEF Entered
    <3> QED BY <1>1, <1>3, <2>1, <3>1, <3>2, EntryPush
  <2>2. CASE t # current
    <3>1. \A x : x[1] = t => (x \in revoked' <=> x \in revoked)
      BY <1>2, <2>2, PrunedIs
    <3>2. Entry(revoked, t, stack[t]) /\ stack'[t] = stack[t]
      BY <1>2, <2>2 DEF Entered, OthersStay
    <3> QED BY <3>1, <3>2, EntrySame
  <2> QED BY <2>1, <2>2
<1>5. ASSUME NEW t \in Threads, NEW j \in DOMAIN stack'[t], stack'[t][j].fn = "range" PROVE topic = "taint"
  <2>1. CASE t = current
    <3>1. DOMAIN stack'[t] = 1 .. ci + 1 /\ DOMAIN frames = 1 .. ci /\ Len(stack'[t]) = ci + 1
      BY <1>1, <1>3, <2>1 DEF Grown, Stack
    <3>2. CASE j = ci + 1
      BY <1>1, <1>5, <2>1, <3>1, <3>2 DEF Grown, Same
    <3>3. CASE j # ci + 1
      <4>1. j \in 1 .. ci
        BY <1>3, <3>1, <3>3, OneMore
      <4>2. frames[j].fn = "range"
        BY <1>1, <1>3, <1>5, <2>1, <4>1 DEF Grown, Same
      <4> QED BY <1>3, <3>1, <4>1, <4>2 DEF Entered
    <3> QED BY <3>2, <3>3
  <2>2. CASE t # current
    BY <1>2, <1>5, <2>2 DEF Entered, OthersStay
  <2> QED BY <2>1, <2>2
<1>6. topic # "secrets" => revoked' = {}
  BY <1>2, PrunedIs DEF Entered
<1> QED BY <1>2, <1>4, <1>5, <1>6 DEF Entered

\* What is kept has lost its access as before.
LEMMA CutEntry ==
  ASSUME Core, Entered, NEW G \in Stack, NEW n \in 0 .. ci, Kept(frames, G, n),
         NEW s, \/ s = Pruned(revoked, current, n)
                \/ s = revoked /\ (n = ci \/ (n = 0 /\ current = Main) \/ (n > 0 /\ frames[n].fn = "range"))
  PROVE  Entry(s, current, G)
<1>1. current \in Threads /\ revoked \in Entries /\ frames \in Stack /\ ci = Len(frames) /\ ci \in Nat /\ frames = stack[current]
      /\ DOMAIN frames = 1 .. ci
  BY NowIs, FramesAre DEF Core, AccountsOK, Entries, frames
<1>2. Entry(revoked, current, frames)
  BY <1>1 DEF Entered
<1>3. Len(G) = n /\ \A i \in 1 .. n : G[i].denied <=> frames[i].denied
  BY DEF Kept, Same
<1>4. CASE s = Pruned(revoked, current, n)
  <2>1. \A x : x[1] = current => (x \in s <=> x \in revoked /\ x[2] <= n)
    BY <1>4, PrunedIs
  <2> QED BY <1>1, <1>2, <1>3, <2>1, EntryCut
<1>5. CASE s = revoked /\ n = 0 /\ current = Main
  <2>1. G = <<>>
    BY <1>3, <1>5 DEF Stack
  <2>2. \A x \in revoked : x[2] \in Nat /\ x[2] > 0
    BY <1>1, EntryIs
  <2>3. \A x \in revoked : ~(x[2] <= Len(G))
    BY <1>3, <1>5, <2>2
  <2> QED BY <1>2, <1>5, <2>1, <2>3 DEF Entry
<1>6. CASE s = revoked /\ n = ci /\ ~(n = 0 /\ current = Main)
  <2>1. current # Main \/ frames # <<>>
    BY <1>1, <1>6
  <2>2. \A x \in revoked : x[1] = current => x[2] <= n
    BY <1>1, <1>2, <1>6, <2>1, EntryWithin
  <2>3. \A x : x[1] = current => (x \in s <=> x \in revoked /\ x[2] <= n)
    BY <1>6, <2>2
  <2> QED BY <1>1, <1>2, <1>3, <2>3, EntryCut
<1>7. CASE s = revoked /\ n > 0 /\ frames[n].fn = "range"
  <2>1. n \in DOMAIN frames
    BY <1>1, <1>7
  <2>2. revoked = {}
    BY <1>1, <1>7, <2>1 DEF Entered
  <2>3. \A x : x[1] = current => (x \in s <=> x \in revoked /\ x[2] <= n)
    BY <1>7, <2>2
  <2> QED BY <1>1, <1>2, <1>3, <2>3, EntryCut
<1> QED BY <1>4, <1>5, <1>6, <1>7

\* A cut.
LEMMA CutEntered ==
  ASSUME Core, Entered, Standing', CutStep
  PROVE  Entered'
<1>1. PICK n \in 0 .. ci :
         /\ Kept(frames, stack'[current], n)
         /\ \/ revoked' = Pruned(revoked, current, n)
            \/ revoked' = revoked /\ (n = ci \/ (n = 0 /\ current = Main) \/ (n > 0 /\ frames[n].fn = "range"))
  BY DEF CutStep
<1>2. SameThreads /\ OthersStay /\ topic' = topic
  BY DEF CutStep, SameThreads
<1>3. current \in Threads /\ (\A t \in Threads : stack[t] \in Stack /\ stack'[t] \in Stack)
      /\ frames = stack[current] /\ ci \in Nat /\ DOMAIN frames = 1 .. ci
  BY NowIs, FramesAre DEF Core, Standing, StacksOK, Stack, frames
<1>4. ASSUME NEW t \in Threads PROVE Entry(revoked', t, stack'[t])
  <2>1. CASE t = current
    BY <1>1, <1>3, <2>1, CutEntry
  <2>2. CASE t # current
    <3>1. \A x : x[1] = t => (x \in revoked' <=> x \in revoked)
      BY <1>1, <2>2, PrunedIs
    <3>2. Entry(revoked, t, stack[t]) /\ stack'[t] = stack[t]
      BY <1>2, <2>2 DEF Entered, OthersStay
    <3> QED BY <3>1, <3>2, EntrySame
  <2> QED BY <2>1, <2>2
<1>5. ASSUME NEW t \in Threads, NEW j \in DOMAIN stack'[t], stack'[t][j].fn = "range" PROVE topic = "taint"
  <2>1. CASE t = current
    <3>1. j \in 1 .. n /\ j \in 1 .. ci
      <4>1. DOMAIN stack'[t] = 1 .. n
        BY <1>1, <1>3 , <2>1 DEF Kept, Stack
      <4> QED BY <1>3, <4>1
    <3>2. frames[j].fn = "range"
      BY <1>1, <1>5, <2>1, <3>1 DEF Kept, Same
    <3> QED BY <1>3, <3>1, <3>2 DEF Entered
  <2>2. CASE t # current
    BY <1>2, <1>5, <2>2 DEF Entered, OthersStay
  <2> QED BY <2>1, <2>2
<1>6. topic # "secrets" => revoked' = {}
  BY <1>1, PrunedIs DEF Entered
<1> QED BY <1>2, <1>4, <1>5, <1>6 DEF Entered

\* The entry is lowered to a frame that has one already, or is made.
LEMMA LowerIs ==
  ASSUME Core, Entered, ci > 0
  PROVE  LET s == Pruned(Lower(Pruned(revoked, current, ci), ci), current, ci)
         IN \/ s = revoked /\ \E x \in revoked : x[1] = current
            \/ s = revoked \cup {<<current, ci>>} /\ \A x \in revoked : x[1] # current
<1> DEFINE own == {x \in revoked : x[1] = current}
           low(x) == IF x[2] <= ci THEN x[2] ELSE ci
<1>1. current \in Threads /\ revoked \in Entries /\ frames \in Stack /\ ci = Len(frames) /\ ci \in Nat /\ frames = stack[current]
      /\ frames # <<>>
  BY NowIs, FramesAre DEF Core, AccountsOK, Entries, frames
<1>2. Entry(revoked, current, frames)
  BY <1>1 DEF Entered
<1>3. \A x \in revoked : x[1] = current => x[2] <= ci
  BY <1>1, <1>2, EntryWithin
<1>4. Pruned(revoked, current, ci) = revoked
  BY <1>3 DEF Pruned
<1>5. \A x \in own : <<current, low(x)>> = x
  BY <1>1, <1>3, EntryIs
<1>6. Lower(revoked, ci) = IF own = {} THEN revoked \cup {<<current, ci>>}
                           ELSE (revoked \ own) \cup {<<current, low(x)>> : x \in own}
  BY DEF Lower
<1> HIDE DEF low
<1>7. {<<current, low(x)>> : x \in own} = own
  BY <1>5
<1>8. own \subseteq revoked
  OBVIOUS
<1>9. CASE own = {}
  <2>1. Pruned(revoked \cup {<<current, ci>>}, current, ci) = revoked \cup {<<current, ci>>}
    BY <1>1, <1>3 DEF Pruned
  <2>2. \A x \in revoked : x[1] # current
    BY <1>9
  <2> QED BY <1>4, <1>6, <1>9, <2>1, <2>2
<1>10. CASE own # {}
  <2>1. Lower(revoked, ci) = revoked
    BY <1>6, <1>7, <1>8, <1>10
  <2> QED BY <1>4, <1>10, <2>1
<1> QED BY <1>9, <1>10

\* Revoke.
LEMMA RevokeEntered ==
  ASSUME Core, Entered, Standing', Revoke
  PROVE  Entered' /\ \A t \in Threads : t # current => \A x : x[1] = t => (x \in revoked' <=> x \in revoked)
<1> DEFINE G == stack'[current]
<1>1. /\ Len(G) = ci /\ \A i \in 1 .. ci - 1 : G[i] = frames[i]
      /\ \A u \in Threads : u # current => stack'[u] = stack[u]
      /\ G[ci].denied /\ G[ci].fn = frames[ci].fn
  BY RevokeStands
<1>2. ci > 0 /\ revoked' = Pruned(Lower(Pruned(revoked, current, ci), ci), current, ci) /\ topic = "secrets" /\ topic' = topic
  BY DEF Revoke, PrunedOnPush, SameThreads
<1>3. current \in Threads /\ revoked \in Entries /\ (\A t \in Threads : stack[t] \in Stack /\ stack'[t] \in Stack)
      /\ frames \in Stack /\ ci = Len(frames) /\ frames = stack[current] /\ frames # <<>>
  BY <1>2, NowIs, FramesAre DEF Core, AccountsOK, Entries, frames, Standing, StacksOK, Stack
<1>4. Entry(revoked, current, frames)
  BY <1>3 DEF Entered
<1>5. \/ revoked' = revoked /\ \E x \in revoked : x[1] = current
      \/ revoked' = revoked \cup {<<current, ci>>} /\ \A x \in revoked : x[1] # current
  BY <1>2, LowerIs
<1>6. G \in Stack /\ ci \in Nat
  BY <1>3, FramesAre DEF Core
<1> HIDE DEF G
<1>7. DOMAIN G = 1 .. ci /\ DOMAIN frames = 1 .. ci
  BY <1>1, <1>3, <1>6 DEF Stack
<1>8. \A x \in revoked : x[2] \in Nat /\ x[2] > 0
  BY <1>3, EntryIs
<1>9. Entry(revoked', current, G)
  <2>1. CASE revoked' = revoked /\ \E x \in revoked : x[1] = current
    <3>1. ASSUME NEW x \in revoked, x[1] = current
          PROVE  G[x[2]].denied /\ ~(x[2] > ci) /\ \A j \in DOMAIN G : j < x[2] => ~G[j].denied
      <4>1. x[2] <= ci /\ x[2] \in 1 .. ci
        BY <1>3, <1>4, <1>6, <1>8, <3>1, EntryWithin
      <4>2. frames[x[2]].denied /\ \A j \in 1 .. ci : j < x[2] => ~frames[j].denied
        BY <1>3, <1>4, <1>7, <3>1, <4>1 DEF Entry
      <4>3. \A j \in 1 .. ci : j < x[2] => j \in 1 .. ci - 1
        BY <1>6, <4>1
      <4>4. x[2] = ci \/ x[2] \in 1 .. ci - 1
        BY <1>6, <4>1, BelowLast
      <4> QED BY <1>1, <1>6, <1>7, <4>1, <4>2, <4>3, <4>4
    <3> QED BY <1>1, <1>4, <2>1, <3>1 DEF Entry
  <2>2. CASE revoked' = revoked \cup {<<current, ci>>} /\ \A x \in revoked : x[1] # current
    <3>1. \A x \in revoked' : x[1] = current => x = <<current, ci>>
      BY <2>2
    <3>2. \A j \in 1 .. ci - 1 : ~G[j].denied
      <4>1. \A j \in 1 .. ci - 1 : j \in 1 .. ci
        BY <1>6
      <4> QED BY <1>1, <1>4, <1>7, <2>2, <4>1 DEF Entry
    <3>3. \A j \in 1 .. ci : j < ci => j \in 1 .. ci - 1
      BY <1>6
    <3>4. ci <= Len(G) /\ ~(ci > Len(G))
      BY <1>1, <1>6
    <3>5. <<current, ci>> \in revoked'
      BY <2>2
    <3> QED BY <1>1, <1>7, <3>1, <3>2, <3>3, <3>4, <3>5 DEF Entry
  <2> QED BY <1>5, <2>1, <2>2
<1>10. \A t \in Threads : t # current => \A x : x[1] = t => (x \in revoked' <=> x \in revoked)
  BY <1>5
<1>11. ASSUME NEW t \in Threads PROVE Entry(revoked', t, stack'[t])
  <2>1. CASE t = current
    BY <1>9, <2>1 DEF G
  <2>2. CASE t # current
    <3>1. Entry(revoked, t, stack[t]) /\ stack'[t] = stack[t]
      BY <1>1, <2>2 DEF Entered
    <3> QED BY <1>10, <2>2, <3>1, EntrySame
  <2> QED BY <2>1, <2>2
<1>12. ASSUME NEW t \in Threads, NEW j \in DOMAIN stack'[t], stack'[t][j].fn = "range" PROVE topic = "taint"
  <2>1. CASE t = current
    <3>1. j \in 1 .. ci /\ G[j].fn = "range"
      BY <1>7, <1>12, <2>1 DEF G
    <3>2. j = ci \/ j \in 1 .. ci - 1
      BY <1>6, <3>1, BelowLast
    <3>3. frames[j].fn = "range"
      BY <1>1, <3>1, <3>2
    <3> QED BY <1>3, <1>7, <3>1, <3>3 DEF Entered
  <2>2. CASE t # current
    BY <1>1, <1>12, <2>2 DEF Entered
  <2> QED BY <2>1, <2>2
<1> QED BY <1>2, <1>10, <1>11, <1>12 DEF Entered

\* Back to a resumer.
LEMMA BackEntered ==
  ASSUME Main \notin Coroutines, Core, Entered, Standing', BackStep, BackSwitch
  PROVE  Entered' /\ revoked' \subseteq revoked /\ topic' = topic
<1> DEFINE r == chain[Len(chain) - 1]
<1>1. PICK left \in Stack, after \in {"suspended", "dead"} :
       /\ SwitchBack(left, after) /\ stack'[current] = left
       /\ after = "dead" => left = <<>>
       /\ after = "suspended" => Yielded(left) /\ \A j \in DOMAIN frames : frames[j].fn = "lua"
  BY DEF BackStep
<1> DEFINE kept == IF after = "dead" THEN Forgotten(revoked, current) ELSE revoked
<1>2. /\ current # Main /\ stack'[r] = Front(stack[r])
      /\ \A t \in Threads : t # current /\ t # r => stack'[t] = stack[t]
  BY DEF BackStep, BackSwitch
<1>3. revoked' = Pruned(kept, r, Len(Front(stack[r]))) /\ topic' = topic
  BY <1>1 DEF SwitchBack
<1>4. r \in Threads /\ r # current /\ stack[r] \in Stack /\ stack[r] # <<>>
  BY <1>2, ResumerIs DEF Core
<1>5. /\ current \in Threads /\ revoked \in Entries /\ (\A t \in Threads : stack[t] \in Stack /\ stack'[t] \in Stack)
      /\ frames \in Stack /\ frames = stack[current]
  BY NowIs, FramesAre DEF Core, AccountsOK, Entries, frames, Standing, StacksOK, Stack
<1> HIDE DEF r
<1>6. /\ Len(Front(stack[r])) = Len(stack[r]) - 1 /\ \A i \in 1 .. Len(stack[r]) - 1 : Front(stack[r])[i] = stack[r][i]
      /\ Front(stack[r]) \in Stack
  BY <1>4, FrontIs DEF Stack
<1>7. \A x : x \in kept => x \in revoked
  BY PrunedIs
<1>8. \A x : x[1] # current => (x \in kept <=> x \in revoked)
  BY PrunedIs
<1>9. /\ \A x : x \in revoked' <=> x \in kept /\ (x[1] # r \/ x[2] <= Len(Front(stack[r])))
  BY <1>3, PrunedIs
<1>10. Len(stack[r]) \in Nat /\ Len(stack[r]) > 0 /\ DOMAIN stack[r] = 1 .. Len(stack[r])
  BY <1>4, SequenceIs DEF Stack
<1>11. Len(stack[r]) - 1 \in 0 .. Len(stack[r]) /\ \A i \in 1 .. Len(stack[r]) - 1 : i \in 1 .. Len(stack[r])
  BY <1>10
<1>12. Entry(revoked', r, stack'[r])
  <2>1. \A x : x[1] = r => (x \in revoked' <=> x \in revoked /\ x[2] <= Len(stack[r]) - 1)
    BY <1>4, <1>6, <1>8, <1>9
  <2>2. Entry(revoked, r, stack[r])
    BY <1>4 DEF Entered
  <2>3. \A i \in 1 .. Len(stack[r]) - 1 : Front(stack[r])[i].denied <=> stack[r][i].denied
    BY <1>6
  <2> DEFINE n == Len(stack[r]) - 1
             H == Front(stack[r])
  <2>4. /\ n \in 0 .. Len(stack[r]) /\ H \in Stack /\ Len(H) = n /\ \A i \in 1 .. n : H[i].denied <=> stack[r][i].denied
        /\ \A x : x[1] = r => (x \in revoked' <=> x \in revoked /\ x[2] <= n)
    BY <1>6, <1>11, <2>1, <2>3
  <2> HIDE DEF n, H, kept
  <2>5. Entry(revoked', r, H)
    BY <1>4, <1>5, <2>2, <2>4, EntryCut
  <2> QED BY <1>2, <2>5 DEF H
<1>13. Entry(revoked', current, left)
  <2>1. CASE after = "dead"
    <3>1. \A x \in revoked' : x[1] # current
      BY <1>9, <2>1, PrunedIs
    <3>2. left = <<>>
      BY <1>1, <2>1
    <3> QED BY <3>1, <3>2, NoEntry
  <2>2. CASE after = "suspended"
    <3>1. PICK f \in Frames : f.fn = "yield" /\ ~f.denied /\ Grown(frames, left, f)
      BY <1>1, <2>2 DEF Yielded
    <3>2. Entry(revoked, current, frames)
      BY <1>5 DEF Entered
    <3>3. \A x \in revoked : x[1] = current => x[2] <= Len(frames)
      BY <1>2, <1>5, <3>2, EntryWithin
    <3>4. \A x : x[1] = current => (x \in revoked' <=> x \in revoked /\ x[2] <= Len(frames))
      BY <1>4, <1>9, <2>2, <3>3
    <3> QED BY <1>5, <3>1, <3>2, <3>4, EntryPush
  <2> QED BY <2>1, <2>2
<1>14. ASSUME NEW t \in Threads PROVE Entry(revoked', t, stack'[t])
  <2>1. CASE t = current
    BY <1>1, <1>13, <2>1
  <2>2. CASE t = r
    BY <1>12, <2>2
  <2>3. CASE t # current /\ t # r
    <3>1. \A x : x[1] = t => (x \in revoked' <=> x \in revoked)
      BY <1>8, <1>9, <2>3
    <3>2. Entry(revoked, t, stack[t]) /\ stack'[t] = stack[t]
      BY <1>2, <2>3 DEF Entered
    <3> QED BY <3>1, <3>2, EntrySame
  <2> QED BY <2>1, <2>2, <2>3
<1>15. ASSUME NEW t \in Threads, NEW j \in DOMAIN stack'[t], stack'[t][j].fn = "range" PROVE topic = "taint"
  <2>1. CASE t = current
    <3>1. CASE after = "dead"
      BY <1>1, <1>15, <2>1, <3>1
    <3>2. CASE after = "suspended"
      <4>1. PICK f \in Frames : f.fn = "yield" /\ Grown(frames, left, f)
        BY <1>1, <3>2 DEF Yielded
      <4>2. Len(frames) \in Nat /\ DOMAIN frames = 1 .. Len(frames) /\ DOMAIN left = 1 .. Len(frames) + 1
        BY <1>5, <4>1 DEF Stack, Grown
      <4>3. j \in DOMAIN left /\ left[j].fn = "range"
        BY <1>1, <1>15, <2>1
      <4>4. left[j].fn = "yield" \/ (j \in DOMAIN frames /\ left[j].fn = frames[j].fn)
        BY <4>1, <4>2, <4>3, OneMore DEF Grown, Same
      <4> QED BY <1>1, <3>2, <4>3, <4>4
    <3> QED BY <3>1, <3>2
  <2>2. CASE t = r
    <3>1. DOMAIN Front(stack[r]) = 1 .. Len(stack[r]) - 1
      BY <1>6 DEF Stack
    <3>2. j \in DOMAIN stack[r] /\ stack[r][j].fn = "range"
      BY <1>2, <1>6, <1>10, <1>11, <1>15, <2>2, <3>1
    <3> QED BY <1>4, <3>2 DEF Entered
  <2>3. CASE t # current /\ t # r
    BY <1>2, <1>15, <2>3 DEF Entered
  <2> QED BY <2>1, <2>2, <2>3
<1>16. revoked' \subseteq revoked
  BY <1>7, <1>9
<1>17. topic # "secrets" => revoked' = {}
  BY <1>16 DEF Entered
<1> QED BY <1>3, <1>14, <1>15, <1>16, <1>17 DEF Entered

\* A coroutine is resumed.
LEMMA ResumeEntered ==
  ASSUME Main \notin Coroutines, Core, Entered, Standing', ResumeStep
  PROVE  Entered' /\ revoked' \subseteq revoked /\ topic' = topic
<1>1. PICK co \in Coroutines, t \in Taints : Resume(co, t)
  BY DEF ResumeStep
<1> DEFINE B == Body(co, t)
           F == stack[co]
<1>2. /\ co # current /\ co # Main /\ status[co] \in {"initial", "suspended"}
      /\ stack'[co] = B /\ \A u \in Threads : u # current /\ u # co => stack'[u] = stack[u]
      /\ revoked' = Pruned(Pruned(revoked, current, ci), co, Len(B)) /\ topic' = topic /\ IsLua
  BY <1>1, ResumeStands
<1>3. PICK f \in Frames : f.fn = "resume" /\ ~f.denied /\ Grown(frames, stack'[current], f)
  BY <1>1, ResumeStands
<1>4. /\ B \in Stack
      /\ status[co] = "initial" => F = <<>> /\ Len(B) = 1
      /\ status[co] = "suspended" => F # <<>> /\ Len(B) = Len(F) - 1
      /\ \A j \in 1 .. Len(B) : B[j].fn = "lua" /\ (B[j].denied <=> LosesIn(F, j))
  BY <1>2, BodyIs DEF Core
<1>5. /\ current \in Threads /\ co \in Threads /\ revoked \in Entries
      /\ (\A u \in Threads : stack[u] \in Stack /\ stack'[u] \in Stack)
      /\ frames \in Stack /\ frames = stack[current] /\ ci = Len(frames) /\ ci \in Nat /\ DOMAIN frames = 1 .. ci
  BY NowIs, FramesAre DEF Core, AccountsOK, Entries, frames, Standing, StacksOK, Stack, Threads
<1> HIDE DEF B, F
<1>6. \A x : x \in revoked' <=> x \in revoked /\ (x[1] # current \/ x[2] <= ci) /\ (x[1] # co \/ x[2] <= Len(B))
  BY <1>2, PrunedIs
<1>7. Entry(revoked', current, stack'[current])
  <2>1. \A x : x[1] = current => (x \in revoked' <=> x \in revoked /\ x[2] <= Len(frames))
    BY <1>2, <1>5, <1>6
  <2>2. Entry(revoked, current, frames)
    BY <1>5 DEF Entered
  <2> QED BY <1>3, <1>5, <2>1, <2>2, EntryPush
<1>8. F \in Stack /\ Entry(revoked, co, F)
  BY <1>5 DEF Entered, F
<1>9. Len(F) \in Nat /\ DOMAIN F = 1 .. Len(F) /\ (F # <<>> <=> Len(F) > 0)
  BY <1>8, SequenceIs DEF Stack
<1>10. \A x : x[1] = co => (x \in revoked' <=> x \in revoked /\ x[2] <= Len(B))
  BY <1>2, <1>6
<1>11. Entry(revoked', co, B)
  <2>1. CASE status[co] = "initial"
    <3>1. \A x \in revoked : x[1] = co => x[2] <= 0
      BY <1>2, <1>4, <1>5, <1>8, <2>1, EntryWithin
    <3>2. \A x \in revoked : x[2] \in Nat /\ x[2] > 0
      BY <1>5, EntryIs
    <3>3. \A x \in revoked : x[1] # co
      BY <3>1, <3>2
    <3>4. \A j \in DOMAIN B : ~B[j].denied
      <4>1. \A j : ~LosesIn(F, j)
        BY <1>4, <2>1 DEF LosesIn
      <4>2. DOMAIN B = 1 .. Len(B)
        BY <1>4 DEF Stack
      <4> QED BY <1>4, <4>1, <4>2
    <3>5. \A x \in revoked' : x[1] # co
      BY <1>6, <3>3
    <3> QED BY <3>4, <3>5, NoEntry
  <2>2. CASE status[co] = "suspended"
    <3> DEFINE n == Len(F) - 1
    <3>1. n \in 0 .. Len(F) /\ \A i \in 1 .. n : i \in 1 .. Len(F)
      BY <1>4, <1>9, <2>2
    <3>2. Len(B) = n
      BY <1>4, <2>2
    <3> HIDE DEF n
    <3>3. \A i \in 1 .. n : B[i].denied <=> F[i].denied
      BY <1>4, <1>9, <3>1, <3>2 DEF LosesIn
    <3>4. \A x : x[1] = co => (x \in revoked' <=> x \in revoked /\ x[2] <= n)
      BY <1>10, <3>2
    <3> QED BY <1>4, <1>5, <1>8, <3>1, <3>2, <3>3, <3>4, EntryCut
  <2> QED BY <1>2, <2>1, <2>2
<1>12. ASSUME NEW u \in Threads PROVE Entry(revoked', u, stack'[u])
  <2>1. CASE u = current
    BY <1>7, <2>1
  <2>2. CASE u = co
    BY <1>2, <1>11, <2>2
  <2>3. CASE u # current /\ u # co
    <3>1. \A x : x[1] = u => (x \in revoked' <=> x \in revoked)
      BY <1>6, <2>3
    <3>2. Entry(revoked, u, stack[u]) /\ stack'[u] = stack[u]
      BY <1>2, <2>3 DEF Entered
    <3> QED BY <3>1, <3>2, EntrySame
  <2> QED BY <2>1, <2>2, <2>3
<1>13. ASSUME NEW u \in Threads, NEW j \in DOMAIN stack'[u], stack'[u][j].fn = "range" PROVE topic = "taint"
  <2>1. CASE u = current
    <3>1. DOMAIN stack'[u] = 1 .. ci + 1 /\ Len(stack'[u]) = ci + 1
      BY <1>3, <1>5, <2>1 DEF Grown, Stack
    <3>2. stack'[u][j].fn = "resume" \/ (j \in DOMAIN frames /\ stack'[u][j].fn = frames[j].fn)
      BY <1>3, <1>5, <2>1, <3>1, OneMore DEF Grown, Same
    <3>3. j \in DOMAIN frames /\ frames[j].fn = "range"
      BY <1>13, <3>2
    <3> QED BY <1>5, <3>3 DEF Entered
  <2>2. CASE u = co
    <3>1. DOMAIN B = 1 .. Len(B)
      BY <1>4 DEF Stack
    <3>2. stack'[u][j].fn = "lua"
      BY <1>2, <1>4, <1>13, <2>2, <3>1
    <3> QED BY <1>13, <3>2
  <2>3. CASE u # current /\ u # co
    BY <1>2, <1>13, <2>3 DEF Entered
  <2> QED BY <2>1, <2>2, <2>3
<1>14. revoked' \subseteq revoked
  BY <1>6
<1>15. topic # "secrets" => revoked' = {}
  BY <1>14 DEF Entered
<1> QED BY <1>2, <1>12, <1>13, <1>14, <1>15 DEF Entered

-----------------------------------------------------------------------------
(***************************************************************************)
(* The list of the resumers.                                               *)
(***************************************************************************)
\* It stays as it is while the same threads wait, and get no entries.
LEMMA EnrolledSame ==
  ASSUME Core, Enrolled, chain' = chain, resumers' = resumers,
         \A x \in revoked' : x \in revoked \/ x[1] = current
  PROVE  Enrolled'
<1>1. /\ DOMAIN chain = 1 .. Len(chain)
      /\ \A i \in 1 .. Len(chain) : (chain[i] = current <=> i = Len(chain))
  BY NowIs DEF Core
<1>2. ASSUME NEW k \in DOMAIN chain, k # Len(chain)
      PROVE  \/ \E i \in DOMAIN resumers : resumers[i][1] = k
             \/ \A x \in revoked' : x[1] # chain[k]
  <2>1. chain[k] # current
    BY <1>1, <1>2
  <2> QED BY <1>2, <2>1 DEF Enrolled
<1> QED BY <1>2 DEF Enrolled

\* The resumer that runs on is no longer listed.
LEMMA BackEnrolled ==
  ASSUME Main \notin Coroutines, Core, Enrolled, BackStep, BackSwitch, revoked' \subseteq revoked
  PROVE  Enrolled'
<1> DEFINE n == Len(chain) - 1
           m == Len(resumers)
<1>1. PICK left \in Stack, after \in {"suspended", "dead"} : SwitchBack(left, after)
  BY DEF BackStep
<1>2. resumers' = IF resumers # <<>> /\ Last(resumers)[1] = n THEN Front(resumers) ELSE resumers
  BY <1>1 DEF SwitchBack
<1>3. Len(chain') = n /\ \A i \in 1 .. n : chain'[i] = chain[i]
  BY DEF BackSwitch
<1>4. Len(chain) \in Nat /\ n \in 1 .. Len(chain) /\ Len(chain) >= 2
  BY ResumerIs DEF Core, BackStep
<1>5. n \in Nat /\ n # Len(chain) /\ \A i \in 1 .. Len(chain) : i # Len(chain) => i \in 1 .. n
  BY <1>4
<1>6. DOMAIN chain = 1 .. Len(chain) /\ DOMAIN chain' = 1 .. n
  <2>1. chain \in Seq(Threads) /\ chain' \in Seq(Threads)
    <3>1. chain' = Front(chain) /\ chain \in Seq(Threads) /\ chain # <<>>
      BY <1>1 DEF SwitchBack, Core, Standing, StacksOK
    <3> QED BY <3>1, FrontIs
  <2> QED BY <1>3, <2>1
<1>7. resumers \in Seq((Nat \ {0}) \X Threads)
  BY DEF Core, AccountsOK
<1>8. DOMAIN resumers = 1 .. m /\ m \in Nat /\ (resumers # <<>> <=> m > 0) /\ Last(resumers) = resumers[m]
  BY <1>7, SequenceIs
<1>9. \A i \in 1 .. m : resumers[i][1] \in 1 .. Len(chain) /\ resumers[i][1] # Len(chain) /\ resumers[i][2] = chain[resumers[i][1]]
  BY <1>6, <1>8 DEF Enrolled
<1>10. \A i, j \in 1 .. m : i < j => resumers[i][1] < resumers[j][1]
  BY <1>8 DEF Enrolled
<1> HIDE DEF n, m
\* What the list is then.
<1>11. PICK l \in 0 .. m :
         /\ DOMAIN resumers' = 1 .. l /\ \A i \in 1 .. l : resumers'[i] = resumers[i]
         /\ \A i \in 1 .. l : resumers[i][1] # n
         /\ \A i \in 1 .. m : i \in 1 .. l \/ resumers[i][1] = n
  <2>1. CASE resumers # <<>> /\ resumers[m][1] = n
    <3>1. resumers' = Front(resumers) /\ Front(resumers) \in Seq((Nat \ {0}) \X Threads)
          /\ Len(Front(resumers)) = m - 1 /\ \A i \in 1 .. m - 1 : Front(resumers)[i] = resumers[i]
      BY <1>2, <1>7, <1>8, <2>1, FrontIs DEF m
    <3>2. m - 1 \in 0 .. m /\ DOMAIN resumers' = 1 .. m - 1
      BY <1>8, <2>1, <3>1
    <3>3. \A i \in 1 .. m - 1 : i \in 1 .. m /\ m \in 1 .. m /\ i < m
      BY <1>8, <2>1
    <3>4. \A i \in 1 .. m - 1 : resumers[i][1] # n
      <4>1. \A i \in 1 .. m - 1 : resumers[i][1] < n /\ resumers[i][1] \in 1 .. Len(chain)
        BY <1>9, <1>10, <2>1, <3>3
      <4> QED BY <1>5, <4>1
    <3>5. \A i \in 1 .. m : i \in 1 .. m - 1 \/ resumers[i][1] = n
      BY <1>8, <2>1, BelowLast
    <3> QED BY <3>1, <3>2, <3>4, <3>5
  <2>2. CASE ~(resumers # <<>> /\ resumers[m][1] = n)
    <3>1. resumers' = resumers /\ m \in 0 .. m
      BY <1>2, <1>8, <2>2
    <3>2. ASSUME NEW i \in 1 .. m PROVE resumers[i][1] # n
      <4>1. m > 0 /\ resumers[m][1] # n /\ m \in 1 .. m
        BY <1>8, <2>2, <3>2
      <4>2. resumers[m][1] \in 1 .. n /\ resumers[m][1] < n
        <5>1. resumers[m][1] \in 1 .. n
          BY <1>5, <1>9, <4>1
        <5> QED BY <1>5, <4>1, <5>1
      <4>3. i = m \/ resumers[i][1] < resumers[m][1]
        <5>1. i = m \/ i < m
          BY <1>8, <3>2
        <5> QED BY <1>10, <4>1, <5>1
      <4>4. resumers[i][1] \in 1 .. n
        BY <1>5, <1>9
      <4> QED BY <1>5, <4>1, <4>2, <4>3, <4>4
    <3> QED BY <1>8, <3>1, <3>2
  <2> QED BY <2>1, <2>2
<1>12. \A i \in 1 .. l : i \in 1 .. m
  BY <1>8
<1>13. ASSUME NEW i \in 1 .. l
       PROVE  /\ resumers'[i][1] \in 1 .. n /\ resumers'[i][1] # n
              /\ resumers'[i][2] = chain'[resumers'[i][1]]
  <2>1. resumers'[i] = resumers[i] /\ resumers[i][1] \in 1 .. n /\ resumers[i][1] # n /\ resumers[i][2] = chain[resumers[i][1]]
    BY <1>5, <1>9, <1>11, <1>12
  <2> QED BY <1>3, <2>1
<1>14. \A i, j \in 1 .. l : i < j => resumers'[i][1] < resumers'[j][1]
  BY <1>10, <1>11, <1>12
<1>15. ASSUME NEW k \in 1 .. n, k # n
       PROVE  \/ \E i \in 1 .. l : resumers'[i][1] = k
              \/ \A x \in revoked' : x[1] # chain'[k]
  <2>1. k \in 1 .. Len(chain) /\ k # Len(chain) /\ chain'[k] = chain[k]
    BY <1>3, <1>4, <1>5
  <2>2. CASE \E i \in DOMAIN resumers : resumers[i][1] = k
    <3>1. PICK i \in 1 .. m : resumers[i][1] = k
      BY <1>8, <2>2
    <3>2. i \in 1 .. l
      BY <1>11, <1>15, <3>1
    <3> QED BY <1>11, <3>1, <3>2
  <2>3. CASE \A x \in revoked : x[1] # chain[k]
    BY <2>1, <2>3
  <2> QED BY <1>6, <2>1, <2>2, <2>3 DEF Enrolled
<1> QED BY <1>3, <1>6, <1>11, <1>13, <1>14, <1>15 DEF Enrolled

\* The thread that resumes another one is listed if there is an entry.
LEMMA ResumeEnrolled ==
  ASSUME Main \notin Coroutines, Core, Enrolled, ResumeStep, revoked' \subseteq revoked
  PROVE  Enrolled'
<1> DEFINE n == Len(chain)
           m == Len(resumers)
<1>1. PICK co \in Coroutines, t \in Taints : Resume(co, t)
  BY DEF ResumeStep
<1>2. /\ Len(chain') = n + 1 /\ \A i \in 1 .. n : chain'[i] = chain[i]
      /\ resumers' = Enlisted(current) /\ Standing'
  BY <1>1, ResumeStands
<1>3. n \in Nat /\ n >= 1 /\ DOMAIN chain = 1 .. n /\ current = chain[n] /\ current \in Threads
  BY NowIs DEF Core
<1>4. DOMAIN chain' = 1 .. n + 1
  BY <1>2 DEF Standing, StacksOK
<1>5. resumers \in Seq((Nat \ {0}) \X Threads)
  BY DEF Core, AccountsOK
<1>6. DOMAIN resumers = 1 .. m /\ m \in Nat
  BY <1>5, SequenceIs
<1>7. \A i \in 1 .. m : resumers[i][1] \in 1 .. n /\ resumers[i][1] # n /\ resumers[i][2] = chain[resumers[i][1]]
  BY <1>3, <1>6 DEF Enrolled
<1>8. \A i, j \in 1 .. m : i < j => resumers[i][1] < resumers[j][1]
  BY <1>6 DEF Enrolled
<1>9. \A k \in 1 .. n : k # n => \/ \E i \in 1 .. m : resumers[i][1] = k
                               \/ \A x \in revoked : x[1] # chain[k]
  BY <1>3, <1>6 DEF Enrolled
<1>10. n \in 1 .. n /\ (\A i \in 1 .. n : i \in 1 .. n + 1 /\ i # n + 1) /\ \A i \in 1 .. n + 1 : i # n + 1 => i \in 1 .. n
  BY <1>3
<1>11. n \in Nat \ {0}
  BY <1>3
<1> DEFINE e == <<n, current>>
<1>12. e[1] = n /\ e[2] = current /\ e \in (Nat \ {0}) \X Threads
  BY <1>3, <1>11
<1>13. CASE revoked = {}
  <2>1. resumers' = resumers /\ revoked' = {}
    BY <1>2, <1>13 DEF Enlisted
  <2>2. \A i \in DOMAIN resumers' : /\ resumers'[i][1] \in DOMAIN chain' /\ resumers'[i][1] # Len(chain')
                                   /\ resumers'[i][2] = chain'[resumers'[i][1]]
    BY <1>2, <1>4, <1>6, <1>7, <1>10, <2>1
  <2> QED BY <1>6, <1>8, <2>1, <2>2 DEF Enrolled
<1>14. CASE revoked # {}
  <2>1. resumers' = Append(resumers, e)
    BY <1>2, <1>14 DEF Enlisted
  <2> HIDE DEF e
  <2>2. DOMAIN resumers' = 1 .. m + 1 /\ resumers'[m + 1] = e /\ \A i \in 1 .. m : resumers'[i] = resumers[i]
    BY <1>5, <1>6, <1>12, <2>1, PushIs
  <2> HIDE DEF n, m
  <2>3. ASSUME NEW i \in 1 .. m + 1
        PROVE  /\ resumers'[i][1] \in 1 .. n + 1 /\ resumers'[i][1] # n + 1
               /\ resumers'[i][2] = chain'[resumers'[i][1]]
    <3>1. CASE i = m + 1
      BY <1>2, <1>3, <1>10, <1>12, <2>2, <3>1
    <3>2. CASE i # m + 1
      <4>1. i \in 1 .. m
        BY <1>6, <3>2, OneMore
      <4> QED BY <1>2, <1>7, <1>10, <2>2, <4>1
    <3> QED BY <3>1, <3>2
  <2>4. ASSUME NEW i \in 1 .. m + 1, NEW j \in 1 .. m + 1, i < j PROVE resumers'[i][1] < resumers'[j][1]
    <3>1. i \in 1 .. m
      BY <1>6, <2>4
    <3>2. CASE j = m + 1
      <4>1. resumers[i][1] \in 1 .. n /\ resumers[i][1] # n
        BY <1>7, <3>1
      <4>2. resumers[i][1] < n
        BY <1>3, <4>1
      <4> QED BY <1>12, <2>2, <3>1, <3>2, <4>2
    <3>3. CASE j # m + 1
      <4>1. j \in 1 .. m
        BY <1>6, <3>3, OneMore
      <4> QED BY <1>8, <2>2, <2>4, <3>1, <4>1
    <3> QED BY <3>2, <3>3
  <2>5. ASSUME NEW k \in 1 .. n + 1, k # n + 1
        PROVE  \/ \E i \in 1 .. m + 1 : resumers'[i][1] = k
               \/ \A x \in revoked' : x[1] # chain'[k]
    <3>1. k \in 1 .. n /\ chain'[k] = chain[k]
      BY <1>2, <1>10, <2>5
    <3>2. m + 1 \in 1 .. m + 1 /\ \A i \in 1 .. m : i \in 1 .. m + 1
      BY <1>6, OneMore
    <3>3. CASE k = n
      BY <1>12, <2>2, <3>2, <3>3
    <3>4. CASE k # n
      BY <1>9, <2>2, <3>1, <3>2, <3>4
    <3> QED BY <3>3, <3>4
  <2>6. Len(chain') = n + 1 /\ DOMAIN chain' = 1 .. n + 1
    BY <1>2, <1>4
  <2> QED BY <2>2, <2>3, <2>4, <2>5, <2>6 DEF Enrolled
<1> QED BY <1>13, <1>14

\* All steps.
LEMMA SecretsStep ==
  ASSUME Main \notin Coroutines, Core, Entered, Enrolled, [Next]_guardVars
  PROVE  Entered' /\ Enrolled'
<1>1. CASE Next
  <2>1. Standing' /\ (PushStep \/ CutStep \/ Revoke \/ (BackStep /\ BackSwitch) \/ ResumeStep)
    BY <1>1, Steps
  <2>2. CASE PushStep
    <3>1. chain' = chain /\ resumers' = resumers /\ \A x \in revoked' : x \in revoked
      BY <2>2, PrunedIs DEF PushStep, SameThreads
    <3> QED BY <2>1, <2>2, <3>1, PushEntered, EnrolledSame
  <2>3. CASE CutStep
    <3>1. chain' = chain /\ resumers' = resumers /\ \A x \in revoked' : x \in revoked
      BY <2>3, PrunedIs DEF CutStep, SameThreads
    <3> QED BY <2>1, <2>3, <3>1, CutEntered, EnrolledSame
  <2>4. CASE Revoke
    <3>1. chain' = chain /\ resumers' = resumers /\ ci > 0
          /\ revoked' = Pruned(Lower(Pruned(revoked, current, ci), ci), current, ci)
      BY <2>4 DEF Revoke, SameThreads, PrunedOnPush
    <3>2. \A x \in revoked' : x \in revoked \/ x[1] = current
      BY <3>1, LowerIs
    <3> QED BY <2>1, <2>4, <3>1, <3>2, RevokeEntered, EnrolledSame
  <2>5. CASE BackStep /\ BackSwitch
    BY <2>1, <2>5, BackEntered, BackEnrolled
  <2>6. CASE ResumeStep
    BY <2>1, <2>6, ResumeEntered, ResumeEnrolled
  <2> QED BY <2>1, <2>2, <2>3, <2>4, <2>5, <2>6
<1>2. CASE UNCHANGED guardVars
  BY <1>2 DEF guardVars, Entered, Enrolled, Entry
<1> QED BY <1>1, <1>2

\* What it says of access.
LEMMA SecretsDenied ==
  ASSUME Core, Entered, Enrolled
  PROVE  Denied
<1>1. /\ DOMAIN chain = 1 .. Len(chain) /\ Len(chain) \in Nat /\ current = chain[Len(chain)] /\ Len(chain) \in DOMAIN chain
      /\ \A i \in DOMAIN chain : chain[i] \in Threads /\ stack[chain[i]] \in Stack
      /\ frames = stack[current] /\ ci = Len(frames) /\ revoked \in Entries
  <2>1. Len(chain) \in Nat /\ Len(chain) >= 1 /\ DOMAIN chain = 1 .. Len(chain)
    BY NowIs DEF Core
  <2>2. Len(chain) \in DOMAIN chain
    BY <2>1
  <2> QED BY <2>2, NowIs, FramesAre DEF Core, AccountsOK, Entries, frames
<1>2. ASSUME NEW i \in DOMAIN chain, NEW x \in revoked, x[1] = chain[i], x[2] <= Len(stack[chain[i]])
      PROVE  \E j \in DOMAIN stack[chain[i]] : stack[chain[i]][j].denied
  <2> DEFINE F == stack[chain[i]]
  <2>1. F \in Stack /\ Entry(revoked, chain[i], F)
    BY <1>1 DEF Entered
  <2>2. x[2] \in Nat /\ x[2] > 0
    BY <1>1, EntryIs
  <2>3. F[x[2]].denied
    BY <1>2, <2>1 DEF Entry
  <2>4. x[2] \in 1 .. Len(F) /\ DOMAIN F = 1 .. Len(F)
    BY <1>2, <2>1, <2>2 DEF Stack
  <2> QED BY <2>3, <2>4
<1>3. ASSUME ContextRevoked PROVE \E i \in DOMAIN chain : \E j \in DOMAIN stack[chain[i]] : stack[chain[i]][j].denied
  <2>1. PICK x \in revoked : \/ x[1] = current /\ x[2] <= ci
                            \/ \E i \in DOMAIN resumers : x[1] = resumers[i][2] /\ x[2] <= Len(stack[chain[resumers[i][1]]])
    BY <1>3 DEF ContextRevoked
  <2>2. CASE x[1] = current /\ x[2] <= ci
    BY <1>1, <1>2, <2>2
  <2>3. CASE \E i \in DOMAIN resumers : x[1] = resumers[i][2] /\ x[2] <= Len(stack[chain[resumers[i][1]]])
    <3>1. PICK i \in DOMAIN resumers : x[1] = resumers[i][2] /\ x[2] <= Len(stack[chain[resumers[i][1]]])
      BY <2>3
    <3>2. resumers[i][1] \in DOMAIN chain /\ resumers[i][2] = chain[resumers[i][1]]
      BY DEF Enrolled
    <3> QED BY <1>2, <3>1, <3>2
  <2> QED BY <2>1, <2>2, <2>3
<1>4. ASSUME NEW i \in DOMAIN chain, NEW j \in DOMAIN stack[chain[i]], stack[chain[i]][j].denied PROVE ContextRevoked
  <2> DEFINE F == stack[chain[i]]
  <2>1. chain[i] \in Threads /\ F \in Stack /\ Entry(revoked, chain[i], F) /\ F # <<>>
    <3>1. F # <<>>
      BY <1>4
    <3> QED BY <1>1, <3>1 DEF Entered
  <2>2. PICK x \in revoked : x[1] = chain[i]
    BY <1>4, <2>1 DEF Entry
  <2>3. x[2] <= Len(F)
    BY <1>1, <2>1, <2>2, EntryWithin
  <2>4. CASE i = Len(chain)
    BY <1>1, <2>2, <2>3, <2>4 DEF ContextRevoked
  <2>5. CASE i # Len(chain)
    <3>1. PICK k \in DOMAIN resumers : resumers[k][1] = i
      BY <2>2, <2>5 DEF Enrolled
    <3>2. resumers[k][2] = chain[i]
      BY <3>1 DEF Enrolled
    <3> QED BY <2>2, <2>3, <3>1, <3>2 DEF ContextRevoked
  <2> QED BY <2>4, <2>5
<1> QED BY <1>3, <1>4 DEF Denied

-----------------------------------------------------------------------------
(***************************************************************************)
(* The scopes of a chain of stacks.                                        *)
(***************************************************************************)
Chains == Seq(Threads)
Stacks == [Threads -> Stack]
NatPairs == Nat \X Nat

\* The places are in order.
LEMMA AroundIs ==
  ASSUME NEW p \in NatPairs, NEW q \in NatPairs
  PROVE  /\ ~Around(p, p) /\ (Around(p, q) => ~Around(q, p)) /\ (p # q => Around(p, q) \/ Around(q, p))
         /\ \A r \in NatPairs : Around(p, q) /\ Around(q, r) => Around(p, r)
<1>1. p = <<p[1], p[2]>> /\ q = <<q[1], q[2]>> /\ p[1] \in Nat /\ p[2] \in Nat /\ q[1] \in Nat /\ q[2] \in Nat
  BY DEF NatPairs
<1>2. p # q => p[1] # q[1] \/ p[2] # q[2]
  BY <1>1
<1>3. ~Around(p, p) /\ (Around(p, q) => ~Around(q, p)) /\ (p # q => Around(p, q) \/ Around(q, p))
  BY <1>1, <1>2 DEF Around
<1>4. ASSUME NEW r \in NatPairs, Around(p, q), Around(q, r) PROVE Around(p, r)
  <2>1. r[1] \in Nat /\ r[2] \in Nat
    BY DEF NatPairs
  <2> QED BY <1>1, <1>4, <2>1 DEF Around
<1> QED BY <1>3, <1>4

\* The marks are those of the scopes.
LEMMA MarksAre ==
  ASSUME NEW c \in Chains, NEW st \in Stacks
  PROVE  /\ DOMAIN c = 1 .. Len(c) /\ Len(c) \in Nat
         /\ \A i \in 1 .. Len(c) :
              c[i] \in Threads /\ st[c[i]] \in Stack /\ DOMAIN st[c[i]] = 1 .. Len(st[c[i]]) /\ Len(st[c[i]]) \in Nat
         /\ \A i \in 1 .. Len(c) : \A j \in 1 .. Len(st[c[i]]) :
              IsScope(st[c[i]][j]) => Mark(i, j, st[c[i]][j]) \in Marks(c, st)
         /\ \A s \in Marks(c, st) :
              /\ s.at \in NatPairs /\ s.at[1] \in 1 .. Len(c) /\ s.at[2] \in 1 .. Len(st[c[s.at[1]]])
              /\ LET f == st[c[s.at[1]]][s.at[2]] IN IsScope(f) /\ s = Mark(s.at[1], s.at[2], f)
<1>1. DOMAIN c = 1 .. Len(c) /\ Len(c) \in Nat
  BY SequenceIs DEF Chains
<1>2. ASSUME NEW i \in 1 .. Len(c)
      PROVE  c[i] \in Threads /\ st[c[i]] \in Stack /\ DOMAIN st[c[i]] = 1 .. Len(st[c[i]]) /\ Len(st[c[i]]) \in Nat
  <2>1. c[i] \in Threads
    BY SequenceIs DEF Chains
  <2>2. st[c[i]] \in Stack
    BY <2>1 DEF Stacks
  <2> QED BY <2>1, <2>2, SequenceIs DEF Stack
<1>3. ASSUME NEW i \in 1 .. Len(c), NEW j \in 1 .. Len(st[c[i]]), IsScope(st[c[i]][j]) PROVE Mark(i, j, st[c[i]][j]) \in Marks(c, st)
  <2>1. i \in DOMAIN c /\ j \in {k \in DOMAIN st[c[i]] : IsScope(st[c[i]][k])}
    BY <1>1, <1>2, <1>3
  <2>2. \E z \in {Mark(i, k, st[c[i]][k]) : k \in {k \in DOMAIN st[c[i]] : IsScope(st[c[i]][k])}} : z = Mark(i, j, st[c[i]][j])
    BY <2>1
  <2> QED BY <2>1, <2>2 DEF Marks
<1>4. ASSUME NEW s \in Marks(c, st)
      PROVE  /\ s.at \in NatPairs /\ s.at[1] \in 1 .. Len(c) /\ s.at[2] \in 1 .. Len(st[c[s.at[1]]])
             /\ LET f == st[c[s.at[1]]][s.at[2]] IN IsScope(f) /\ s = Mark(s.at[1], s.at[2], f)
  <2>1. PICK i \in 1 .. Len(c) : \E j \in DOMAIN st[c[i]] : IsScope(st[c[i]][j]) /\ s = Mark(i, j, st[c[i]][j])
    BY <1>1 DEF Marks
  <2>2. PICK j \in DOMAIN st[c[i]] : IsScope(st[c[i]][j]) /\ s = Mark(i, j, st[c[i]][j])
    BY <2>1
  <2>3. s.at = <<i, j>>
    BY <2>2 DEF Mark
  <2>4. j \in 1 .. Len(st[c[i]]) /\ j \in Nat /\ i \in Nat
    BY <1>1, <1>2, <2>2
  <2>5. s.at[1] = i /\ s.at[2] = j /\ s.at \in NatPairs
    BY <2>3, <2>4 DEF NatPairs
  <2> QED BY <2>2, <2>4, <2>5
<1> QED BY <1>1, <1>2, <1>3, <1>4

\* What is around a place that is around another one.
LEMMA WithinWithin ==
  ASSUME NEW M, \A s \in M : s.at \in NatPairs, NEW p \in NatPairs, NEW q \in NatPairs, Around(q, p) \/ q = p
  PROVE  Within(Within(M, p), q) = Within(M, q)
<1>1. \A s \in M : Around(s.at, q) => Around(s.at, p)
  BY AroundIs
<1> QED BY <1>1 DEF Within

\* Some scope is the innermost.
LEMMA InnermostExists ==
  ASSUME NEW c \in Chains, NEW st \in Stacks, Marks(c, st) # {}
  PROVE  \E s \in Marks(c, st) : \A r \in Marks(c, st) \ {s} : Around(r.at, s.at)
<1> DEFINE M == Marks(c, st)
           I == {s.at[1] : s \in M}
<1>1. /\ Len(c) \in Nat
      /\ \A i \in 1 .. Len(c) : Len(st[c[i]]) \in Nat
      /\ \A s \in M : /\ s.at \in NatPairs /\ s.at[1] \in 1 .. Len(c) /\ s.at[2] \in 1 .. Len(st[c[s.at[1]]])
                      /\ s = Mark(s.at[1], s.at[2], st[c[s.at[1]]][s.at[2]])
  BY MarksAre
<1>2. M # {}
  OBVIOUS
<1> HIDE DEF M
<1>3. I \in SUBSET (1 .. Len(c)) /\ I # {}
  BY <1>1, <1>2
<1>4. \A s \in M : s.at[1] \in I
  OBVIOUS
<1>5. \A i \in I : \E s \in M : i = s.at[1]
  OBVIOUS
<1> HIDE DEF I
<1>6. PICK i \in I : \A k \in I : k <= i
  BY <1>1, <1>3, GreatestExists
<1> DEFINE J == {s.at[2] : s \in {r \in M : r.at[1] = i}}
<1>7. J \in SUBSET (1 .. Len(st[c[i]])) /\ J # {} /\ Len(st[c[i]]) \in Nat
  <2>1. PICK s \in M : i = s.at[1]
    BY <1>5, <1>6
  <2>2. s.at[2] \in J
    BY <2>1
  <2> QED BY <1>1, <1>3, <1>6, <2>2
<1>8. \A s \in M : s.at[1] = i => s.at[2] \in J
  OBVIOUS
<1>9. \A j \in J : \E s \in M : s.at[1] = i /\ j = s.at[2]
  OBVIOUS
<1> HIDE DEF J
<1>10. PICK j \in J : \A k \in J : k <= j
  BY <1>7, GreatestExists
<1>11. PICK s \in M : s.at[1] = i /\ s.at[2] = j
  BY <1>9, <1>10
<1>12. ASSUME NEW r \in M, r # s PROVE Around(r.at, s.at)
  <2>1. r.at[1] # i \/ r.at[2] # j
    BY <1>1, <1>11, <1>12
  <2>2. r.at[1] \in Nat /\ r.at[2] \in Nat /\ i \in Nat /\ j \in Nat
    BY <1>1, <1>11 DEF NatPairs
  <2>3. r.at[1] <= i
    BY <1>4, <1>6
  <2>4. r.at[1] = i => r.at[2] <= j
    BY <1>8, <1>10
  <2> QED BY <1>11, <2>1, <2>2, <2>3, <2>4 DEF Around
<1> QED BY <1>12 DEF M

\* The scopes make one thing only.
LEMMA MadeOnce ==
  ASSUME NEW c \in Chains, NEW st \in Stacks, NEW a, NEW e, NEW x, NEW y, Made(Marks(c, st), a, e), Made(Marks(c, st), x, y)
  PROVE  a = x /\ e = y
<1>1. CASE Marks(c, st) = {}
  BY <1>1 DEF Made
<1>2. CASE Marks(c, st) # {}
  <2>1. PICK s \in Marks(c, st) : \A r \in Marks(c, st) \ {s} : Around(r.at, s.at)
    BY <1>2, InnermostExists
  <2>2. e = y
    BY DEF Made
  <2> QED BY <2>1, <2>2 DEF Made
<1> QED BY <1>1, <1>2

\* The scope of a mark.
LEMMA MarkIs ==
  ASSUME NEW c \in Chains, NEW st \in Stacks, NEW s \in Marks(c, st)
  PROVE  \E i \in 1 .. Len(c) : \E j \in 1 .. Len(st[c[i]]) :
           /\ IsScope(st[c[i]][j]) /\ s = Mark(i, j, st[c[i]][j]) /\ s.at = <<i, j>> /\ s.at \in NatPairs
           /\ s.fn = st[c[i]][j].fn /\ s.keep = st[c[i]][j].keep
<1>1. /\ s.at \in NatPairs /\ s.at[1] \in 1 .. Len(c) /\ s.at[2] \in 1 .. Len(st[c[s.at[1]]])
      /\ LET f == st[c[s.at[1]]][s.at[2]] IN IsScope(f) /\ s = Mark(s.at[1], s.at[2], f)
  BY MarksAre
<1>2. s.at = <<s.at[1], s.at[2]>>
  BY <1>1 DEF NatPairs
<1>3. s.fn = st[c[s.at[1]]][s.at[2]].fn /\ s.keep = st[c[s.at[1]]][s.at[2]].keep
  BY <1>1 DEF Mark
<1> QED BY <1>1, <1>2, <1>3

(***************************************************************************)
(* Stacks su of a chain d that are those st of c as far as what is around  *)
(* a place p goes.                                                         *)
(***************************************************************************)
Carries(c, st, d, su, p) ==
  /\ \A i \in 1 .. Len(d) : \A j \in 1 .. Len(su[d[i]]) :
       Around(<<i, j>>, p) => i \in 1 .. Len(c) /\ j \in 1 .. Len(st[c[i]]) /\ Same(st[c[i]][j], su[d[i]][j])
  /\ \A i \in 1 .. Len(c) : \A j \in 1 .. Len(st[c[i]]) :
       Around(<<i, j>>, p) /\ IsScope(st[c[i]][j]) => i \in 1 .. Len(d) /\ j \in 1 .. Len(su[d[i]])

\* They have the same scopes there.
LEMMA CarriedMarks ==
  ASSUME NEW c \in Chains, NEW st \in Stacks, NEW d \in Chains, NEW su \in Stacks, NEW p \in NatPairs,
         Carries(c, st, d, su, p)
  PROVE  Within(Marks(d, su), p) = Within(Marks(c, st), p)
<1>1. ASSUME NEW s \in Marks(d, su), Around(s.at, p) PROVE s \in Marks(c, st)
  <2>1. PICK i \in 1 .. Len(d) : \E j \in 1 .. Len(su[d[i]]) :
               IsScope(su[d[i]][j]) /\ s = Mark(i, j, su[d[i]][j]) /\ s.at = <<i, j>>
    BY MarkIs
  <2>2. PICK j \in 1 .. Len(su[d[i]]) : IsScope(su[d[i]][j]) /\ s = Mark(i, j, su[d[i]][j]) /\ s.at = <<i, j>>
    BY <2>1
  <2>3. i \in 1 .. Len(c) /\ j \in 1 .. Len(st[c[i]]) /\ Same(st[c[i]][j], su[d[i]][j])
    BY <1>1, <2>2 DEF Carries
  <2>4. IsScope(st[c[i]][j]) /\ s = Mark(i, j, st[c[i]][j])
    BY <2>2, <2>3 DEF Same, IsScope, Mark
  <2> QED BY <2>3, <2>4, MarksAre
<1>2. ASSUME NEW s \in Marks(c, st), Around(s.at, p) PROVE s \in Marks(d, su)
  <2>1. PICK i \in 1 .. Len(c) : \E j \in 1 .. Len(st[c[i]]) :
               IsScope(st[c[i]][j]) /\ s = Mark(i, j, st[c[i]][j]) /\ s.at = <<i, j>>
    BY MarkIs
  <2>2. PICK j \in 1 .. Len(st[c[i]]) : IsScope(st[c[i]][j]) /\ s = Mark(i, j, st[c[i]][j]) /\ s.at = <<i, j>>
    BY <2>1
  <2>3. i \in 1 .. Len(d) /\ j \in 1 .. Len(su[d[i]])
    BY <1>2, <2>2 DEF Carries
  <2>4. Same(st[c[i]][j], su[d[i]][j])
    BY <1>2, <2>2, <2>3 DEF Carries
  <2>5. IsScope(su[d[i]][j]) /\ s = Mark(i, j, su[d[i]][j])
    BY <2>2, <2>4 DEF Same, IsScope, Mark
  <2> QED BY <2>3, <2>5, MarksAre
<1> QED BY <1>1, <1>2 DEF Within

\* What holds of the scopes goes on to do so, if it holds of what is new.
LEMMA CarriedScopes ==
  ASSUME NEW c \in Chains, NEW st \in Stacks, NEW d \in Chains, NEW su \in Stacks, NEW p \in NatPairs,
         Carries(c, st, d, su, p), NEW a, NEW e, ScopesHold(c, st, a, e),
         \A i \in 1 .. Len(d) : \A j \in 1 .. Len(su[d[i]]) : ~Around(<<i, j>>, p) =>
           /\ IsScope(su[d[i]][j]) => Made(Within(Marks(d, su), <<i, j>>), su[d[i]][j].keep[1], su[d[i]][j].keep[2])
           /\ su[d[i]][j].fn = "lua" => Charges(Marks(d, su), <<i, j>>, su[d[i]][j]),
         NEW x, NEW y, Made(Marks(d, su), x, y)
  PROVE  ScopesHold(d, su, x, y)
<1>1. Within(Marks(d, su), p) = Within(Marks(c, st), p)
  BY CarriedMarks
<1>2. /\ \A s \in Marks(d, su) : s.at \in NatPairs
      /\ \A s \in Marks(c, st) : s.at \in NatPairs
  BY MarksAre
<1>3. ASSUME NEW q \in NatPairs, Around(q, p) PROVE Within(Marks(d, su), q) = Within(Marks(c, st), q)
  <2>1. Within(Within(Marks(d, su), p), q) = Within(Marks(d, su), q)
    BY <1>2, <1>3, WithinWithin
  <2>2. Within(Within(Marks(c, st), p), q) = Within(Marks(c, st), q)
    BY <1>2, <1>3, WithinWithin
  <2> QED BY <1>1, <2>1, <2>2
<1>4. ASSUME NEW s \in Marks(d, su) PROVE Made(Within(Marks(d, su), s.at), s.keep[1], s.keep[2])
  <2>1. CASE Around(s.at, p)
    <3>1. s \in Marks(c, st)
      BY <1>1, <2>1 DEF Within
    <3> QED BY <1>2, <1>3, <2>1, <3>1 DEF ScopesHold
  <2>2. CASE ~Around(s.at, p)
    <3>1. PICK i \in 1 .. Len(d) : \E j \in 1 .. Len(su[d[i]]) :
               IsScope(su[d[i]][j]) /\ s.at = <<i, j>> /\ s.keep = su[d[i]][j].keep
      BY MarkIs
    <3>2. PICK j \in 1 .. Len(su[d[i]]) : IsScope(su[d[i]][j]) /\ s.at = <<i, j>> /\ s.keep = su[d[i]][j].keep
      BY <3>1
    <3> QED BY <2>2, <3>2
  <2> QED BY <2>1, <2>2
<1>5. /\ DOMAIN d = 1 .. Len(d) /\ DOMAIN c = 1 .. Len(c) /\ Len(d) \in Nat
      /\ \A i \in 1 .. Len(d) : DOMAIN su[d[i]] = 1 .. Len(su[d[i]]) /\ Len(su[d[i]]) \in Nat
      /\ \A i \in 1 .. Len(c) : DOMAIN st[c[i]] = 1 .. Len(st[c[i]])
  BY MarksAre
<1>6. ASSUME NEW i \in DOMAIN d, NEW j \in DOMAIN su[d[i]], su[d[i]][j].fn = "lua"
      PROVE  Charges(Marks(d, su), <<i, j>>, su[d[i]][j])
  <2>1. i \in 1 .. Len(d) /\ j \in 1 .. Len(su[d[i]]) /\ <<i, j>> \in NatPairs
    <3>1. i \in 1 .. Len(d) /\ j \in 1 .. Len(su[d[i]])
      BY <1>5
    <3>2. i \in Nat /\ j \in Nat
      BY <1>5, <3>1
    <3> QED BY <3>1, <3>2 DEF NatPairs
  <2>2. CASE Around(<<i, j>>, p)
    <3>1. i \in 1 .. Len(c) /\ j \in 1 .. Len(st[c[i]]) /\ Same(st[c[i]][j], su[d[i]][j])
      BY <2>1, <2>2 DEF Carries
    <3>2. st[c[i]][j].fn = "lua" /\ st[c[i]][j].metered = su[d[i]][j].metered
      BY <1>6, <3>1 DEF Same
    <3>3. Charges(Marks(c, st), <<i, j>>, st[c[i]][j])
      BY <1>5, <3>1, <3>2 DEF ScopesHold
    <3>4. Within(Marks(d, su), <<i, j>>) = Within(Marks(c, st), <<i, j>>)
      BY <1>3, <2>1, <2>2
    <3> QED BY <3>2, <3>3, <3>4 DEF Charges
  <2>3. CASE ~Around(<<i, j>>, p)
    BY <1>6, <2>1, <2>3
  <2> QED BY <2>2, <2>3
<1> QED BY <1>4, <1>6 DEF ScopesHold

\* What is around a place of the last stack.
LEMMA PlaceAround ==
  ASSUME NEW n \in Nat, NEW j \in Nat, NEW k \in Nat
  PROVE  /\ \A i \in 1 .. n : Around(<<i, j>>, <<n, k>>) <=> (i # n \/ j < k)
         /\ ~Around(<<n + 1, j>>, <<n, k>>)
         /\ <<n, k>> \in NatPairs
BY DEF Around, NatPairs

\* The chain and its stacks.
LEMMA PlacesAre ==
  ASSUME Standing
  PROVE  /\ chain \in Chains /\ stack \in Stacks /\ Len(chain) \in Nat /\ Len(chain) >= 1 /\ Len(chain) \in 1 .. Len(chain)
         /\ frames = stack[chain[Len(chain)]] /\ ci = Len(frames) /\ ci \in Nat
         /\ \A i \in 1 .. Len(chain) : chain[i] \in Threads /\ (chain[i] = current <=> i = Len(chain))
         /\ \A i \in 1 .. Len(chain) : stack[chain[i]] \in Stack /\ Len(stack[chain[i]]) \in Nat
<1>1. /\ Len(chain) \in Nat /\ Len(chain) >= 1 /\ current = chain[Len(chain)]
      /\ \A i \in 1 .. Len(chain) : chain[i] \in Threads /\ (chain[i] = current <=> i = Len(chain))
      /\ \A t \in Threads : stack[t] \in Stack
  BY NowIs
<1>2. chain \in Chains /\ stack \in Stacks
  BY DEF Standing, StacksOK, Chains, Stacks, Stack
<1>3. ci = Len(frames) /\ ci \in Nat
  BY FramesAre
<1>4. frames = stack[chain[Len(chain)]]
  BY <1>1 DEF frames
<1>5. ASSUME NEW i \in 1 .. Len(chain) PROVE stack[chain[i]] \in Stack /\ Len(stack[chain[i]]) \in Nat
  <2>1. stack[chain[i]] \in Stack
    BY <1>1
  <2> QED BY <2>1, SequenceIs DEF Stack
<1>6. Len(chain) \in 1 .. Len(chain)
  BY <1>1
<1> QED BY <1>1, <1>2, <1>3, <1>4, <1>5, <1>6

\* What is restored when the frames above m end is what the scopes make that are left.
LEMMA Unwinding ==
  ASSUME Core, ScopesStand, NEW m \in 0 .. ci
  PROVE  Made(Within(Marks(chain, stack), <<Len(chain), m + 1>>), ScopesUnwound(frames, m)[1], ScopesUnwound(frames, m)[2])
<1> DEFINE n == Len(chain)
           M == Marks(chain, stack)
           k == ScopesUnwound(frames, m)
<1>1. /\ chain \in Chains /\ stack \in Stacks /\ n \in Nat /\ n \in 1 .. n
      /\ frames = stack[chain[n]] /\ ci = Len(frames) /\ ci \in Nat
  BY PlacesAre DEF Core
<1>2. m \in Nat /\ m + 1 \in Nat /\ \A j \in 1 .. ci : j < m + 1 <=> j \notin m + 1 .. ci
  BY <1>1
<1>3. ASSUME NEW s \in M
      PROVE  \E i \in 1 .. n : \E j \in Nat : s.at = <<i, j>> /\ (i = n => j \in 1 .. ci /\ IsScope(frames[j]))
  <2>1. PICK i \in 1 .. n : \E j \in 1 .. Len(stack[chain[i]]) : IsScope(stack[chain[i]][j]) /\ s.at = <<i, j>>
    BY <1>1, MarkIs
  <2>2. PICK j \in 1 .. Len(stack[chain[i]]) : IsScope(stack[chain[i]][j]) /\ s.at = <<i, j>>
    BY <2>1
  <2>3. j \in Nat
    BY <1>1, MarksAre
  <2> QED BY <1>1, <2>2, <2>3
<1>4. \A i \in 1 .. n : \A j \in Nat : Around(<<i, j>>, <<n, m + 1>>) <=> (i # n \/ j < m + 1)
  BY <1>1, <1>2, PlaceAround
<1>5. ScopesHold(chain, stack, active, exempt)
  BY DEF ScopesStand
<1>6. CASE k = <<active, exempt>> /\ \A j \in m + 1 .. ci : ~IsScope(frames[j])
  <2>1. ASSUME NEW s \in M PROVE Around(s.at, <<n, m + 1>>)
    BY <1>2, <1>3, <1>4, <1>6
  <2>2. Within(M, <<n, m + 1>>) = M
    BY <2>1 DEF Within
  <2>3. k[1] = active /\ k[2] = exempt
    BY <1>6
  <2> QED BY <1>5, <2>2, <2>3 DEF ScopesHold
<1>7. ASSUME NEW l \in m + 1 .. ci, IsScope(frames[l]), k = frames[l].keep, \A j \in m + 1 .. ci : IsScope(frames[j]) => l <= j
      PROVE  Made(Within(M, <<n, m + 1>>), k[1], k[2])
  <2> DEFINE s == Mark(n, l, frames[l])
  <2>1. l \in 1 .. ci /\ l \in Nat
    BY <1>1
  <2>2. s \in M /\ s.at = <<n, l>> /\ s.keep = k
    BY <1>1, <1>7, <2>1, MarksAre DEF Mark
  <2>3. Made(Within(M, <<n, l>>), k[1], k[2])
    BY <1>5, <2>2 DEF ScopesHold
  <2>4. \A i \in 1 .. n : \A j \in Nat : Around(<<i, j>>, <<n, l>>) <=> (i # n \/ j < l)
    BY <1>1, <2>1, PlaceAround
  <2>5. \A j \in 1 .. ci : IsScope(frames[j]) => (j < l <=> j < m + 1)
    BY <1>1, <1>2, <1>7
  <2>6. ASSUME NEW r \in M PROVE Around(r.at, <<n, l>>) <=> Around(r.at, <<n, m + 1>>)
    BY <1>3, <1>4, <2>4, <2>5
  <2>7. Within(M, <<n, l>>) = Within(M, <<n, m + 1>>)
    BY <2>6 DEF Within
  <2> QED BY <2>3, <2>7
<1>8. \/ k = <<active, exempt>> /\ \A j \in m + 1 .. ci : ~IsScope(frames[j])
      \/ \E l \in m + 1 .. ci : /\ IsScope(frames[l]) /\ k = frames[l].keep
                                /\ \A j \in m + 1 .. ci : IsScope(frames[j]) => l <= j
  BY UnwoundIs
<1> QED BY <1>6, <1>7, <1>8

\* Frames end.
LEMMA CutScopes ==
  ASSUME Core, ScopesStand, Standing', CutStep
  PROVE  ScopesStand'
<1> DEFINE n == Len(chain)
           G == stack'[current]
<1>1. PICK m \in 0 .. ci : Kept(frames, G, m) /\ Scoped(ScopesUnwound(frames, m))
  BY DEF CutStep
<1>2. chain' = chain /\ OthersStay
  BY DEF CutStep, SameThreads
<1>3. /\ chain \in Chains /\ stack \in Stacks /\ n \in Nat /\ n \in 1 .. n
      /\ frames = stack[chain[n]] /\ ci = Len(frames) /\ ci \in Nat
      /\ \A i \in 1 .. n : chain[i] \in Threads /\ (chain[i] = current <=> i = n)
      /\ \A i \in 1 .. n : Len(stack[chain[i]]) \in Nat
  BY PlacesAre DEF Core
<1>4. stack' \in Stacks
  BY DEF Standing, StacksOK, Stacks, Stack
<1>5. m \in Nat /\ m + 1 \in Nat /\ m <= ci /\ Len(G) = m /\ (\A j \in 1 .. m : j \in 1 .. ci /\ j \in Nat /\ j < m + 1)
      /\ \A j \in 1 .. ci : j < m + 1 => j \in 1 .. m
  BY <1>1, <1>3 DEF Kept
<1>6. stack'[chain[n]] = G /\ \A i \in 1 .. n : i # n => stack'[chain[i]] = stack[chain[i]]
  BY <1>2, <1>3 DEF OthersStay
<1> DEFINE p == <<n, m + 1>>
<1>7. p \in NatPairs /\ \A j \in Nat : \A i \in 1 .. n : Around(<<i, j>>, p) <=> (i # n \/ j < m + 1)
  BY <1>3, <1>5, PlaceAround
<1> HIDE DEF n, G, p
<1>8. ASSUME NEW i \in 1 .. n, NEW j \in 1 .. Len(stack'[chain[i]])
      PROVE  Around(<<i, j>>, p) /\ j \in 1 .. Len(stack[chain[i]]) /\ Same(stack[chain[i]][j], stack'[chain[i]][j])
  <2>1. CASE i = n
    BY <1>1, <1>3, <1>5, <1>6, <1>7, <2>1 DEF Kept
  <2>2. CASE i # n
    BY <1>3, <1>6, <1>7, <2>2 DEF Same
  <2> QED BY <2>1, <2>2
<1>9. ASSUME NEW i \in 1 .. n, NEW j \in 1 .. Len(stack[chain[i]]), Around(<<i, j>>, p)
      PROVE  j \in 1 .. Len(stack'[chain[i]])
  <2>1. j \in Nat
    BY <1>3
  <2>2. CASE i = n
    BY <1>3, <1>5, <1>6, <1>7, <1>9, <2>1, <2>2
  <2>3. CASE i # n
    BY <1>6, <2>3
  <2> QED BY <2>2, <2>3
<1>10. Carries(chain, stack, chain, stack', p)
  BY <1>8, <1>9 DEF Carries, n
<1>11. Within(Marks(chain, stack'), p) = Within(Marks(chain, stack), p)
  BY <1>3, <1>4, <1>7, <1>10, CarriedMarks
<1>12. ASSUME NEW s \in Marks(chain, stack') PROVE Around(s.at, p)
  <2>1. PICK i \in 1 .. n : \E j \in 1 .. Len(stack'[chain[i]]) : s.at = <<i, j>>
    BY <1>3, <1>4, MarkIs DEF n
  <2> QED BY <1>8, <2>1
<1>13. Within(Marks(chain, stack'), p) = Marks(chain, stack')
  BY <1>12 DEF Within
<1>14. Made(Within(Marks(chain, stack), p), ScopesUnwound(frames, m)[1], ScopesUnwound(frames, m)[2])
  BY Unwinding DEF n, p
<1>15. Made(Marks(chain, stack'), active', exempt')
  BY <1>1, <1>11, <1>13, <1>14 DEF Scoped
<1>16. ScopesHold(chain, stack, active, exempt)
  BY DEF ScopesStand
<1>17. ScopesHold(chain, stack', active', exempt')
  BY <1>3, <1>4, <1>7, <1>8, <1>10, <1>15, <1>16, CarriedScopes DEF n
<1> QED BY <1>2, <1>17 DEF ScopesStand

\* All scopes are around the Lua function that runs.
LEMMA TopCharged ==
  ASSUME Core, ScopesStand, IsLua
  PROVE  /\ Charges(Marks(chain, stack), <<Len(chain), ci>>, frames[ci])
         /\ Within(Marks(chain, stack), <<Len(chain), ci>>) = Marks(chain, stack)
<1> DEFINE n == Len(chain)
           M == Marks(chain, stack)
<1>1. /\ chain \in Chains /\ stack \in Stacks /\ n \in Nat /\ n \in 1 .. n
      /\ frames = stack[chain[n]] /\ ci = Len(frames) /\ ci \in Nat
  BY PlacesAre DEF Core
<1>2. ci \in 1 .. ci /\ frames[ci].fn = "lua"
  BY <1>1 DEF IsLua
<1> HIDE DEF n
<1>3. Charges(M, <<n, ci>>, frames[ci])
  <2>1. DOMAIN chain = 1 .. n /\ DOMAIN frames = 1 .. ci
    BY <1>1, MarksAre DEF n
  <2>2. ScopesHold(chain, stack, active, exempt)
    BY DEF ScopesStand
  <2> QED BY <1>1, <1>2, <2>1, <2>2 DEF ScopesHold
<1>4. ASSUME NEW s \in M PROVE Around(s.at, <<n, ci>>)
  <2>1. PICK i \in 1 .. n : \E j \in 1 .. Len(stack[chain[i]]) : IsScope(stack[chain[i]][j]) /\ s.at = <<i, j>>
    BY <1>1, MarkIs DEF n
  <2>2. PICK j \in 1 .. Len(stack[chain[i]]) : IsScope(stack[chain[i]][j]) /\ s.at = <<i, j>>
    BY <2>1
  <2>3. j \in Nat
    BY <1>1, MarksAre DEF n
  <2>4. i = n => j # ci /\ j \in 1 .. ci
    BY <1>1, <1>2, <2>2 DEF IsScope
  <2>5. i = n => j < ci
    BY <1>1, <2>3, <2>4
  <2>6. Around(<<i, j>>, <<n, ci>>)
    BY <1>1, <2>3, <2>5, PlaceAround
  <2> QED BY <2>2, <2>6
<1>5. Within(M, <<n, ci>>) = M
  BY <1>4 DEF Within
<1> QED BY <1>3, <1>5 DEF n

\* One scope more, inside all others.
LEMMA OneScopeMore ==
  ASSUME NEW M, NEW a, NEW e \in BOOLEAN, Made(M, a, e),
         NEW m, m.at \in NatPairs, \A s \in M : s.at \in NatPairs /\ Around(s.at, m.at),
         NEW x, NEW y, \/ m.fn = "owner" /\ y = e /\ x = IF e THEN None ELSE m.keep[3]
                       \/ m.fn = "exempt" /\ y = TRUE /\ x = None
  PROVE  Made(M \cup {m}, x, y)
<1>1. y = \E s \in M \cup {m} : s.fn = "exempt"
  <2>1. e = \E s \in M : s.fn = "exempt"
    BY DEF Made
  <2>2. CASE m.fn = "owner" /\ y = e
    <3>1. m.fn # "exempt"
      BY <2>2
    <3> QED BY <2>1, <2>2, <3>1
  <2>3. CASE m.fn = "exempt" /\ y = TRUE
    BY <2>3
  <2> QED BY <2>2, <2>3
<1>2. ASSUME NEW s \in M \cup {m}, \A r \in (M \cup {m}) \ {s} : Around(r.at, s.at)
      PROVE  x = IF y THEN None ELSE s.keep[3]
  <2>1. CASE s = m
    BY <2>1
  <2>2. CASE s # m
    <3>1. Around(m.at, s.at) /\ Around(s.at, m.at) /\ s.at \in NatPairs
      BY <1>2, <2>2
    <3> QED BY <3>1, AroundIs
  <2> QED BY <2>1, <2>2
<1> QED BY <1>1, <1>2 DEF Made

\* What stays when a frame is pushed; the chain may get longer.
LEMMA PushCarries ==
  ASSUME Core, Standing', NEW d \in Chains, NEW f \in Frames, Grown(frames, stack'[current], f),
         \A i \in 1 .. Len(chain) : i # Len(chain) => stack'[chain[i]] = stack[chain[i]],
         Len(d) = Len(chain) \/ Len(d) = Len(chain) + 1, \A i \in 1 .. Len(chain) : d[i] = chain[i]
  PROVE  /\ Carries(chain, stack, d, stack', <<Len(chain), ci + 1>>)
         /\ <<Len(chain), ci + 1>> \in NatPairs
         /\ \A s \in Marks(chain, stack) : Around(s.at, <<Len(chain), ci + 1>>)
         /\ Within(Marks(d, stack'), <<Len(chain), ci + 1>>) = Marks(chain, stack)
         /\ \A i \in 1 .. Len(chain) : \A j \in 1 .. Len(stack'[chain[i]]) :
              ~Around(<<i, j>>, <<Len(chain), ci + 1>>) => i = Len(chain) /\ j = ci + 1
<1> DEFINE n == Len(chain)
           G == stack'[current]
           p == <<n, ci + 1>>
<1>1. /\ chain \in Chains /\ stack \in Stacks /\ n \in Nat /\ n \in 1 .. n
      /\ frames = stack[chain[n]] /\ ci = Len(frames) /\ ci \in Nat
      /\ \A i \in 1 .. n : chain[i] \in Threads /\ (chain[i] = current <=> i = n)
      /\ \A i \in 1 .. n : Len(stack[chain[i]]) \in Nat
  BY PlacesAre DEF Core
<1>2. stack' \in Stacks
  BY DEF Standing, StacksOK, Stacks, Stack
<1>3. /\ Len(G) = ci + 1 /\ ci + 1 \in Nat
      /\ \A j \in 1 .. ci : j \in Nat /\ j < ci + 1 /\ j \in 1 .. ci + 1 /\ Same(frames[j], G[j])
      /\ \A j \in 1 .. ci + 1 : j \in Nat /\ (j \in 1 .. ci \/ j = ci + 1) /\ (j < ci + 1 => j \in 1 .. ci)
  BY <1>1 DEF Grown
<1>4. stack'[chain[n]] = G /\ \A i \in 1 .. n : i # n => stack'[chain[i]] = stack[chain[i]]
  BY <1>1
<1>5. /\ p \in NatPairs /\ \A j \in Nat : \A i \in 1 .. n : Around(<<i, j>>, p) <=> (i # n \/ j < ci + 1)
      /\ \A j \in Nat : ~Around(<<n + 1, j>>, p)
  BY <1>1, <1>3, PlaceAround
<1> HIDE DEF G, p
<1>6. ASSUME NEW i \in 1 .. n, NEW j \in 1 .. Len(stack'[chain[i]])
      PROVE  /\ Around(<<i, j>>, p) => j \in 1 .. Len(stack[chain[i]]) /\ Same(stack[chain[i]][j], stack'[chain[i]][j])
             /\ ~Around(<<i, j>>, p) => i = n /\ j = ci + 1
  <2>1. CASE i = n
    BY <1>1, <1>3, <1>4, <1>5, <2>1
  <2>2. CASE i # n
    BY <1>1, <1>4, <1>5, <2>2 DEF Same
  <2> QED BY <2>1, <2>2
<1>7. ASSUME NEW i \in 1 .. n, NEW j \in 1 .. Len(stack[chain[i]])
      PROVE  Around(<<i, j>>, p) /\ j \in 1 .. Len(stack'[chain[i]])
  <2>1. j \in Nat
    BY <1>1
  <2>2. CASE i = n
    BY <1>1, <1>3, <1>4, <1>5, <2>2
  <2>3. CASE i # n
    BY <1>4, <1>5, <2>1, <2>3
  <2> QED BY <2>2, <2>3
<1>8. \A i \in 1 .. n : i \in 1 .. Len(d) /\ d[i] = chain[i]
  BY <1>1
<1>9. ASSUME NEW i \in 1 .. Len(d), NEW j \in 1 .. Len(stack'[d[i]]), Around(<<i, j>>, p)
      PROVE  i \in 1 .. n /\ j \in 1 .. Len(stack[chain[i]]) /\ Same(stack[chain[i]][j], stack'[d[i]][j])
  <2>1. i \in 1 .. n \/ i = n + 1
    BY <1>1
  <2>2. j \in Nat
    BY <1>2, MarksAre
  <2>3. i \in 1 .. n
    BY <1>5, <1>9, <2>1, <2>2
  <2> QED BY <1>6, <1>8, <1>9, <2>3
<1>10. Carries(chain, stack, d, stack', p)
  BY <1>7, <1>8, <1>9 DEF Carries, n
<1>11. ASSUME NEW s \in Marks(chain, stack) PROVE Around(s.at, p)
  <2>1. PICK i \in 1 .. n : \E j \in 1 .. Len(stack[chain[i]]) : s.at = <<i, j>>
    BY <1>1, MarkIs DEF n
  <2> QED BY <1>7, <2>1
<1>12. Within(Marks(chain, stack), p) = Marks(chain, stack)
  BY <1>11 DEF Within
<1>13. Within(Marks(d, stack'), p) = Marks(chain, stack)
  BY <1>1, <1>2, <1>5, <1>10, <1>12, CarriedMarks
<1> QED BY <1>5, <1>6, <1>10, <1>11, <1>13 DEF p, n

\* A frame is pushed.
LEMMA PushScopes ==
  ASSUME Core, ScopesStand, Standing', PushStep
  PROVE  ScopesStand'
<1> DEFINE n == Len(chain)
           p == <<n, ci + 1>>
           M == Marks(chain, stack)
           N == Marks(chain, stack')
<1>1. PICK f \in Frames :
       /\ Grown(frames, stack'[current], f)
       /\ f.fn = "lua" => f.metered = IF IsLua THEN frames[ci].metered ELSE active # None
       /\ IsScope(f) => \E o \in Owned : f.keep = <<active, exempt, o>>
       /\ f.fn = "owner" => active' = (IF exempt THEN None ELSE f.keep[3]) /\ exempt' = exempt
       /\ f.fn = "exempt" => active' = None /\ exempt' = TRUE
       /\ ~IsScope(f) => active' = active /\ exempt' = exempt
  BY DEF PushStep
<1>2. chain' = chain /\ OthersStay
  BY DEF PushStep, SameThreads
<1>3. /\ chain \in Chains /\ stack \in Stacks /\ n \in Nat /\ n \in 1 .. n
      /\ frames = stack[chain[n]] /\ ci = Len(frames) /\ ci \in Nat
      /\ \A i \in 1 .. n : chain[i] \in Threads /\ (chain[i] = current <=> i = n)
  BY PlacesAre DEF Core
<1>4. stack' \in Stacks
  BY DEF Standing, StacksOK, Stacks, Stack
<1>5. /\ Carries(chain, stack, chain, stack', p) /\ p \in NatPairs
      /\ \A s \in M : Around(s.at, p)
      /\ Within(N, p) = M
      /\ \A i \in 1 .. n : \A j \in 1 .. Len(stack'[chain[i]]) : ~Around(<<i, j>>, p) => i = n /\ j = ci + 1
  <2>1. \A i \in 1 .. n : i # n => stack'[chain[i]] = stack[chain[i]]
    BY <1>2, <1>3 DEF OthersStay
  <2> QED BY <1>1, <1>3, <2>1, PushCarries
<1> DEFINE g == stack'[chain[n]][ci + 1]
<1>6. Same(f, g) /\ ci + 1 \in 1 .. Len(stack'[chain[n]])
  BY <1>1, <1>3 DEF Grown
<1>7. ScopesHold(chain, stack, active, exempt) /\ active \in Owned /\ exempt \in BOOLEAN
  BY DEF ScopesStand, Core, AccountsOK
<1>8. Made(M, active, exempt)
  BY <1>7 DEF ScopesHold
<1>9. g.fn = f.fn /\ g.metered = f.metered /\ (IsScope(g) <=> IsScope(f)) /\ (IsScope(f) => g.keep = f.keep)
  BY <1>6 DEF Same, IsScope
<1>10. \A s \in M : s.at \in NatPairs
  BY <1>3, MarksAre
<1>11. \A s \in N : s \in M \/ (IsScope(g) /\ s = Mark(n, ci + 1, g))
  <2> SUFFICES ASSUME NEW s \in N PROVE s \in M \/ (IsScope(g) /\ s = Mark(n, ci + 1, g))
    OBVIOUS
  <2>1. PICK i \in 1 .. n : \E j \in 1 .. Len(stack'[chain[i]]) :
               IsScope(stack'[chain[i]][j]) /\ s = Mark(i, j, stack'[chain[i]][j]) /\ s.at = <<i, j>>
    BY <1>3, <1>4, MarkIs
  <2>2. PICK j \in 1 .. Len(stack'[chain[i]]) :
               IsScope(stack'[chain[i]][j]) /\ s = Mark(i, j, stack'[chain[i]][j]) /\ s.at = <<i, j>>
    BY <2>1
  <2>3. CASE Around(<<i, j>>, p)
    BY <1>5, <2>2, <2>3 DEF Within
  <2>4. CASE ~Around(<<i, j>>, p)
    BY <1>5, <2>2, <2>4
  <2> QED BY <2>3, <2>4
<1>12. \A s \in M : s \in N
  BY <1>5 DEF Within
<1>13. IsScope(g) => Mark(n, ci + 1, g) \in N
  BY <1>3, <1>4, <1>6, MarksAre
<1> HIDE DEF p, M, N, n, g
<1>14. Made(N, active', exempt')
  <2>1. CASE ~IsScope(f)
    <3>1. N = M
      BY <1>9, <1>11, <1>12, <2>1
    <3> QED BY <1>1, <1>8, <2>1, <3>1
  <2>2. CASE IsScope(f)
    <3> DEFINE m == Mark(n, ci + 1, g)
    <3>1. m.at = p /\ m.fn = f.fn /\ m.keep = f.keep
      BY <1>9, <2>2 DEF Mark, p
    <3>2. N = M \cup {m}
      BY <1>9, <1>11, <1>12, <1>13, <2>2
    <3> HIDE DEF m
    <3>3. \/ m.fn = "owner" /\ exempt' = exempt /\ active' = IF exempt THEN None ELSE m.keep[3]
          \/ m.fn = "exempt" /\ exempt' = TRUE /\ active' = None
      BY <1>1, <2>2, <3>1 DEF IsScope
    <3>4. m.at \in NatPairs /\ \A s \in M : s.at \in NatPairs /\ Around(s.at, m.at)
      BY <1>5, <1>10, <3>1
    <3>5. Made(M \cup {m}, active', exempt')
      BY <1>7, <1>8, <3>3, <3>4, OneScopeMore
    <3> QED BY <3>2, <3>5
  <2> QED BY <2>1, <2>2
<1>15. IsScope(g) => Made(Within(N, p), g.keep[1], g.keep[2])
  <2> SUFFICES ASSUME IsScope(g) PROVE Made(Within(N, p), g.keep[1], g.keep[2])
    OBVIOUS
  <2>1. PICK o \in Owned : g.keep = <<active, exempt, o>>
    BY <1>1, <1>9
  <2>2. g.keep[1] = active /\ g.keep[2] = exempt
    BY <2>1
  <2> QED BY <1>5, <1>8, <2>2
<1>16. g.fn = "lua" => Charges(N, p, g)
  <2> SUFFICES ASSUME g.fn = "lua" PROVE Charges(N, p, g)
    OBVIOUS
  <2>1. g.metered = IF IsLua THEN frames[ci].metered ELSE active # None
    BY <1>1, <1>9
  <2>2. CASE ~IsLua
    BY <1>5, <1>7, <1>8, <2>1, <2>2 DEF Charges
  <2>3. CASE IsLua
    <3>1. Charges(M, <<n, ci>>, frames[ci]) /\ Within(M, <<n, ci>>) = M
      BY <2>3, TopCharged DEF M, n
    <3> QED BY <1>5, <2>1, <2>3, <3>1 DEF Charges
  <2> QED BY <2>2, <2>3
<1>17. ASSUME NEW i \in 1 .. n, NEW j \in 1 .. Len(stack'[chain[i]]), ~Around(<<i, j>>, p)
       PROVE  /\ IsScope(stack'[chain[i]][j]) =>
                   Made(Within(N, <<i, j>>), stack'[chain[i]][j].keep[1], stack'[chain[i]][j].keep[2])
              /\ stack'[chain[i]][j].fn = "lua" => Charges(N, <<i, j>>, stack'[chain[i]][j])
  <2>1. <<i, j>> = p /\ stack'[chain[i]][j] = g
    BY <1>5, <1>17 DEF p, g
  <2> QED BY <1>15, <1>16, <2>1
<1>18. ScopesHold(chain, stack', active', exempt')
  BY <1>3, <1>4, <1>5, <1>7, <1>14, <1>17, CarriedScopes DEF n, N
<1> QED BY <1>2, <1>18 DEF ScopesStand

\* A coroutine ends, or yields.
LEMMA BackScopes ==
  ASSUME Main \notin Coroutines, Core, ScopesStand, Standing', BackStep, BackSwitch
  PROVE  ScopesStand'
<1> DEFINE n == Len(chain)
           r == chain[n - 1]
           F == stack[r]
           p == <<n, 1>>
           k == ScopesUnwound(frames, 0)
<1>1. /\ stack'[r] = Front(F) /\ \A t \in Threads : t # current /\ t # r => stack'[t] = stack[t]
      /\ Len(chain') = n - 1 /\ \A i \in 1 .. n - 1 : chain'[i] = chain[i]
  BY DEF BackSwitch
<1>2. active' = k[1] /\ exempt' = k[2]
  BY DEF BackStep, Scoped
<1>3. /\ chain \in Chains /\ stack \in Stacks /\ n \in Nat
      /\ \A i \in 1 .. n : chain[i] \in Threads /\ (chain[i] = current <=> i = n)
      /\ \A i \in 1 .. n : stack[chain[i]] \in Stack /\ Len(stack[chain[i]]) \in Nat
      /\ 0 \in 0 .. ci
  BY PlacesAre DEF Core
<1>4. chain' \in Chains /\ stack' \in Stacks
  BY DEF Standing, StacksOK, Chains, Stacks, Stack
<1>5. n >= 2 /\ n - 1 \in 1 .. n /\ r \in Threads /\ F \in Stack /\ F # <<>> /\ F[Len(F)].fn = "resume"
  BY ResumerIs DEF Core, BackStep
<1>6. \A i \in 1 .. n : chain[i] = r => i = n - 1
  <2>1. \A i, j \in DOMAIN chain : chain[i] = chain[j] => i = j
    BY DEF Core, Standing, Linked
  <2>2. DOMAIN chain = 1 .. n
    BY <1>3, MarksAre
  <2> QED BY <1>5, <2>1, <2>2
<1>7. Len(Front(F)) = Len(F) - 1 /\ \A j \in 1 .. Len(F) - 1 : Front(F)[j] = F[j]
  BY <1>5, FrontIs DEF Stack
<1>8. Len(F) \in Nat /\ ~IsScope(F[Len(F)]) /\ (\A j \in 1 .. Len(F) - 1 : j \in 1 .. Len(F))
      /\ \A j \in 1 .. Len(F) : j # Len(F) => j \in 1 .. Len(F) - 1
  <2>1. Len(F) \in Nat
    BY <1>3, <1>5
  <2>2. ~IsScope(F[Len(F)])
    BY <1>5 DEF IsScope
  <2> HIDE DEF F
  <2> QED BY <2>1, <2>2
<1>9. p \in NatPairs /\ \A j \in Nat : \A i \in 1 .. n : Around(<<i, j>>, p) <=> (i # n \/ j < 1)
  BY <1>3, PlaceAround
<1>10. \A i \in 1 .. n - 1 : i \in 1 .. n /\ i # n
  BY <1>3, <1>5
<1>11. \A i \in 1 .. n - 1 : i # n - 1 => stack'[chain[i]] = stack[chain[i]]
  BY <1>1, <1>3, <1>6, <1>10
<1>12. Made(Within(Marks(chain, stack), p), active', exempt')
  <2>1. Made(Within(Marks(chain, stack), <<Len(chain), 0 + 1>>), k[1], k[2])
    BY <1>3, Unwinding
  <2> QED BY <1>2, <2>1
<1> HIDE DEF F, k
<1>13. ASSUME NEW i \in 1 .. n - 1, NEW j \in 1 .. Len(stack'[chain[i]])
       PROVE  Around(<<i, j>>, p) /\ j \in 1 .. Len(stack[chain[i]]) /\ Same(stack[chain[i]][j], stack'[chain[i]][j])
  <2>1. CASE i = n - 1
    <3>1. chain[i] = r
      BY <2>1
    <3>2. j \in 1 .. Len(F) - 1
      BY <1>1, <1>7, <3>1
    <3>3. j \in Nat
      BY <3>2
    <3>4. j \in 1 .. Len(F) /\ stack'[chain[i]][j] = F[j]
      BY <1>1, <1>7, <1>8, <3>1, <3>2
    <3> QED BY <1>9, <1>10, <3>1, <3>3, <3>4 DEF Same, F
  <2>2. CASE i # n - 1
    <3>1. stack'[chain[i]] = stack[chain[i]]
      BY <1>11, <2>2
    <3>2. j \in Nat
      BY <1>3, <1>10, <3>1
    <3> QED BY <1>9, <1>10, <3>1, <3>2 DEF Same
  <2> QED BY <2>1, <2>2
<1>14. ASSUME NEW i \in 1 .. n, NEW j \in 1 .. Len(stack[chain[i]]), Around(<<i, j>>, p), IsScope(stack[chain[i]][j])
       PROVE  i \in 1 .. n - 1 /\ j \in 1 .. Len(stack'[chain[i]])
  <2>1. j \in Nat /\ j > 0
    BY <1>3
  <2>2. i # n
    BY <1>9, <1>14, <2>1
  <2>3. i \in 1 .. n - 1
    BY <1>3, <2>2
  <2>4. CASE i = n - 1
    <3>1. chain[i] = r
      BY <2>4
    <3>2. j \in 1 .. Len(F) /\ IsScope(F[j])
      BY <1>14, <3>1 DEF F
    <3>3. j \in 1 .. Len(F) - 1
      BY <1>8, <3>2
    <3> QED BY <1>1, <1>7, <2>3, <3>1, <3>3
  <2>5. CASE i # n - 1
    BY <1>11, <2>3, <2>5
  <2> QED BY <2>4, <2>5
<1> HIDE DEF p, r
<1>15. /\ \A i \in 1 .. Len(chain') : i \in 1 .. n - 1 /\ chain'[i] = chain[i]
       /\ \A i \in 1 .. n - 1 : i \in 1 .. Len(chain') /\ chain'[i] = chain[i]
  BY <1>1
<1>16. Carries(chain, stack, chain', stack', p)
  BY <1>10, <1>13, <1>14, <1>15 DEF Carries
<1>17. Within(Marks(chain', stack'), p) = Within(Marks(chain, stack), p)
  BY <1>3, <1>4, <1>9, <1>16, CarriedMarks
<1>18. ASSUME NEW s \in Marks(chain', stack') PROVE Around(s.at, p)
  <2>1. PICK i \in 1 .. Len(chain') : \E j \in 1 .. Len(stack'[chain'[i]]) : s.at = <<i, j>>
    BY <1>4, MarkIs
  <2> QED BY <1>13, <1>15, <2>1
<1>19. Within(Marks(chain', stack'), p) = Marks(chain', stack')
  BY <1>18 DEF Within
<1>20. Made(Marks(chain', stack'), active', exempt')
  BY <1>12, <1>17, <1>19
<1>21. ScopesHold(chain, stack, active, exempt)
  BY DEF ScopesStand
<1>22. \A i \in 1 .. Len(chain') : \A j \in 1 .. Len(stack'[chain'[i]]) : Around(<<i, j>>, p)
  BY <1>13, <1>15
<1>23. ScopesHold(chain', stack', active', exempt')
  BY <1>3, <1>4, <1>9, <1>16, <1>20, <1>21, <1>22, CarriedScopes
<1> QED BY <1>23 DEF ScopesStand

\* A coroutine is resumed, and metered as is said now.
LEMMA ResumeScopes ==
  ASSUME Main \notin Coroutines, Core, ScopesStand, Standing', ResumeStep
  PROVE  ScopesStand'
<1>1. PICK co \in Coroutines, t \in Taints : Resume(co, t)
  BY DEF ResumeStep
<1> DEFINE n == Len(chain)
           p == <<n, ci + 1>>
           M == Marks(chain, stack)
           N == Marks(chain', stack')
           B == Body(co, t)
<1>2. /\ co # current /\ status[co] \in {"initial", "suspended"} /\ co \in Threads
      /\ Len(chain') = n + 1 /\ chain'[n + 1] = co
      /\ \A i \in 1 .. n : chain'[i] = chain[i] /\ chain[i] # co
      /\ stack'[co] = B
      /\ \A u \in Threads : u # current /\ u # co => stack'[u] = stack[u]
      /\ active' = active /\ exempt' = exempt
  BY <1>1, ResumeStands DEF budgetVars, Threads
<1>3. PICK f \in Frames : f.fn = "resume" /\ Grown(frames, stack'[current], f)
  BY <1>1, ResumeStands
<1>4. \A j \in 1 .. Len(B) : B[j].fn = "lua" /\ B[j].metered = (active # None)
  BY <1>2, BodyIs DEF Core
<1> HIDE DEF B
<1>5. /\ chain \in Chains /\ stack \in Stacks /\ n \in Nat /\ n \in 1 .. n
      /\ frames = stack[chain[n]] /\ ci = Len(frames) /\ ci \in Nat
      /\ \A i \in 1 .. n : chain[i] \in Threads /\ (chain[i] = current <=> i = n)
  BY PlacesAre DEF Core
<1>6. chain' \in Chains /\ stack' \in Stacks
  BY DEF Standing, StacksOK, Chains, Stacks, Stack
<1>7. /\ Carries(chain, stack, chain', stack', p) /\ p \in NatPairs
      /\ \A s \in M : Around(s.at, p)
      /\ Within(N, p) = M
      /\ \A i \in 1 .. n : \A j \in 1 .. Len(stack'[chain[i]]) : ~Around(<<i, j>>, p) => i = n /\ j = ci + 1
  <2>1. \A i \in 1 .. n : i # n => stack'[chain[i]] = stack[chain[i]]
    BY <1>2, <1>5
  <2> QED BY <1>2, <1>3, <1>5, <1>6, <2>1, PushCarries
<1>8. stack'[chain[n]][ci + 1].fn = "resume"
  BY <1>3, <1>5 DEF Grown, Same
<1>9. ScopesHold(chain, stack, active, exempt) /\ active \in Owned /\ exempt \in BOOLEAN
  BY DEF ScopesStand, Core, AccountsOK
<1>10. Made(M, active, exempt)
  BY <1>9 DEF ScopesHold
<1> HIDE DEF M, N, p
<1>11. \A i \in 1 .. n + 1 : i \in 1 .. n \/ i = n + 1
  BY <1>5
<1>12. ASSUME NEW i \in 1 .. n + 1, NEW j \in 1 .. Len(stack'[chain'[i]]), ~Around(<<i, j>>, p)
       PROVE  \/ stack'[chain'[i]][j].fn = "resume"
              \/ i = n + 1 /\ stack'[chain'[i]][j].fn = "lua" /\ stack'[chain'[i]][j].metered = (active # None)
  <2>1. CASE i \in 1 .. n
    BY <1>2, <1>7, <1>8, <1>12, <2>1
  <2>2. CASE i = n + 1
    BY <1>2, <1>4, <2>2
  <2> QED BY <1>11, <2>1, <2>2
<1>13. ASSUME NEW s \in N
       PROVE  Around(s.at, p)
  <2>1. PICK i \in 1 .. n + 1 : \E j \in 1 .. Len(stack'[chain'[i]]) : IsScope(stack'[chain'[i]][j]) /\ s.at = <<i, j>>
    BY <1>2, <1>6, MarkIs DEF N
  <2> QED BY <1>12, <2>1 DEF IsScope
<1>14. N = M
  BY <1>7, <1>13 DEF Within
<1>15. ASSUME NEW i \in 1 .. n + 1, NEW j \in 1 .. Len(stack'[chain'[i]]), ~Around(<<i, j>>, p)
       PROVE  /\ IsScope(stack'[chain'[i]][j]) =>
                   Made(Within(N, <<i, j>>), stack'[chain'[i]][j].keep[1], stack'[chain'[i]][j].keep[2])
              /\ stack'[chain'[i]][j].fn = "lua" => Charges(N, <<i, j>>, stack'[chain'[i]][j])
  <2>1. ~IsScope(stack'[chain'[i]][j])
    BY <1>12, <1>15 DEF IsScope
  <2>2. ASSUME stack'[chain'[i]][j].fn = "lua" PROVE Charges(N, <<i, j>>, stack'[chain'[i]][j])
    <3>1. i = n + 1 /\ stack'[chain'[i]][j].metered = (active # None)
      BY <1>12, <1>15, <2>2
    <3>2. ASSUME NEW s \in N PROVE Around(s.at, <<i, j>>)
      <4>1. /\ s.at \in NatPairs /\ Around(s.at, p)
        BY <1>6, <1>13, MarksAre DEF N
      <4>2. s.at[1] \in Nat /\ s.at[1] <= n
        BY <1>5, <4>1 DEF NatPairs, Around, p
      <4>3. s.at[1] < n + 1
        BY <1>5, <4>2
      <4> QED BY <3>1, <4>3 DEF Around
    <3>3. Within(N, <<i, j>>) = N
      BY <3>2 DEF Within
    <3> QED BY <1>9, <1>10, <1>14, <3>1, <3>3 DEF Charges
  <2> QED BY <2>1, <2>2
<1>16. ScopesHold(chain', stack', active', exempt')
  BY <1>2, <1>5, <1>6, <1>7, <1>9, <1>10, <1>14, <1>15, CarriedScopes DEF N
<1> QED BY <1>16 DEF ScopesStand

\* All steps.
LEMMA ScopesStep ==
  ASSUME Main \notin Coroutines, Core, topic = "budget" => ScopesStand, [Next]_guardVars
  PROVE  topic' = topic /\ (topic = "budget" => ScopesStand')
<1>1. CASE Next
  <2>1. Standing' /\ (PushStep \/ CutStep \/ Revoke \/ (BackStep /\ BackSwitch) \/ ResumeStep)
    BY <1>1, Steps
  <2>2. CASE PushStep
    <3>1. topic' = topic
      BY <2>2 DEF PushStep, SameThreads
    <3> QED BY <2>1, <2>2, <3>1, PushScopes
  <2>3. CASE CutStep
    <3>1. topic' = topic
      BY <2>3 DEF CutStep, SameThreads
    <3> QED BY <2>1, <2>3, <3>1, CutScopes
  <2>4. CASE Revoke
    BY <2>4 DEF Revoke, SameThreads
  <2>5. CASE BackStep /\ BackSwitch
    <3>1. topic' = topic
      BY <2>5 DEF BackStep, SwitchBack
    <3> QED BY <2>1, <2>5, <3>1, BackScopes
  <2>6. CASE ResumeStep
    <3>1. topic' = topic
      BY <2>6, ResumeStands DEF ResumeStep
    <3> QED BY <2>1, <2>6, <3>1, ResumeScopes
  <2> QED BY <2>1, <2>2, <2>3, <2>4, <2>5, <2>6
<1>2. CASE UNCHANGED guardVars
  BY <1>2 DEF guardVars, ScopesStand
<1> QED BY <1>1, <1>2

\* What it says of the budgets.
LEMMA ScopesMetered ==
  ASSUME Limit \in Nat, Core, ScopesStand
  PROVE  Metered
<1> DEFINE n == Len(chain)
           M == Marks(chain, stack)
<1>1. /\ chain \in Chains /\ stack \in Stacks /\ n \in Nat /\ DOMAIN chain = 1 .. n
      /\ \A i \in 1 .. n : DOMAIN stack[chain[i]] = 1 .. Len(stack[chain[i]])
  <2>1. chain \in Chains /\ stack \in Stacks
    BY PlacesAre DEF Core
  <2> QED BY <2>1, MarksAre
<1>2. ScopesHold(chain, stack, active, exempt) /\ Made(M, active, exempt) /\ active \in Owned /\ exempt \in BOOLEAN
  BY DEF ScopesStand, ScopesHold, Core, AccountsOK
<1>3. ASSUME NEW p \in Scopes PROVE \E s \in M : s.at = p /\ s.fn = At(p).fn /\ s.keep = At(p).keep
  <2>1. PICK i \in DOMAIN chain : p \in {i} \X DOMAIN stack[chain[i]]
    BY DEF Scopes, Places
  <2>2. PICK j \in DOMAIN stack[chain[i]] : p = <<i, j>>
    BY <2>1
  <2>3. IsScope(stack[chain[i]][j]) /\ At(p) = stack[chain[i]][j]
    BY <2>2 DEF Scopes, At
  <2>4. Mark(i, j, stack[chain[i]][j]) \in M
    BY <1>1, <2>3, MarksAre
  <2> QED BY <2>2, <2>3, <2>4 DEF Mark
<1>4. ASSUME NEW s \in M PROVE s.at \in Scopes /\ s.fn = At(s.at).fn
  <2>1. PICK i \in 1 .. n : \E j \in 1 .. Len(stack[chain[i]]) :
          IsScope(stack[chain[i]][j]) /\ s.at = <<i, j>> /\ s.fn = stack[chain[i]][j].fn
    BY <1>1, MarkIs
  <2>2. PICK j \in 1 .. Len(stack[chain[i]]) : IsScope(stack[chain[i]][j]) /\ s.at = <<i, j>> /\ s.fn = stack[chain[i]][j].fn
    BY <2>1
  <2>3. i \in DOMAIN chain /\ <<i, j>> \in {i} \X DOMAIN stack[chain[i]]
    BY <1>1, <2>2
  <2>4. s.at \in Places
    BY <2>2, <2>3 DEF Places
  <2>5. At(s.at) = stack[chain[i]][j]
    BY <2>2 DEF At
  <2> QED BY <2>2, <2>4, <2>5 DEF Scopes
<1>5. \A r, s \in M : r.at = s.at => r = s
  <2>1. \A s \in M : s = Mark(s.at[1], s.at[2], stack[chain[s.at[1]]][s.at[2]])
    BY <1>1, MarksAre
  <2> QED BY <2>1
<1> HIDE DEF M
<1>6. exempt = \E p \in Scopes : At(p).fn = "exempt"
  BY <1>2, <1>3, <1>4 DEF Made
<1>7. ASSUME NEW p \in Scopes, \A q \in Scopes \ {p} : Around(q, p) PROVE active = IF exempt THEN None ELSE At(p).keep[3]
  <2>1. PICK s \in M : s.at = p /\ s.keep = At(p).keep
    BY <1>3
  <2>2. \A r \in M \ {s} : Around(r.at, s.at)
    BY <1>4, <1>5, <1>7, <2>1
  <2> QED BY <1>2, <2>1, <2>2 DEF Made
<1>8. Scopes = {} => active = None
  BY <1>2, <1>4 DEF Made
<1>9. ASSUME IsLua PROVE frames[ci].metered = (active # None)
  <2>1. PICK a \in Owned : \E e \in BOOLEAN : Made(M, a, e) /\ frames[ci].metered = (a # None)
    BY <1>9, TopCharged DEF Charges, M
  <2>2. PICK e \in BOOLEAN : Made(M, a, e) /\ frames[ci].metered = (a # None)
    BY <2>1
  <2>3. a = active
    BY <1>1, <1>2, <2>2, MadeOnce DEF M
  <2> QED BY <2>2, <2>3
<1>10. \A o \in Owners : used[o] <= Limit
  <2>1. used \in [Owners -> 0 .. Limit]
    BY DEF Core, AccountsOK
  <2> QED BY <2>1
<1> QED BY <1>6, <1>7, <1>8, <1>9, <1>10 DEF Metered

-----------------------------------------------------------------------------
(***************************************************************************)
(* The theorems.                                                           *)
(***************************************************************************)
\* IInv holds at the beginning.
LEMMA IInvInit ==
  ASSUME Main \notin Coroutines, Limit \in Nat, Init
  PROVE  IInv
<1>1. Core
  BY CoreInit
<1>2. /\ chain = <<Main>> /\ stack = [t \in Threads |-> <<>>] /\ revoked = {} /\ resumers = <<>>
      /\ active = None /\ exempt = FALSE
  BY DEF Init, Begin
<1>3. /\ Len(chain) = 1 /\ DOMAIN chain = {1} /\ chain[1] = Main /\ Main \in Threads
      /\ \A t \in Threads : stack[t] = <<>> /\ DOMAIN stack[t] = {}
  BY <1>2 DEF Threads
<1>4. Entered
  BY <1>2, <1>3 DEF Entered, Entry
<1>5. Enrolled
  BY <1>2, <1>3 DEF Enrolled
<1>6. ScopesStand
  <2>1. Marks(chain, stack) = {}
    <3>1. chain \in Chains /\ stack \in Stacks
      BY <1>1, PlacesAre DEF Core
    <3>2. \A s \in Marks(chain, stack) : \E i \in 1 .. Len(chain) : \E j \in 1 .. Len(stack[chain[i]]) : TRUE
      BY <3>1, MarkIs
    <3>3. \A i \in 1 .. Len(chain) : Len(stack[chain[i]]) = 0
      BY <1>3
    <3> QED BY <3>2, <3>3
  <2>2. Made({}, None, FALSE)
    BY DEF Made
  <2>3. \A i \in DOMAIN chain : DOMAIN stack[chain[i]] = {}
    BY <1>3
  <2> QED BY <1>2, <2>1, <2>2, <2>3 DEF ScopesStand, ScopesHold
<1> QED BY <1>1, <1>4, <1>5, <1>6 DEF IInv

\* Every step preserves it.
LEMMA IInvStep ==
  ASSUME Main \notin Coroutines, Limit \in Nat, IInv, [Next]_guardVars
  PROVE  IInv'
<1>1. Core'
  BY CoreStep DEF IInv
<1>2. Entered' /\ Enrolled'
  BY SecretsStep DEF IInv
<1>3. topic' = topic /\ (topic = "budget" => ScopesStand')
  BY ScopesStep DEF IInv
<1> QED BY <1>1, <1>2, <1>3 DEF IInv

\* The inductive invariant: what is kept beside the stacks follows the frames,
\* whoever calls, tail calls, fails, yields, resumes or returns.
THEOREM Invariance ==
  Spec => []IInv
<1>1. Init => IInv
  BY GuardsAssumption, IInvInit
<1>2. IInv /\ [Next]_guardVars => IInv'
  BY GuardsAssumption, IInvStep
<1> QED BY <1>1, <1>2, PTL DEF Spec

\* The stacks, the lists of revocations and resumers and the budgets are well typed.
THEOREM TypeCorrect ==
  Spec => []TypeOK
<1>1. IInv => TypeOK
  BY DEF IInv, Core, Standing, TypeOK
<1> QED BY <1>1, Invariance, PTL

\* secret_context_is_revoked says yes exactly while a frame that has lost its
\* access, or one that was tail called by it, is on the stack of the running thread
\* or of one that waits for it: prune drops no entry that counts and keeps none that
\* does not.
THEOREM AccessDenied ==
  Spec => []Denied
<1>1. IInv => Denied
  BY SecretsDenied DEF IInv
<1> QED BY <1>1, Invariance, PTL

\* A frame has the taint it was given, however securecall and secureexecuterange
\* that hid it were left: by a return, by an error or by the end of the coroutine.
THEOREM TaintsAreKept ==
  Spec => []TaintKept
<1>1. IInv => TaintKept
  BY CoreTaints DEF IInv
<1> QED BY <1>1, Invariance, PTL

\* The transfer hook leaves no function with a value of another environment: what a
\* Lua function has is at home in its own, what a Rust function has in its nearest
\* Lua caller's.
THEOREM ValuesFit ==
  Spec => []Fits
<1>1. IInv => Fits
  BY CoreFits DEF IInv
<1> QED BY <1>1, Invariance, PTL

\* Instructions are charged to the innermost owner around them, through coroutines
\* too, to none under an exemption, and never beyond the owner's limit.
THEOREM InstructionsMetered ==
  Spec => []Metered
<1>1. IInv => Metered
  BY GuardsAssumption, ScopesMetered DEF IInv, Metered
<1> QED BY <1>1, Invariance, PTL
=============================================================================
