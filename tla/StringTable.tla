---------------------------- MODULE StringTable ----------------------------
(***************************************************************************)
(* Interned strings (vm/string.rs) in their arena (vm/gc/arena.rs), while  *)
(* cycles of the collector mark and sweep them in small steps.  Strings    *)
(* are compared by reference, so two references to one text would make     *)
(* equal strings differ.  Pinned and frozen entries are in KeepAlive.      *)
(***************************************************************************)
EXTENDS Integers, Sequences, FiniteSets, FiniteSetsExt

CONSTANTS Texts,
          Hash,       \* the hash of each text
          Pointers,   \* addresses of static texts
          At,         \* the text at each address
          Nothing,    \* what a free slot holds
          MinBuckets, \* buckets to begin with (MIN_STR_TAB_SIZE)
          SweepMax,   \* strings swept by one step (GCSWEEPMAX)
          GenMod,     \* generations of a slot (2^32)
          MaxHeld,    \* bound: references the program holds
          MaxKept,    \* bound: references kept without being roots
          MaxSweeps   \* bound: sweeps

ASSUME StringTableAssumption ==
  /\ Hash \in [Texts -> Nat] /\ At \in [Pointers -> Texts]
  /\ Nothing \notin Texts
  /\ {MinBuckets, SweepMax, GenMod} \subseteq Nat \ {0}

VARIABLES
  entries, \* the slots, each with its generation, text and colour
  head,    \* free_head: the first free slot, 0 for none
  len,     \* how many slots are occupied
  buckets, \* the intern table: the references in each bucket, their order left out
           \* since no two of them read as one text
  count,   \* the strings it believes to hold
  cache,   \* static_intern_cache: addresses and their references
  white, phase,
  cursor,  \* slot_position, the next slot to sweep
  held,    \* references on the stack, with the text each was made for
  sweeps,  \* how many sweeps the bound still allows
  kept     \* references in places that are no roots: the keys of removed fields

arenaVars == <<entries, head, len>>
tableVars == <<buckets, count>>
gcVars    == <<white, phase, cursor, sweeps>>
vars      == <<arenaVars, tableVars, cache, gcVars, held, kept>>

Whites == {"white0", "white1"}
Other(w) == IF w = "white0" THEN "white1" ELSE "white0"

-----------------------------------------------------------------------------
(***************************************************************************)
(* The arena.  A reference is a slot with the generation it had; get       *)
(* refuses one of another generation.                                      *)
(***************************************************************************)
Valid(E, r) ==
  r.slot \in DOMAIN E /\ E[r.slot].gen = r.gen /\ E[r.slot].text # Nothing

Get(E, r) == IF Valid(E, r) THEN E[r.slot].text ELSE Nothing

Occupied(text, gen, color) ==
  [gen |-> gen, text |-> text, color |-> color, next |-> 0]

\* Slip: the slot keeps its generation.
NextGenerationSame(gen) == gen

NextGeneration(gen) == (gen + 1) % GenMod

Freed(entry, next) ==
  [gen |-> NextGeneration(entry.gen), text |-> Nothing, color |-> "free", next |-> next]

(***************************************************************************)
(* alloc: the first free slot, or a new one.                               *)
(***************************************************************************)
Alloc(text, color) ==
  IF head # 0
  THEN [entries |-> [entries EXCEPT ![head] = Occupied(text, @.gen, color)],
        head |-> entries[head].next,
        ref |-> [slot |-> head, gen |-> entries[head].gen]]
  ELSE [entries |-> Append(entries, Occupied(text, 0, color)),
        head |-> 0,
        ref |-> [slot |-> Len(entries) + 1, gen |-> 0]]

(***************************************************************************)
(* sweep_partial: slots from the cursor on, until SweepMax occupied ones   *)
(* have been seen; the dead are pushed on the free list, the others turn   *)
(* white.                                                                  *)
(***************************************************************************)
Seen(from, next) == {i \in from .. next - 1 : entries[i].text # Nothing}

StopsAt(from, next) ==
  LET seen == Seen(from, next)
  IN \/ Cardinality(seen) = SweepMax /\ next - 1 \in seen
     \/ Cardinality(seen) < SweepMax /\ next = Len(entries) + 1

Dead(entry) == entry.color = Other(white)

\* Slip: the free list of before is lost.
PushedOnNothing(gone) ==
  [i \in gone |-> LET before == {j \in gone : j < i}
                  IN IF before = {} THEN 0 ELSE Max(before)]

Pushed(gone) ==
  \* what each freed slot is linked to
  [i \in gone |-> LET before == {j \in gone : j < i}
                  IN IF before = {} THEN head ELSE Max(before)]

References == UNION {buckets[b] : b \in DOMAIN buckets}

Swept(seen, gone) ==
  [i \in DOMAIN entries |->
     IF i \in gone THEN Freed(entries[i], Pushed(gone)[i])
     ELSE IF i \in seen THEN [entries[i] EXCEPT !.color = white]
     ELSE entries[i]]

SweepStep ==
  /\ phase = "SweepString"
  /\ \E next \in cursor .. Len(entries) + 1 :
       /\ StopsAt(cursor, next)
       /\ LET seen == Seen(cursor, next)
              gone == {i \in seen : Dead(entries[i])}
              done == next > Len(entries)
              \* sweep_dead
              stale(r) == Get(Swept(seen, gone), r) = Nothing
              lost == {r \in References : stale(r)}
          IN /\ entries' = Swept(seen, gone)
             /\ head' = IF gone = {} THEN head ELSE Max(gone)
             /\ len' = len - Cardinality(gone)
             /\ cursor' = IF done THEN 1 ELSE next
             /\ phase' = IF done THEN "Sweep" ELSE phase
             /\ buckets' = IF done THEN [b \in DOMAIN buckets |-> buckets[b] \ lost] ELSE buckets
             /\ count' = IF done THEN count - Cardinality(lost) ELSE count
             /\ kept' = {[k EXCEPT !.age = IF k.ref.slot \in gone /\ @ < GenMod THEN @ + 1 ELSE @]
                           : k \in kept}
  /\ UNCHANGED <<cache, white, sweeps, held>>

-----------------------------------------------------------------------------
(***************************************************************************)
(* intern: the reference in the bucket of the text, revived if the sweep   *)
(* would take it, or a new one; the table doubles when it is full.         *)
(***************************************************************************)
Size == Cardinality(DOMAIN buckets)

Bucket(text, n) == Hash[text] % n

\* Slip: what is about to be swept is handed out as it is.
RevivedNot(entry) == entry

Revived(entry) == IF entry.color = Other(white) THEN [entry EXCEPT !.color = white] ELSE entry

Rehashed(B, E, n) ==
  [b \in 0 .. n - 1 |->
     {r \in UNION {B[c] : c \in DOMAIN B} : Get(E, r) # Nothing /\ Bucket(Get(E, r), n) = b}]

Intern(text) ==
  LET b == Bucket(text, Size)
      hits == {r \in buckets[b] : Get(entries, r) = text}
  IN IF hits # {}
     THEN LET r == CHOOSE hit \in hits : TRUE
          IN [ref |-> r, entries |-> [entries EXCEPT ![r.slot] = Revived(@)],
              head |-> head, len |-> len, buckets |-> buckets, count |-> count]
     ELSE LET a == Alloc(text, white)
              longer == [buckets EXCEPT ![b] = @ \union {a.ref}]
          IN [ref |-> a.ref, entries |-> a.entries, head |-> a.head, len |-> len + 1,
              buckets |-> IF count + 1 > Size THEN Rehashed(longer, a.entries, 2 * Size)
                          ELSE longer,
              count |-> count + 1]

Interned(s) ==
  /\ head' = s.head /\ len' = s.len
  /\ buckets' = s.buckets /\ count' = s.count

(***************************************************************************)
(* intern_string, its result on the stack.                                 *)
(***************************************************************************)
InternString(text) ==
  /\ Cardinality(held) < MaxHeld
  /\ LET s == Intern(text)
     IN /\ Interned(s) /\ entries' = s.entries
        /\ held' = held \union {[ref |-> s.ref, text |-> text]}
  /\ UNCHANGED <<cache, gcVars, kept>>

(***************************************************************************)
(* intern_string_static: by address; what is new to the cache in the       *)
(* middle of a cycle turns black, the roots having been marked.            *)
(***************************************************************************)
\* Slip: it keeps its colour.
StaticColorNot(E, r) == E

StaticColor(E, r) == IF phase = "Pause" THEN E ELSE [E EXCEPT ![r.slot].color = "black"]

InternStatic(p) ==
  /\ p \notin DOMAIN cache
  /\ LET s == Intern(At[p])
     IN /\ Interned(s) /\ entries' = StaticColor(s.entries, s.ref)
        /\ cache' = [q \in DOMAIN cache \union {p} |-> IF q = p THEN s.ref ELSE cache[q]]
  /\ UNCHANGED <<gcVars, held, kept>>

HoldStatic(p) ==
  /\ p \in DOMAIN cache
  /\ Cardinality(held) < MaxHeld
  /\ held' = held \union {[ref |-> cache[p], text |-> At[p]]}
  /\ UNCHANGED <<arenaVars, tableVars, cache, gcVars, kept>>

(***************************************************************************)
(* The program drops a reference, or keeps it as the key of a field that   *)
(* it removes; later it may drop that too.                                 *)
(***************************************************************************)
Release(h) ==
  /\ h \in held /\ held' = held \ {h}
  /\ UNCHANGED <<arenaVars, tableVars, cache, gcVars, kept>>

Remember(h) ==
  /\ h \in held /\ held' = held \ {h}
  /\ Cardinality(kept) < MaxKept
  /\ kept' = kept \union {[ref |-> h.ref, text |-> h.text, age |-> 0]}
  /\ UNCHANGED <<arenaVars, tableVars, cache, gcVars>>

Forget(k) ==
  /\ k \in kept /\ kept' = kept \ {k}
  /\ UNCHANGED <<arenaVars, tableVars, cache, gcVars, held>>

-----------------------------------------------------------------------------
(***************************************************************************)
(* The cycle, as far as strings see it: mark_gc_roots, then the stack in   *)
(* the atomic phase; the other arenas are swept after the strings.         *)
(***************************************************************************)
Marked(R) ==
  [i \in DOMAIN entries |->
     IF entries[i].color \in Whites /\ \E r \in R : r.slot = i /\ r.gen = entries[i].gen
     THEN [entries[i] EXCEPT !.color = "black"] ELSE entries[i]]

StartCycle ==
  /\ phase = "Pause"
  /\ entries' = Marked({cache[p] : p \in DOMAIN cache})
  /\ phase' = "Propagate"
  /\ UNCHANGED <<head, len, tableVars, cache, white, cursor, sweeps, held, kept>>

Atomic ==
  /\ phase = "Propagate"
  /\ sweeps > 0 /\ sweeps' = sweeps - 1
  /\ entries' = Marked({h.ref : h \in held})
  /\ white' = Other(white)
  /\ cursor' = 1
  /\ phase' = "SweepString"
  /\ UNCHANGED <<head, len, tableVars, cache, held, kept>>

(***************************************************************************)
(* full_gc gives a marking up: everything is swept with the whites as they *)
(* were, and a cycle follows.                                              *)
(***************************************************************************)
Abandon ==
  /\ phase \in {"Pause", "Propagate"}
  /\ sweeps > 0 /\ sweeps' = sweeps - 1
  /\ cursor' = 1
  /\ phase' = "SweepString"
  /\ UNCHANGED <<arenaVars, tableVars, cache, white, held, kept>>

EndCycle ==
  /\ phase = "Sweep"
  /\ phase' = "Pause"
  /\ UNCHANGED <<arenaVars, tableVars, cache, white, cursor, sweeps, held, kept>>

-----------------------------------------------------------------------------
Init ==
  /\ entries = <<>> /\ head = 0 /\ len = 0
  /\ buckets = [b \in 0 .. MinBuckets - 1 |-> {}] /\ count = 0
  /\ cache = [p \in {} |-> 0]
  /\ white = "white0" /\ phase = "Pause" /\ cursor = 1
  /\ held = {} /\ kept = {} /\ sweeps = MaxSweeps

Next ==
  \/ \E text \in Texts : InternString(text)
  \/ \E p \in Pointers : InternStatic(p) \/ HoldStatic(p)
  \/ \E h \in held : Release(h) \/ Remember(h)
  \/ \E k \in kept : Forget(k)
  \/ StartCycle \/ Atomic \/ SweepStep \/ Abandon \/ EndCycle

Spec == Init /\ [][Next]_vars

-----------------------------------------------------------------------------
(***************************************************************************)
(* Properties.                                                             *)
(***************************************************************************)

(***************************************************************************)
(* A text has one reference: those the program and the static cache hold   *)
(* stay valid and read as the text they were made for, and no two slots    *)
(* hold one text, whenever in a cycle it was interned (intern_hashed,      *)
(* intern_string_static).                                                  *)
(***************************************************************************)
OneReference ==
  /\ \A h \in held : Get(entries, h.ref) = h.text
  /\ \A p \in DOMAIN cache : Get(entries, cache[p]) = At[p]
  /\ \A i, j \in DOMAIN entries :
       entries[i].text = entries[j].text /\ entries[i].text # Nothing => i = j

(***************************************************************************)
(* The free list runs through the free slots, each once, and len counts    *)
(* the others, whatever is freed and taken behind and in front of the      *)
(* sweep (alloc, sweep_partial).                                           *)
(***************************************************************************)
SlotsExact ==
  LET free == {i \in DOMAIN entries : entries[i].text = Nothing}
      walk[n \in 0 .. Len(entries)] ==
        IF n = 0 THEN head
        ELSE LET before == walk[n - 1] IN IF before = 0 THEN 0 ELSE entries[before].next
  IN /\ {walk[n] : n \in 0 .. Cardinality(free) - 1} = free
     /\ walk[Cardinality(free)] = 0
     /\ len = Len(entries) - Cardinality(free)

(***************************************************************************)
(* A reference that is no root is refused once its string is gone, though  *)
(* the slot is taken again, as long as the slot has been freed fewer times *)
(* than there are generations (get, free).                                 *)
(***************************************************************************)
NeverMistaken ==
  \A k \in kept : k.age < GenMod => Get(entries, k.ref) \in {Nothing, k.text}
=============================================================================
