------------------------------- MODULE Tables -------------------------------
(***************************************************************************)
(* A table (vm/table.rs): an array part for the keys 1 .. Len(array), and  *)
(* a hash part of nodes chained through `next', in which a key that finds  *)
(* its main position taken goes to a free node (Brent's variation).  Nodes *)
(* are never freed one by one: a field set to nil keeps its node until the *)
(* next rehash, which also moves integer keys between the parts.  Strings  *)
(* of such fields may be swept meanwhile, and their hash is then lost.     *)
(*                                                                         *)
(* One table, and the program that uses it: assignments, one traversal,    *)
(* the swaps of table.sort and lists of constructors.                      *)
(***************************************************************************)
EXTENDS Integers, Sequences, FiniteSets, SequencesExt, FiniteSetsExt, Functions, TLC

CONSTANTS IntKeys, \* positive integers
          StrKeys, \* strings
          RefKeys, \* tables, functions and other numbers
          Values,  \* what the field of each key may hold
          Nil,
          Off,     \* of a cursor: no traversal is under way
          Failed,  \* of a cursor: next raised an error, which ended the traversal
          Hash,    \* the hash of each key
          Sizes,   \* the sizes of the array and hash parts a constructor asks for
          Lists,   \* the lists of constructors
          Mixed    \* whether a constructor mixes a list with integer keys

Keys == IntKeys \union StrKeys \union RefKeys

ASSUME KeysAssumption ==
  /\ IntKeys \subseteq Nat \ {0}
  /\ Hash \in [Keys -> Nat]
  /\ \A k \in Keys : Nil \notin Values[k]
  /\ Nil \notin Keys /\ {Off, Failed} \intersect (Keys \union {Nil}) = {}
  /\ Off # Failed

VARIABLES
  array,    \* the array part
  nodes,    \* the hash part, nodes 0 .. size - 1
  lastFree, \* no node from here on is free
  swept,    \* strings the collector has freed
  cursor,   \* the key the traversal's next call passes, Off or Failed
  content,  \* what the program has stored: a function from keys to Values
  rest      \* what the traversal has yet to show, or Nil: nothing is promised

vars == <<array, nodes, lastFree, swept, cursor, content, rest>>

parts == <<array, nodes, lastFree>>

(***************************************************************************)
(* Nodes and the two parts.                                                *)
(***************************************************************************)
None == -1

Free == [key |-> Nil, value |-> Nil, next |-> None]

Size(N) == Cardinality(DOMAIN N)

NodeArray(n) == [i \in 0 .. n - 1 |-> Free]

CeilPow2(n) == CHOOSE p \in {2 ^ e : e \in 0 .. n} : p >= n /\ (p = 1 \/ p < 2 * n)

(***************************************************************************)
(* The sizes of a table, and of a table at an instant, travel as a record. *)
(***************************************************************************)
Table == [array |-> array, nodes |-> nodes, free |-> lastFree, swept |-> swept]

NewTable(size) ==
  [array |-> [i \in 1 .. size[1] |-> Nil],
   nodes |-> IF size[2] = 0 THEN <<>> ELSE NodeArray(CeilPow2(size[2])),
   free |-> IF size[2] = 0 THEN 0 ELSE CeilPow2(size[2]), swept |-> {}]

InArray(T, k) == k \in 1 .. Len(T.array)

(***************************************************************************)
(* Strings hash by a power of two, the rest by an odd divisor; a string    *)
(* that is no more hashes to 0.                                            *)
(***************************************************************************)
MainPosition(T, k) ==
  IF k \in StrKeys
  THEN (IF k \in T.swept THEN 0 ELSE Hash[k]) % Size(T.nodes)
  ELSE Hash[k] % (IF Size(T.nodes) = 1 THEN 1 ELSE Size(T.nodes) - 1)

(***************************************************************************)
(* The chain from node i: its n-th node, or None past its end.             *)
(***************************************************************************)
ChainFrom(N, i) ==
  LET at[n \in 0 .. Size(N)] ==
        IF n = 0 THEN i
        ELSE LET before == at[n - 1] IN IF before = None THEN None ELSE N[before].next
  IN at

(***************************************************************************)
(* The node of key k, or None.                                             *)
(***************************************************************************)
Find(T, k) ==
  IF T.nodes = <<>> \/ k \notin Keys THEN None
  ELSE LET chain == ChainFrom(T.nodes, MainPosition(T, k))
           hits == {n \in DOMAIN chain : chain[n] # None /\ T.nodes[chain[n]].key = k}
       IN IF hits = {} THEN None ELSE chain[Min(hits)]

(***************************************************************************)
(* get, get_int, get_str: the array first, then the chain.                 *)
(***************************************************************************)
Lookup(T, k) ==
  IF InArray(T, k) THEN T.array[k]
  ELSE LET i == Find(T, k) IN IF i = None THEN Nil ELSE T.nodes[i].value

(***************************************************************************)
(* get_free_pos scans down from last_free; it leaves last_free at what it  *)
(* finds, or at 0.                                                         *)
(***************************************************************************)
FreePos(T) ==
  LET free == {i \in 0 .. T.free - 1 : T.nodes[i].key = Nil}
  IN IF free = {} THEN None ELSE Max(free)

(***************************************************************************)
(* new_key finds a node for a key that has none.  An occupant that is in   *)
(* its own main position stays and the key is chained behind it; another   *)
(* moves to the free node.  A swept occupant gives up its node, which      *)
(* stays where it is in its chain.                                         *)
(***************************************************************************)
Dead(T, i) == T.nodes[i].value = Nil /\ T.nodes[i].key \in T.swept

Predecessor(T, from, i) ==
  LET chain == ChainFrom(T.nodes, from)
      before == {n \in DOMAIN chain : chain[n] # None /\ T.nodes[chain[n]].next \in {i, None}}
  IN chain[Min(before)]

Chained(T, mp, free, k, v) ==
  [T EXCEPT !.free = free,
            !.nodes[free] = [key |-> k, value |-> v, next |-> T.nodes[mp].next],
            !.nodes[mp].next = free]

\* Slip: a swept node is reused as if it ended its chain.
ReusedAsLast(T, mp, k, v) ==
  [T EXCEPT !.nodes[mp] = [key |-> k, value |-> v, next |-> None]]

Reused(T, mp, k, v) ==
  [T EXCEPT !.nodes[mp].key = k, !.nodes[mp].value = v]

Moved(T, mp, free, k, v) ==
  LET before == Predecessor(T, MainPosition(T, T.nodes[mp].key), mp)
      N == [T.nodes EXCEPT ![before].next = free]
  IN [T EXCEPT !.free = free,
               !.nodes = [N EXCEPT ![free] = N[mp],
                                   ![mp] = [key |-> k, value |-> v, next |-> None]]]

NewKey(T, k, v) ==
  LET mp == MainPosition(T, k)
      free == FreePos(T)
  IN IF T.nodes[mp].key = Nil \/ Dead(T, mp) THEN Reused(T, mp, k, v)
     ELSE IF MainPosition(T, T.nodes[mp].key) = mp THEN Chained(T, mp, free, k, v)
     ELSE Moved(T, mp, free, k, v)

HasRoom(T, k) ==
  /\ T.nodes # <<>>
  /\ LET mp == MainPosition(T, k)
     IN T.nodes[mp].key = Nil \/ Dead(T, mp) \/ FreePos(T) # None

(***************************************************************************)
(* raw_set_impl, as far as it goes without a rehash: the array, the node   *)
(* the key has already (nil or not), one more array slot, two first nodes. *)
(***************************************************************************)
FirstNodes(T, k, v) ==
  LET U == [T EXCEPT !.nodes = NodeArray(2), !.free = 2]
  IN [U EXCEPT !.nodes[MainPosition(U, k)] = [key |-> k, value |-> v, next |-> None]]

SettlesInPlace(T, k, v) ==
  \/ InArray(T, k) \/ Find(T, k) # None \/ v = Nil
  \/ k = Len(T.array) + 1 \/ T.nodes = <<>>
  \/ HasRoom(T, k)

SetInPlace(T, k, v) ==
  IF InArray(T, k) THEN [T EXCEPT !.array[k] = v]
  ELSE IF Find(T, k) # None THEN [T EXCEPT !.nodes[Find(T, k)].value = v]
  ELSE IF v = Nil THEN T
  ELSE IF k = Len(T.array) + 1 THEN [T EXCEPT !.array = Append(@, v)]
  ELSE IF T.nodes = <<>> THEN FirstNodes(T, k, v)
  ELSE NewKey(T, k, v)

(***************************************************************************)
(* rehash counts the integer keys, the new one included, and takes the     *)
(* largest power of two of which more than half would be in use.           *)
(***************************************************************************)
MoreThanHalf(n, size) == n > size \div 2

ArraySize(K) ==
  LET top == IF K = {} THEN 0 ELSE Max(K)
      good == {p \in {2 ^ e : e \in 0 .. top} :
                 /\ p < 2 * top
                 /\ MoreThanHalf(Cardinality({k \in K : k <= p}), p)}
  IN IF good = {} THEN 0 ELSE Max(good)

InUse(T) ==
  {k \in IntKeys : InArray(T, k) /\ T.array[k] # Nil}
    \union {T.nodes[i].key : i \in {i \in DOMAIN T.nodes : T.nodes[i].value # Nil}}

(***************************************************************************)
(* resize: the array grows first; what it loses when it shrinks goes to    *)
(* the new nodes, and then the old nodes, the last one first.              *)
(***************************************************************************)
Resize(T, arraySize, hashSize) ==
  LET old == Len(T.array)
      size == IF hashSize = 0 THEN 0 ELSE CeilPow2(hashSize)
      fresh == [T EXCEPT
        !.array = [i \in 1 .. Max({arraySize, old}) |-> IF i <= old THEN T.array[i] ELSE Nil],
        !.nodes = IF size = 0 THEN <<>> ELSE NodeArray(size), !.free = size]
      lost == SelectSeq([n \in 1 .. Max({0, old - arraySize}) |-> arraySize + n],
                        LAMBDA k : T.array[k] # Nil)
      moved == FoldLeft(LAMBDA U, k : NewKey(U, k, T.array[k]), fresh, lost)
      shrunk == [moved EXCEPT !.array = SubSeq(@, 1, arraySize)]
      nodesOf == SelectSeq([n \in 1 .. Size(T.nodes) |-> T.nodes[Size(T.nodes) - n]],
                           LAMBDA node : node.value # Nil)
  IN FoldLeft(LAMBDA U, node : SetInPlace(U, node.key, node.value), shrunk, nodesOf)

Rehash(T, k) ==
  LET used == InUse(T) \union {k}
      arraySize == ArraySize(used \intersect IntKeys)
      inArray == {i \in used \intersect IntKeys : i <= arraySize}
  IN Resize(T, arraySize, Cardinality(used) - Cardinality(inArray))

RawSet(T, k, v) ==
  IF SettlesInPlace(T, k, v) THEN SetInPlace(T, k, v)
  ELSE SetInPlace(Rehash(T, k), k, v)

(***************************************************************************)
(* The length: a binary search of the array if its last slot is nil, else  *)
(* a search by doubling, and by halves, of the hash part.                  *)
(***************************************************************************)
HalfWay(lo, hi) == (lo + hi) \div 2

Search(has(_), lo, hi) ==
  LET go[d \in 0 .. hi - lo] ==
        \* the interval left after narrowing it to at most d numbers
        IF d = hi - lo THEN <<lo, hi>>
        ELSE LET at == go[d + 1]
                 m == HalfWay(at[1], at[2])
             IN IF at[2] - at[1] <= 1 THEN at
                ELSE IF has(m) THEN <<m, at[2]>> ELSE <<at[1], m>>
  IN go[0][1]

\* Slip: a full array is never searched past.
LengthOfArray(T) ==
  LET n == Len(T.array)
      inArray(i) == T.array[i] # Nil
  IN IF n > 0 /\ T.array[n] = Nil THEN Search(inArray, 0, n) ELSE n

Length(T) ==
  LET n == Len(T.array)
      has(i) == Lookup(T, i) # Nil
      inArray(i) == T.array[i] # Nil
      doubled[e \in Nat] == (n + 1) * 2 ^ e
      last == CHOOSE e \in 0 .. Cardinality(IntKeys) :
                ~has(doubled[e]) /\ \A f \in 0 .. e - 1 : has(doubled[f])
  IN IF n > 0 /\ T.array[n] = Nil THEN Search(inArray, 0, n)
     ELSE IF T.nodes = <<>> THEN n
     ELSE Search(has, IF last = 0 THEN n ELSE doubled[last - 1], doubled[last])

(***************************************************************************)
(* next goes on behind the place of the key, in the array and then in the  *)
(* nodes, to the first field that is not nil.                              *)
(***************************************************************************)
Places(T) ==
  [n \in 1 .. Len(T.array) |-> [key |-> n, value |-> T.array[n]]]
    \o [n \in 1 .. Size(T.nodes) |-> [key |-> T.nodes[n - 1].key, value |-> T.nodes[n - 1].value]]

FindIndex(T, k) ==
  IF k = Nil THEN 0
  ELSE IF InArray(T, k) THEN k
  ELSE IF Find(T, k) # None THEN Len(T.array) + Find(T, k) + 1
  ELSE None

NextPlace(T, k) ==
  LET places == Places(T)
      ahead == {n \in DOMAIN places : n > FindIndex(T, k) /\ places[n].value # Nil}
  IN IF ahead = {} THEN None ELSE Min(ahead)

-----------------------------------------------------------------------------
(***************************************************************************)
(* What the program knows: the fields it has stored, and what a traversal  *)
(* owes it, which an assignment to a field that does not exist ends.       *)
(***************************************************************************)
Fields == DOMAIN content

Idle == cursor \in {Off, Failed}

Stored(f, k, v) ==
  IF v = Nil THEN Restrict(f, DOMAIN f \ {k}) ELSE (k :> v) @@ f

Without(K) == IF rest = Nil THEN Nil ELSE rest \ K

-----------------------------------------------------------------------------
(***************************************************************************)
(* The actions.                                                            *)
(***************************************************************************)
Store(T) == array' = T.array /\ nodes' = T.nodes /\ lastFree' = T.free

Init ==
  /\ \E size \in Sizes :
       LET T == NewTable(size)
       IN array = T.array /\ nodes = T.nodes /\ lastFree = T.free
  /\ swept = {} /\ cursor = Off
  /\ content = <<>> /\ rest = Nil

Set(k, v) ==
  /\ k \notin swept
  /\ Store(RawSet(Table, k, v))
  /\ content' = Stored(content, k, v)
  /\ rest' = IF v = Nil THEN Without({k}) ELSE IF k \in Fields THEN rest ELSE Nil
  /\ UNCHANGED <<swept, cursor>>

(***************************************************************************)
(* table.sort exchanges two fields where they are.                         *)
(***************************************************************************)
SetExisting(T, k, v) ==
  IF InArray(T, k) THEN [T EXCEPT !.array[k] = v]
  ELSE [T EXCEPT !.nodes[Find(T, k)].value = v]

SwapValues(i, j) ==
  /\ {i, j} \subseteq Fields
  /\ Store(SetExisting(SetExisting(Table, i, Lookup(Table, j)), j, Lookup(Table, i)))
  /\ content' = [content EXCEPT ![i] = content[j], ![j] = content[i]]
  /\ UNCHANGED <<swept, cursor, rest>>

(***************************************************************************)
(* SETLIST makes the array long enough and fills it.  The integer keys a   *)
(* mixed constructor has set before stay in the hash part, though the      *)
(* array covers them now.                                                  *)
(***************************************************************************)
SetList(first, list) ==
  LET last == first + Len(list) - 1
      at(i) == list[i - first + 1]
      longer == [i \in 1 .. Max({last, Len(array)}) |->
                   IF i \in first .. last THEN at(i)
                   ELSE IF i <= Len(array) THEN array[i] ELSE Nil]
      kept == {i \in first .. last : at(i) # Nil}
  IN /\ Idle /\ last \in IntKeys
     /\ Mixed \/ \A i \in DOMAIN nodes : nodes[i].key \notin DOMAIN longer
     /\ array' = longer
     /\ content' = [i \in kept |-> at(i)] @@ Restrict(content, Fields \ (first .. last))
     /\ UNCHANGED <<nodes, lastFree, swept, cursor, rest>>

(***************************************************************************)
(* The collector clears the dead fields of a weak table, and keeps their   *)
(* nodes.                                                                  *)
(***************************************************************************)
\* Slip: the node goes with its field.
EmptiedWhole(node) == Free

Emptied(node) == [node EXCEPT !.value = Nil]

ClearWeak(K) ==
  /\ K # {} /\ K \subseteq Fields
  /\ array' = [i \in DOMAIN array |-> IF i \in K THEN Nil ELSE array[i]]
  /\ nodes' = [i \in DOMAIN nodes |->
                 IF nodes[i].key \in K THEN Emptied(nodes[i]) ELSE nodes[i]]
  /\ content' = Restrict(content, Fields \ K)
  /\ rest' = Without(K)
  /\ UNCHANGED <<lastFree, swept, cursor>>

(***************************************************************************)
(* A string whose field is nil may be swept, unless the program holds it;  *)
(* once no node names it, it stands for a new string of the same content.  *)
(***************************************************************************)
Named(s) == \E i \in DOMAIN nodes : nodes[i].key = s

Sweep(s) ==
  /\ s \notin swept /\ Named(s) /\ s \notin Fields /\ s # cursor
  /\ swept' = swept \union {s}
  /\ UNCHANGED <<parts, cursor, content, rest>>

Intern(s) ==
  /\ s \in swept /\ ~Named(s)
  /\ swept' = swept \ {s}
  /\ UNCHANGED <<parts, cursor, content, rest>>

(***************************************************************************)
(* A traversal: pairs, and then next with the key it gave before, which    *)
(* raises an error when the table has lost that key.                       *)
(***************************************************************************)
Pairs ==
  /\ Idle
  /\ cursor' = Nil /\ rest' = Fields
  /\ UNCHANGED <<parts, swept, content>>

LuaNext ==
  LET lost == FindIndex(Table, cursor) = None
      n == NextPlace(Table, cursor)
  IN /\ ~Idle
     /\ \/ lost /\ cursor' = Failed /\ rest' = Nil
        \/ ~lost /\ n = None /\ cursor' = Off /\ rest' = Nil
        \/ ~lost /\ n # None /\ cursor' = Places(Table)[n].key /\ rest' = Without({cursor'})
     /\ UNCHANGED <<parts, swept, content>>

Next ==
  \/ \E k \in Keys : \E v \in Values[k] \union {Nil} : Set(k, v)
  \/ \E i, j \in IntKeys : SwapValues(i, j)
  \/ \E first \in IntKeys, list \in Lists : SetList(first, list)
  \/ \E K \in SUBSET Keys : ClearWeak(K)
  \/ \E s \in StrKeys : Sweep(s) \/ Intern(s)
  \/ Pairs \/ LuaNext

Spec == Init /\ [][Next]_vars

-----------------------------------------------------------------------------
(***************************************************************************)
(* Properties.                                                             *)
(***************************************************************************)

(***************************************************************************)
(* A lookup finds what the program stored last, for every key, through     *)
(* collisions, moved and reused nodes, rehashes, and fields that move      *)
(* between the parts (get, raw_set_impl, new_key, rehash, resize).         *)
(***************************************************************************)
Faithful ==
  \A k \in Keys \ swept :
    Lookup(Table, k) = IF k \in Fields THEN content[k] ELSE Nil

(***************************************************************************)
(* As long as the program only assigns to fields that exist, clears some,  *)
(* and the collector clears others and sweeps their keys, next shows each  *)
(* field that stays once, never fails, and ends when all have been shown   *)
(* (next, find_index).                                                     *)
(***************************************************************************)
Visits ==
  [][~Idle /\ cursor' # cursor /\ rest # Nil
       => IF cursor' = Off THEN rest = {} ELSE cursor' \in rest]_vars

(***************************************************************************)
(* The length is a border: a field is there, unless it is 0, and none      *)
(* follows it (len, unbound_search).                                       *)
(***************************************************************************)
LengthIsBorder ==
  LET n == Length(Table)
  IN n \in Fields \union {0} /\ n + 1 \notin Fields

=============================================================================
