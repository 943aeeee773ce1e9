----------------------------------- MODULE LRU -----------------------------------
(***************************************************************************)
(* cache-eviction-policy/lru.go: LRUCache, a map and a doubly linked list.  *)
(*                                                                          *)
(* A node is named by its key: the code makes at most one for each key the  *)
(* map holds, and drops a node together with its map entry.  The cache has  *)
(* no lock, so an operation is one step; the pointer assignments inside it  *)
(* are made one after the other on a list, as the code orders them.         *)
(***************************************************************************)
EXTENDS Integers, FiniteSets, Sequences, SequencesExt

CONSTANTS
  Keys,     \* keys
  Values,   \* values
  Capacity, \* capacity
  NIL       \* the nil pointer

\* What the constants must be.
LRUAssumption ==
  /\ NIL \notin Keys
  /\ Values \subseteq Int
  /\ Capacity \in Nat

VARIABLES
  cache,   \* keys of the map; each maps to the node of its name
  value,   \* value[n], and
  list,    \* head, tail, and prev[n] and next[n] for the nodes
  result   \* what the last Get returned

vars == <<cache, value, list, result>>

Init ==
  /\ cache = {}
  /\ value = [n \in Keys |-> 0]
  /\ list = [head |-> NIL, tail |-> NIL,
             prev |-> [n \in Keys |-> NIL], next |-> [n \in Keys |-> NIL]]
  /\ result = -1

-----------------------------------------------------------------------------
\* The list operations, from a list to the list after them.

SetPrev(l, n, p) == IF n = NIL THEN l ELSE [l EXCEPT !.prev[n] = p]
SetNext(l, n, p) == IF n = NIL THEN l ELSE [l EXCEPT !.next[n] = p]

\* addToHead; moveToHead ends with the same assignments.
AddToHead(l, n) ==
  LET linked == SetPrev([l EXCEPT !.prev[n] = NIL, !.next[n] = l.head], l.head, n)
  IN  [linked EXCEPT !.head = n, !.tail = IF @ = NIL THEN n ELSE @]

\* Mutant: tail is left on a node that moves to the head.
MoveKeepingTail(l, n) ==
  IF n = l.head THEN l
  ELSE AddToHead(SetPrev(SetNext(l, l.prev[n], l.next[n]), l.next[n], l.prev[n]), n)

MoveToHead(l, n) ==
  IF n = l.head THEN l
  ELSE LET out == SetPrev(SetNext(l, l.prev[n], l.next[n]), l.next[n], l.prev[n])
       IN  AddToHead([out EXCEPT !.tail = IF @ = n THEN out.prev[n] ELSE @], n)

\* Mutant: the new tail keeps pointing at the removed node.
RemoveTailLinked(l) ==
  IF l.head = l.tail THEN [l EXCEPT !.head = NIL, !.tail = NIL]
  ELSE [l EXCEPT !.tail = l.prev[l.tail], !.prev[l.tail] = NIL, !.next[l.tail] = NIL]

\* Called on a list that is not empty.
RemoveTail(l) ==
  IF l.head = l.tail THEN [l EXCEPT !.head = NIL, !.tail = NIL]
  ELSE LET cut == SetNext([l EXCEPT !.tail = l.prev[l.tail]], l.prev[l.tail], NIL)
       IN  [cut EXCEPT !.prev[l.tail] = NIL, !.next[l.tail] = NIL]

-----------------------------------------------------------------------------
Get(k) ==
  /\ IF k \in cache
     THEN list' = MoveToHead(list, k) /\ result' = value[k]
     ELSE result' = -1 /\ UNCHANGED list
  /\ UNCHANGED <<cache, value>>

\* The key is held: its value changes, and it is the most recent.
Update(k, v) ==
  /\ k \in cache
  /\ value' = [value EXCEPT ![k] = v]
  /\ list' = MoveToHead(list, k)
  /\ UNCHANGED <<cache, result>>

\* A new key pushes out the tail when the map has grown over its capacity.
Insert(k, v) ==
  /\ k \notin cache
  /\ value' = [value EXCEPT ![k] = v]
  /\ LET added == AddToHead(list, k)
         over == Cardinality(cache) + 1 > Capacity
     IN  /\ cache' = (cache \cup {k}) \ (IF over THEN {added.tail} ELSE {})
         /\ list' = IF over THEN RemoveTail(added) ELSE added
  /\ UNCHANGED result

Next == \E k \in Keys : Get(k) \/ \E v \in Values : Update(k, v) \/ Insert(k, v)

Spec == Init /\ [][Next]_vars

-----------------------------------------------------------------------------
\* next leads along order, from head to the end.
Follows(order, l) ==
  /\ l.head = IF order = <<>> THEN NIL ELSE order[1]
  /\ \A i \in DOMAIN order :
       l.next[order[i]] = IF i = Len(order) THEN NIL ELSE order[i + 1]

\* prev leads back along it, from tail.
LeadsBack(order, l) ==
  /\ l.tail = IF order = <<>> THEN NIL ELSE order[Len(order)]
  /\ \A i \in DOMAIN order : l.prev[order[i]] = IF i = 1 THEN NIL ELSE order[i - 1]

Orders == SeqOf(Keys, Capacity)

\* Map and list agree after every operation: next leads once through the keys of
\* the map, no more than Capacity of them, and prev back.  A wrong pointer shows
\* only operations later, as a lost or an undying entry.
ListMatchesMap ==
  \E order \in Orders :
    /\ Follows(order, list) /\ LeadsBack(order, list)
    /\ IsInjective(order) /\ ToSet(order) = cache

\* The keys from head along next.
Chain(l) == CHOOSE order \in Orders : Follows(order, l)

\* The cache is the abstract one: what is evicted is what was used longest ago,
\* and Get returns the value that was put last.
Recency == INSTANCE RecencyList WITH
  entries <- [i \in DOMAIN Chain(list) |->
                [key |-> Chain(list)[i], value |-> value[Chain(list)[i]]]],
  answer <- result,
  MISSING <- -1

ImplementsRecencyList == Recency!Spec
==================================================================================
