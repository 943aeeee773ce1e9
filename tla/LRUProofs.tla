------------------------------- MODULE LRUProofs -------------------------------
(***************************************************************************)
(* Proofs about LRU, for any keys, values and capacity: the map and the     *)
(* doubly linked list agree after every operation, and the cache implements *)
(* RecencyList.                                                             *)
(*                                                                         *)
(* The pointers are described by the sequence they thread (Follows,         *)
(* LeadsBack).  A lemma for each list operation says which sequence is      *)
(* threaded after it; there is only one (ChainIs), so the refinement        *)
(* mapping, which follows the pointers, finds it.                           *)
(***************************************************************************)
EXTENDS LRU, FiniteSetTheorems, FunctionTheorems, SequenceTheorems, WellFoundedInduction, TLAPS

Pointers == Keys \cup {NIL}
Lists == [head : Pointers, tail : Pointers, prev : [Keys -> Pointers], next : [Keys -> Pointers]]

\* A list is threaded by a sequence of keys, each once.
Threads(order, l) ==
  order \in Seq(Keys) /\ IsInjective(order) /\ Follows(order, l) /\ LeadsBack(order, l)

-----------------------------------------------------------------------------
\* RemoveAt and Front, entry by entry.
LEMMA RemoveAtEntries ==
  ASSUME NEW S, NEW s \in Seq(S), NEW p \in 1..Len(s)
  PROVE  /\ RemoveAt(s, p) \in Seq(S)
         /\ Len(RemoveAt(s, p)) = Len(s) - 1
         /\ \A i \in 1..(Len(s) - 1) : RemoveAt(s, p)[i] = s[IF i < p THEN i ELSE i + 1]
<1> DEFINE t == SubSeq(s, 1, p - 1)
           u == SubSeq(s, p + 1, Len(s))
<1>1. Len(s) \in Nat /\ p \in Nat /\ 1 <= p /\ p <= Len(s) /\ \A i \in 1..Len(s) : s[i] \in S
  BY ElementOfSeq
<1>2. t \in Seq(S) /\ Len(t) = p - 1 /\ \A i \in 1..(p - 1) : t[i] = s[i]
  BY <1>1, SubSeqProperties
<1>3. u \in Seq(S) /\ Len(u) = Len(s) - p /\ \A i \in 1..(Len(s) - p) : u[i] = s[p + i]
  BY <1>1, SubSeqProperties
<1> HIDE DEF t, u
<1>4. /\ t \o u \in Seq(S) /\ Len(t \o u) = Len(s) - 1
      /\ \A i \in 1..(Len(s) - 1) : (t \o u)[i] = IF i <= p - 1 THEN t[i] ELSE u[i - (p - 1)]
  <2>1. Len(t) + Len(u) = Len(s) - 1
    BY <1>1, <1>2, <1>3
  <2>2. /\ t \o u \in Seq(S) /\ Len(t \o u) = Len(t) + Len(u)
        /\ \A i \in 1..(Len(t) + Len(u)) :
             (t \o u)[i] = IF i <= Len(t) THEN t[i] ELSE u[i - Len(t)]
    BY <1>2, <1>3, ConcatProperties
  <2>3. QED
    BY <1>2, <2>1, <2>2
<1> DEFINE w == t \o u
<1> HIDE DEF w
<1>5. ASSUME NEW i \in 1..(Len(s) - 1)
      PROVE  w[i] = s[IF i < p THEN i ELSE i + 1]
  <2>1. CASE i < p
    BY <1>1, <1>2, <1>4, <2>1 DEF w
  <2>2. CASE ~(i < p)
    <3>1. i - (p - 1) \in 1..(Len(s) - p) /\ p + (i - (p - 1)) = i + 1
      BY <1>1, <2>2
    <3>2. w[i] = u[i - (p - 1)]
      BY <1>1, <1>4, <2>2 DEF w
    <3>3. QED
      BY <1>3, <2>2, <3>1, <3>2
  <2>3. QED
    BY <2>1, <2>2
<1>6. QED
  BY <1>4, <1>5 DEF RemoveAt, t, u, w

LEMMA FrontEntries ==
  ASSUME NEW S, NEW s \in Seq(S), s # <<>>
  PROVE  /\ Front(s) \in Seq(S)
         /\ Len(Front(s)) = Len(s) - 1
         /\ \A i \in 1..(Len(s) - 1) : Front(s)[i] = s[i]
<1> DEFINE t == SubSeq(s, 1, Len(s) - 1)
<1>1. Len(s) \in Nat \ {0} /\ \A i \in 1..Len(s) : s[i] \in S
  BY EmptySeq, LenProperties, ElementOfSeq
<1>2. t \in Seq(S) /\ Len(t) = Len(s) - 1 /\ \A i \in 1..(Len(s) - 1) : t[i] = s[i]
  <2> DEFINE n == Len(s) - 1
  <2>1. n \in Nat /\ n - 1 + 1 = n /\ \A i \in 1..n : s[i] \in S /\ 1 + i - 1 = i
    BY <1>1
  <2> HIDE DEF n
  <2>2. /\ SubSeq(s, 1, n) \in Seq(S)
        /\ Len(SubSeq(s, 1, n)) = IF 1 <= n THEN n - 1 + 1 ELSE 0
        /\ \A i \in 1..(n - 1 + 1) : SubSeq(s, 1, n)[i] = s[1 + i - 1]
    BY <2>1, SubSeqProperties
  <2>3. SubSeq(s, 1, n) \in Seq(S) /\ Len(SubSeq(s, 1, n)) = n
        /\ \A i \in 1..n : SubSeq(s, 1, n)[i] = s[i]
    BY <2>1, <2>2
  <2>4. QED
    BY <2>3 DEF n
<1>3. QED
  BY <1>2 DEF Front

\* addToHead: what it assigns, and the sequence it leaves.
LEMMA AddToHeadAssigns ==
  ASSUME LRUAssumption, NEW l \in Lists, NEW n \in Keys
  PROVE  LET a == AddToHead(l, n)
         IN  /\ a \in Lists
             /\ a.head = n
             /\ a.tail = IF l.tail = NIL THEN n ELSE l.tail
             /\ a.next = [l.next EXCEPT ![n] = l.head]
             /\ a.prev = IF l.head = NIL THEN [l.prev EXCEPT ![n] = NIL]
                         ELSE [l.prev EXCEPT ![n] = NIL, ![l.head] = n]
BY DEF LRUAssumption, Lists, Pointers, AddToHead, SetPrev

\* Threads, entry by entry.
LEMMA ThreadsMeans ==
  ASSUME NEW order \in Seq(Keys), NEW l
  PROVE  Threads(order, l) <=>
           /\ \A i, j \in 1..Len(order) : order[i] = order[j] => i = j
           /\ l.head = IF Len(order) = 0 THEN NIL ELSE order[1]
           /\ l.tail = IF Len(order) = 0 THEN NIL ELSE order[Len(order)]
           /\ \A i \in 1..Len(order) :
                /\ order[i] \in Keys
                /\ l.next[order[i]] = IF i = Len(order) THEN NIL ELSE order[i + 1]
                /\ l.prev[order[i]] = IF i = 1 THEN NIL ELSE order[i - 1]
BY SMTT(30) DEF Threads, Follows, LeadsBack, IsInjective

LEMMA AddToHeadThreads ==
  ASSUME LRUAssumption, NEW l \in Lists, NEW order, Threads(order, l),
         NEW n \in Keys, \A i \in DOMAIN order : order[i] # n
  PROVE  Threads(<<n>> \o order, AddToHead(l, n))
<1> DEFINE a == AddToHead(l, n)
           new == <<n>> \o order
           size == Len(order)
<1>1. order \in Seq(Keys) /\ size \in Nat
  BY DEF Threads
<1>2. /\ new \in Seq(Keys) /\ Len(new) = size + 1 /\ new[1] = n
      /\ \A i \in 2..(size + 1) : new[i] = order[i - 1]
  BY <1>1
<1>3. /\ \A i, j \in 1..size : order[i] = order[j] => i = j
      /\ l.head = IF size = 0 THEN NIL ELSE order[1]
      /\ l.tail = IF size = 0 THEN NIL ELSE order[size]
      /\ \A i \in 1..size :
           /\ order[i] \in Keys /\ order[i] # n
           /\ l.next[order[i]] = IF i = size THEN NIL ELSE order[i + 1]
           /\ l.prev[order[i]] = IF i = 1 THEN NIL ELSE order[i - 1]
  BY <1>1, ThreadsMeans
<1>4. /\ a.head = n
      /\ a.tail = IF l.tail = NIL THEN n ELSE l.tail
      /\ a.next = [l.next EXCEPT ![n] = l.head]
      /\ a.prev = IF l.head = NIL THEN [l.prev EXCEPT ![n] = NIL]
                  ELSE [l.prev EXCEPT ![n] = NIL, ![l.head] = n]
      /\ l.next \in [Keys -> Pointers] /\ l.prev \in [Keys -> Pointers] /\ NIL \notin Keys
  BY AddToHeadAssigns DEF LRUAssumption, Lists
<1> HIDE DEF a, new, size
<1>5. ASSUME NEW i \in 1..Len(new), NEW j \in 1..Len(new), new[i] = new[j]
      PROVE  i = j
  <2>1. ASSUME NEW k \in 2..(size + 1) PROVE k - 1 \in 1..size /\ new[k] # n
    <3>1. k - 1 \in 1..size /\ new[k] = order[k - 1]
      BY <1>1, <1>2
    <3>2. QED
      BY <1>3, <3>1
  <2>2. CASE i = 1 \/ j = 1
    BY <1>1, <1>2, <1>5, <2>1, <2>2
  <2>3. CASE i > 1 /\ j > 1
    <3>1. order[i - 1] = order[j - 1] /\ i - 1 \in 1..size /\ j - 1 \in 1..size
      BY <1>1, <1>2, <1>5, <2>1, <2>3
    <3>2. i - 1 = j - 1
      BY <1>3, <3>1
    <3>3. QED
      BY <1>1, <1>2, <3>2
  <2>4. QED
    BY <1>1, <1>2, <2>2, <2>3
<1>6. /\ a.head = IF Len(new) = 0 THEN NIL ELSE new[1]
      /\ a.tail = IF Len(new) = 0 THEN NIL ELSE new[Len(new)]
  BY <1>1, <1>2, <1>3, <1>4
<1>7. ASSUME NEW i \in 1..Len(new)
      PROVE  /\ new[i] \in Keys
             /\ a.next[new[i]] = IF i = Len(new) THEN NIL ELSE new[i + 1]
             /\ a.prev[new[i]] = IF i = 1 THEN NIL ELSE new[i - 1]
  <2>1. CASE i = 1
    BY <1>1, <1>2, <1>3, <1>4, <2>1
  <2>2. CASE i > 1
    <3>1. new[i] = order[i - 1] /\ i - 1 \in 1..size /\ order[i - 1] \in Keys /\ order[i - 1] # n
      BY <1>1, <1>2, <1>3, <2>2
    <3>2. a.next[new[i]] = IF i = Len(new) THEN NIL ELSE new[i + 1]
      BY <1>1, <1>2, <1>3, <1>4, <2>2, <3>1
    <3>3. a.prev[new[i]] = new[i - 1]
      BY <1>1, <1>2, <1>3, <1>4, <2>2, <3>1, SMTT(30)
    <3>4. QED
      BY <2>2, <3>1, <3>2, <3>3
  <2>3. QED
    BY <1>1, <1>2, <2>1, <2>2
<1>8. QED
  BY <1>2, <1>5, <1>6, <1>7, ThreadsMeans DEF a, new

-----------------------------------------------------------------------------
\* removeTail: what it assigns, and the sequence it leaves.
LEMMA RemoveTailAssigns ==
  ASSUME LRUAssumption, NEW l \in Lists, l.tail # NIL, l.head # l.tail,
         l.prev[l.tail] # NIL
  PROVE  LET a == RemoveTail(l)
         IN  /\ a \in Lists
             /\ a.head = l.head
             /\ a.tail = l.prev[l.tail]
             /\ a.next = [l.next EXCEPT ![l.prev[l.tail]] = NIL, ![l.tail] = NIL]
             /\ a.prev = [l.prev EXCEPT ![l.tail] = NIL]
BY DEF LRUAssumption, Lists, Pointers, RemoveTail, SetNext

LEMMA RemoveTailThreads ==
  ASSUME LRUAssumption, NEW l \in Lists, NEW order, Threads(order, l), order # <<>>
  PROVE  Threads(Front(order), RemoveTail(l)) /\ RemoveTail(l) \in Lists
<1> DEFINE a == RemoveTail(l)
           new == Front(order)
           size == Len(order)
<1>1. order \in Seq(Keys) /\ size \in Nat \ {0}
  BY DEF Threads
<1>2. /\ new \in Seq(Keys) /\ Len(new) = size - 1
      /\ \A i \in 1..(size - 1) : new[i] = order[i]
  BY <1>1, FrontEntries
<1>3. /\ \A i, j \in 1..size : order[i] = order[j] => i = j
      /\ l.head = order[1]
      /\ l.tail = order[size]
      /\ \A i \in 1..size :
           /\ order[i] \in Keys
           /\ l.next[order[i]] = IF i = size THEN NIL ELSE order[i + 1]
           /\ l.prev[order[i]] = IF i = 1 THEN NIL ELSE order[i - 1]
      /\ l.next \in [Keys -> Pointers] /\ l.prev \in [Keys -> Pointers] /\ NIL \notin Keys
  BY <1>1, ThreadsMeans DEF LRUAssumption, Lists
<1>4. CASE size = 1
  <2>1. a = [l EXCEPT !.head = NIL, !.tail = NIL]
    BY <1>3, <1>4 DEF RemoveTail
  <2>2. a.head = NIL /\ a.tail = NIL /\ a \in Lists
    BY <2>1 DEF Lists, Pointers
  <2>3. Len(new) = 0
    BY <1>2, <1>4
  <2> HIDE DEF a, new, size
  <2>4. \A i \in 1..Len(new) : FALSE
    BY <2>3
  <2>5. Threads(new, a)
    BY <1>2, <2>2, <2>3, <2>4, ThreadsMeans
  <2>6. QED
    BY <2>2, <2>5 DEF a, new
<1>5. CASE size > 1
  <2>1. l.prev[l.tail] = order[size - 1] /\ size - 1 \in 1..size /\ size \in 1..size /\ 1 \in 1..size
    BY <1>1, <1>3, <1>5
  <2>2. l.tail # NIL /\ l.head # l.tail /\ l.prev[l.tail] # NIL
    BY <1>1, <1>3, <1>5, <2>1
  <2>3. /\ a \in Lists
        /\ a.head = order[1]
        /\ a.tail = order[size - 1]
        /\ a.next = [l.next EXCEPT ![order[size - 1]] = NIL, ![order[size]] = NIL]
        /\ a.prev = [l.prev EXCEPT ![order[size]] = NIL]
    <3>1. /\ a \in Lists
          /\ a.head = l.head
          /\ a.tail = l.prev[l.tail]
          /\ a.next = [l.next EXCEPT ![l.prev[l.tail]] = NIL, ![l.tail] = NIL]
          /\ a.prev = [l.prev EXCEPT ![l.tail] = NIL]
      BY <2>2, RemoveTailAssigns
    <3> HIDE DEF a
    <3>2. QED
      BY <1>3, <2>1, <3>1
  <2> HIDE DEF a, new, size
  <2>4. ASSUME NEW i \in 1..(size - 1)
        PROVE  /\ a.next[order[i]] = IF i = size - 1 THEN NIL ELSE order[i + 1]
               /\ a.prev[order[i]] = IF i = 1 THEN NIL ELSE order[i - 1]
    <3>1. i \in 1..size /\ order[i] # order[size] /\ (i # size - 1 => order[i] # order[size - 1])
      BY <1>1, <1>3, <2>1
    <3>2. a.next[order[i]] = IF i = size - 1 THEN NIL ELSE l.next[order[i]]
      BY <1>3, <2>1, <2>3, <3>1
    <3>3. a.prev[order[i]] = l.prev[order[i]]
      BY <1>3, <2>1, <2>3, <3>1
    <3>4. QED
      BY <1>1, <1>3, <3>1, <3>2, <3>3
  <2>5. /\ a.head = IF Len(new) = 0 THEN NIL ELSE new[1]
        /\ a.tail = IF Len(new) = 0 THEN NIL ELSE new[Len(new)]
        /\ \A i, j \in 1..Len(new) : new[i] = new[j] => i = j
    BY <1>1, <1>2, <1>3, <1>5, <2>3
  <2>6. ASSUME NEW i \in 1..Len(new)
        PROVE  /\ new[i] \in Keys
               /\ a.next[new[i]] = IF i = Len(new) THEN NIL ELSE new[i + 1]
               /\ a.prev[new[i]] = IF i = 1 THEN NIL ELSE new[i - 1]
    <3>1. i \in 1..(size - 1) /\ i \in 1..size /\ new[i] = order[i] /\ order[i] \in Keys
      BY <1>1, <1>2, <1>3
    <3>2. i # size - 1 => i + 1 \in 1..(size - 1) /\ new[i + 1] = order[i + 1]
      BY <1>1, <1>2, <3>1
    <3>3. i # 1 => i - 1 \in 1..(size - 1) /\ new[i - 1] = order[i - 1]
      BY <1>1, <1>2, <3>1
    <3>4. Len(new) = size - 1
      BY <1>2
    <3>5. QED
      BY <2>4, <3>1, <3>2, <3>3, <3>4
  <2>7. QED
    BY <1>2, <2>3, <2>5, <2>6, ThreadsMeans DEF a, new
<1>6. QED
  BY <1>1, <1>4, <1>5

-----------------------------------------------------------------------------
\* moveToHead for a node behind the head: the part that takes it out.
Out(l, n) ==
  LET out == SetPrev(SetNext(l, l.prev[n], l.next[n]), l.next[n], l.prev[n])
  IN  [out EXCEPT !.tail = IF @ = n THEN out.prev[n] ELSE @]

LEMMA OutAssigns ==
  ASSUME LRUAssumption, NEW l \in Lists, NEW n \in Keys,
         l.prev[n] # NIL, l.next[n] # n
  PROVE  LET a == Out(l, n)
         IN  /\ a \in Lists
             /\ a.head = l.head
             /\ a.tail = IF l.tail = n THEN l.prev[n] ELSE l.tail
             /\ a.next = [l.next EXCEPT ![l.prev[n]] = l.next[n]]
             /\ a.prev = IF l.next[n] = NIL THEN l.prev
                         ELSE [l.prev EXCEPT ![l.next[n]] = l.prev[n]]
BY DEF LRUAssumption, Lists, Pointers, Out, SetNext, SetPrev

LEMMA OutThreads ==
  ASSUME LRUAssumption, NEW l \in Lists, NEW order, Threads(order, l),
         NEW p \in 2..Len(order)
  PROVE  Threads(RemoveAt(order, p), Out(l, order[p])) /\ Out(l, order[p]) \in Lists
<1> DEFINE n == order[p]
           a == Out(l, n)
           new == RemoveAt(order, p)
           size == Len(order)
<1>1. order \in Seq(Keys) /\ size \in Nat /\ p \in 2..size
  BY DEF Threads
<1>2. /\ new \in Seq(Keys) /\ Len(new) = size - 1
      /\ \A i \in 1..(size - 1) : new[i] = order[IF i < p THEN i ELSE i + 1]
  BY <1>1, RemoveAtEntries
<1>3. /\ \A i, j \in 1..size : order[i] = order[j] => i = j
      /\ l.head = order[1]
      /\ l.tail = order[size]
      /\ \A i \in 1..size :
           /\ order[i] \in Keys
           /\ l.next[order[i]] = IF i = size THEN NIL ELSE order[i + 1]
           /\ l.prev[order[i]] = IF i = 1 THEN NIL ELSE order[i - 1]
      /\ l.next \in [Keys -> Pointers] /\ l.prev \in [Keys -> Pointers] /\ NIL \notin Keys
  BY <1>1, ThreadsMeans DEF LRUAssumption, Lists
<1>4. /\ p - 1 \in 1..size /\ order[p - 1] \in Keys /\ order[p] \in Keys
      /\ l.prev[n] = order[p - 1]
      /\ l.next[n] = IF p = size THEN NIL ELSE order[p + 1]
      /\ p # size => p + 1 \in 1..size /\ order[p + 1] \in Keys
  BY <1>1, <1>3
<1>5. /\ a \in Lists
      /\ a.head = order[1]
      /\ a.tail = IF p = size THEN order[size - 1] ELSE order[size]
      /\ a.next = [l.next EXCEPT ![order[p - 1]] = l.next[n]]
      /\ a.prev = IF p = size THEN l.prev
                  ELSE [l.prev EXCEPT ![order[p + 1]] = order[p - 1]]
  <2>1. l.prev[n] # NIL /\ l.next[n] # n /\ (l.next[n] = NIL <=> p = size)
    BY <1>1, <1>3, <1>4
  <2>2. l.tail = n <=> p = size
    BY <1>1, <1>3
  <2>3. QED
    <3>1. /\ a \in Lists
          /\ a.head = l.head
          /\ a.tail = IF l.tail = n THEN l.prev[n] ELSE l.tail
          /\ a.next = [l.next EXCEPT ![l.prev[n]] = l.next[n]]
          /\ a.prev = IF l.next[n] = NIL THEN l.prev
                      ELSE [l.prev EXCEPT ![l.next[n]] = l.prev[n]]
      BY <1>4, <2>1, OutAssigns
    <3> HIDE DEF a, n
    <3>2. a.tail = IF p = size THEN order[size - 1] ELSE order[size]
      BY <1>3, <1>4, <2>2, <3>1
    <3>3. QED
      BY <1>3, <1>4, <2>1, <3>1, <3>2
<1> HIDE DEF a, new, size, n
<1>6. /\ a.head = IF Len(new) = 0 THEN NIL ELSE new[1]
      /\ a.tail = IF Len(new) = 0 THEN NIL ELSE new[Len(new)]
  BY <1>1, <1>2, <1>5
<1>8. ASSUME NEW i \in 1..(size - 1), NEW j \in 1..(size - 1), new[i] = new[j]
      PROVE  i = j
  <2> DEFINE m == IF i < p THEN i ELSE i + 1
             k == IF j < p THEN j ELSE j + 1
  <2>1. m \in 1..size /\ k \in 1..size /\ new[i] = order[m] /\ new[j] = order[k]
    BY <1>1, <1>2
  <2> HIDE DEF m, k
  <2>2. m = k
    <3>1. \A x, y \in 1..size : order[x] = order[y] => x = y
      BY <1>3
    <3>2. QED
      BY <1>8, <2>1, <3>1
  <2>3. QED
    BY <1>1, <2>2 DEF m, k
<1>9. ASSUME NEW i \in 1..(size - 1)
      PROVE  /\ new[i] \in Keys
             /\ a.next[new[i]] = IF i = size - 1 THEN NIL ELSE new[i + 1]
             /\ a.prev[new[i]] = IF i = 1 THEN NIL ELSE new[i - 1]
  <2> DEFINE m == IF i < p THEN i ELSE i + 1
  <2>1. m \in 1..size /\ m # p /\ new[i] = order[m] /\ order[m] \in Keys
    BY <1>1, <1>2, <1>3
  <2>2. a.next[order[m]] = IF m = p - 1 THEN l.next[n] ELSE l.next[order[m]]
    <3>1. m # p - 1 => order[m] # order[p - 1]
      BY <1>3, <1>4, <2>1
    <3>2. QED
      BY <1>3, <1>4, <1>5, <2>1, <3>1
  <2>3. a.prev[order[m]] = IF m = p + 1 THEN order[p - 1] ELSE l.prev[order[m]]
    <3>1. m # p + 1 /\ p # size => order[m] # order[p + 1]
      BY <1>3, <1>4, <2>1
    <3>2. p = size => m # p + 1
      BY <1>1, <2>1
    <3>3. QED
      BY <1>3, <1>4, <1>5, <2>1, <3>1, <3>2
  <2>4. /\ l.next[order[m]] = IF m = size THEN NIL ELSE order[m + 1]
        /\ l.prev[order[m]] = IF m = 1 THEN NIL ELSE order[m - 1]
    BY <1>3, <2>1
  <2>5. CASE i = p - 1
    <3>1. m = p - 1 /\ (i # size - 1 => new[i + 1] = order[p + 1]) /\ (i = size - 1 <=> p = size)
      BY <1>1, <1>2, <2>5
    <3>2. i # 1 => new[i - 1] = order[m - 1]
      BY <1>1, <1>2, <2>5, <3>1
    <3>3. a.next[order[m]] = l.next[n] /\ a.prev[order[m]] = l.prev[order[m]]
      BY <1>1, <2>2, <2>3, <3>1
    <3> HIDE DEF m
    <3>4. QED
      BY <1>1, <1>4, <2>1, <2>4, <2>5, <3>1, <3>2, <3>3
  <2>6. CASE i = p
    <3>1. m = p + 1 /\ new[i - 1] = order[p - 1] /\ i # 1
      BY <1>1, <1>2, <2>6
    <3>2. i # size - 1 => new[i + 1] = order[m + 1]
      BY <1>1, <1>2, <2>6, <3>1
    <3>3. a.next[order[m]] = l.next[order[m]] /\ a.prev[order[m]] = order[p - 1]
      BY <1>1, <2>2, <2>3, <3>1
    <3> HIDE DEF m
    <3>4. QED
      BY <1>1, <2>1, <2>4, <2>6, <3>1, <3>2, <3>3
  <2>7. CASE i # p - 1 /\ i # p
    <3>1. m # p - 1 /\ m # p + 1 /\ (m = size <=> i = size - 1) /\ (m = 1 <=> i = 1)
      BY <1>1, <2>7
    <3>2. (i # size - 1 => new[i + 1] = order[m + 1]) /\ (i # 1 => new[i - 1] = order[m - 1])
      BY <1>1, <1>2, <2>7
    <3>3. a.next[order[m]] = l.next[order[m]] /\ a.prev[order[m]] = l.prev[order[m]]
      BY <2>2, <2>3, <3>1
    <3> HIDE DEF m
    <3>4. QED
      BY <2>1, <2>4, <3>1, <3>2, <3>3
  <2>8. QED
    BY <2>5, <2>6, <2>7
<1>10. Threads(new, a)
  <2>1. Len(new) = size - 1
    BY <1>2
  <2>2. \A i, j \in 1..Len(new) : new[i] = new[j] => i = j
    BY <1>8, <2>1
  <2>3. \A i \in 1..Len(new) :
           /\ new[i] \in Keys
           /\ a.next[new[i]] = IF i = Len(new) THEN NIL ELSE new[i + 1]
           /\ a.prev[new[i]] = IF i = 1 THEN NIL ELSE new[i - 1]
    BY <1>9, <2>1
  <2>4. QED
    BY <1>2, <1>6, <2>2, <2>3, ThreadsMeans
<1>11. QED
  BY <1>5, <1>10 DEF a, new, n

\* moveToHead puts the node it is given first and leaves the others' order.
LEMMA MoveToHeadThreads ==
  ASSUME LRUAssumption, NEW l \in Lists, NEW order, Threads(order, l),
         NEW p \in DOMAIN order
  PROVE  /\ Threads(<<order[p]>> \o RemoveAt(order, p), MoveToHead(l, order[p]))
         /\ MoveToHead(l, order[p]) \in Lists
<1> DEFINE rest == RemoveAt(order, p)
<1>1. /\ order \in Seq(Keys) /\ Len(order) \in Nat /\ p \in 1..Len(order) /\ 1 \in 1..Len(order)
      /\ order[p] \in Keys
      /\ \A i, j \in 1..Len(order) : order[i] = order[j] => i = j
      /\ l.head = order[1]
  BY DEF Threads, Follows, IsInjective
<1>2. /\ rest \in Seq(Keys) /\ Len(rest) = Len(order) - 1
      /\ \A i \in 1..(Len(order) - 1) : rest[i] = order[IF i < p THEN i ELSE i + 1]
  BY <1>1, RemoveAtEntries
<1> HIDE DEF rest
<1>3. CASE p = 1
  <2>1. MoveToHead(l, order[p]) = l
    BY <1>1, <1>3 DEF MoveToHead
  <2>2. Len(<<order[1]>> \o rest) = Len(order) /\ <<order[1]>> \o rest \in Seq(Keys)
        /\ \A i \in 1..Len(order) : (<<order[1]>> \o rest)[i] = order[i]
    BY <1>1, <1>2, <1>3, SMTT(30)
  <2>3. <<order[1]>> \o rest = order
    BY <1>1, <2>2, SeqEqual
  <2>4. QED
    BY <1>3, <2>1, <2>3 DEF rest
<1>4. CASE p # 1
  <2>1. Threads(rest, Out(l, order[p])) /\ Out(l, order[p]) \in Lists
    BY <1>1, <1>4, OutThreads DEF rest
  <2>2. MoveToHead(l, order[p]) = AddToHead(Out(l, order[p]), order[p])
    BY <1>1, <1>4 DEF MoveToHead, Out
  <2>3. \A i \in DOMAIN rest : rest[i] # order[p]
    BY <1>1, <1>2
  <2>4. Threads(<<order[p]>> \o rest, AddToHead(Out(l, order[p]), order[p]))
    BY <1>1, <2>1, <2>3, AddToHeadThreads
  <2>5. AddToHead(Out(l, order[p]), order[p]) \in Lists
    BY <1>1, <2>1, AddToHeadAssigns
  <2>6. QED
    BY <2>2, <2>4, <2>5 DEF rest
<1>5. QED
  BY <1>3, <1>4

-----------------------------------------------------------------------------
\* A set of natural numbers has a least element.
LEMMA Least ==
  ASSUME NEW S, S \subseteq Nat, S # {}
  PROVE  \E v \in S : \A w \in S : v <= w
<1> DEFINE R == OpToRel(<, Nat)
<1>1. PICK v \in S : \A w \in S : ~(<<w, v>> \in R)
  <2>1. IsWellFoundedOn(R, Nat)
    BY NatLessThanWellFounded
  <2> HIDE DEF R
  <2>2. QED
    BY <2>1, WFMin
<1>2. \A w \in S : ~(w < v)
  BY <1>1 DEF OpToRel
<1> HIDE DEF R
<1>3. QED
  BY <1>2

\* Only one sequence follows the pointers.
LEMMA FollowsOne ==
  ASSUME LRUAssumption, NEW l, NEW s \in Seq(Keys), NEW t \in Seq(Keys),
         Follows(s, l), Follows(t, l)
  PROVE  s = t
<1> DEFINE D == {i \in 1..Len(s) : i > Len(t) \/ s[i] # t[i]}
<1>1. /\ Len(s) \in Nat /\ Len(t) \in Nat /\ NIL \notin Keys
      /\ \A i \in 1..Len(s) : s[i] \in Keys
      /\ \A i \in 1..Len(t) : t[i] \in Keys
  BY DEF LRUAssumption
<1>2. /\ IF Len(s) = 0 THEN l.head = NIL ELSE l.head = s[1]
      /\ IF Len(t) = 0 THEN l.head = NIL ELSE l.head = t[1]
  BY DEF Follows
<1>3. /\ \A i \in 1..Len(s) : l.next[s[i]] = IF i = Len(s) THEN NIL ELSE s[i + 1]
      /\ \A i \in 1..Len(t) : l.next[t[i]] = IF i = Len(t) THEN NIL ELSE t[i + 1]
  BY SMTT(30) DEF Follows
<1>4. D = {}
  <2> SUFFICES ASSUME D # {} PROVE FALSE
    OBVIOUS
  <2>1. PICK i \in D : \A j \in D : i <= j
    <3>1. D \subseteq Nat
      BY <1>1
    <3> HIDE DEF D
    <3>2. QED
      BY <3>1, Least
  <2>2. i \in 1..Len(s) /\ (i > Len(t) \/ s[i] # t[i])
    OBVIOUS
  <2>3. CASE i = 1
    BY <1>1, <1>2, <2>2, <2>3
  <2>4. CASE i > 1
    <3>1. i - 1 \in 1..Len(s) /\ i - 1 \notin D
      BY <1>1, <2>1, <2>2, <2>4
    <3>2. i - 1 \in 1..Len(t) /\ s[i - 1] = t[i - 1]
      BY <1>1, <3>1
    <3>3. l.next[s[i - 1]] = s[i] /\ s[i] \in Keys
      BY <1>1, <1>3, <2>2, <3>1
    <3>4. i - 1 # Len(t) /\ i \in 1..Len(t)
      BY <1>1, <1>3, <2>2, <3>2, <3>3
    <3>5. t[i] = s[i]
      BY <1>1, <1>3, <3>2, <3>3, <3>4
    <3>6. QED
      BY <1>1, <2>2, <3>4, <3>5
  <2>5. QED
    BY <1>1, <2>2, <2>3, <2>4
<1>5. Len(s) <= Len(t) /\ \A i \in 1..Len(s) : s[i] = t[i]
  BY <1>1, <1>4
<1> HIDE DEF D
<1>6. Len(s) = Len(t)
  <2> SUFFICES ASSUME Len(s) < Len(t) PROVE FALSE
    BY <1>1, <1>5
  <2>1. CASE Len(s) = 0
    BY <1>1, <1>2, <2>1
  <2>2. CASE Len(s) > 0
    <3>1. Len(s) \in 1..Len(s) /\ Len(s) \in 1..Len(t) /\ Len(s) + 1 \in 1..Len(t)
      BY <1>1, <2>2
    <3>2. l.next[s[Len(s)]] = NIL /\ l.next[t[Len(s)]] = t[Len(s) + 1]
      BY <1>3, <3>1
    <3>3. QED
      BY <1>1, <1>5, <3>1, <3>2
  <2>3. QED
    BY <1>1, <2>1, <2>2
<1>7. QED
  BY <1>5, <1>6, SeqEqual

\* The sequence Chain finds.
LEMMA ChainIs ==
  ASSUME LRUAssumption, NEW l, NEW order \in Seq(Keys), Len(order) <= Capacity,
         Follows(order, l)
  PROVE  Chain(l) = order
<1>1. order \in Orders
  <2>1. Len(order) \in 0..Capacity /\ order \in [1..Len(order) -> Keys]
    BY LenProperties DEF LRUAssumption
  <2>2. QED
    BY <2>1 DEF Orders, SeqOf
<1>2. \A s \in Orders : s \in Seq(Keys)
  BY DEF Orders, SeqOf, LRUAssumption
<1>3. \A s \in Orders : Follows(s, l) => s = order
  BY <1>2, FollowsOne
<1>4. QED
  BY <1>1, <1>3 DEF Chain

\* A sequence without repetition is as long as it has elements.
LEMMA CountKeys ==
  ASSUME NEW order \in Seq(Keys), IsInjective(order)
  PROVE  Cardinality(ToSet(order)) = Len(order)
<1> DEFINE S == ToSet(order)
<1>1. Len(order) \in Nat /\ order \in [1..Len(order) -> S] /\ \A t \in S : \E i \in 1..Len(order) : order[i] = t
  BY DEF ToSet
<1>2. \A i, j \in 1..Len(order) : order[i] = order[j] => i = j
  BY DEF IsInjective
<1> HIDE DEF S
<1>3. order \in Bijection(1..Len(order), S)
  BY <1>1, <1>2, Fun_IsBij
<1>4. ExistsBijection(1..Len(order), S)
  BY <1>3 DEF ExistsBijection
<1>5. QED
  BY <1>1, <1>4, FS_CountingElements DEF S

-----------------------------------------------------------------------------
\* The variables other than the pointers' order.
Types ==
  /\ cache \subseteq Keys
  /\ value \in [Keys -> Int]
  /\ list \in Lists
  /\ result \in Int

\* order is the sequence of the keys held, the one used last first.
Holds(order) == Threads(order, list) /\ Len(order) <= Capacity /\ ToSet(order) = cache

IndInv == Types /\ \E order \in Seq(Keys) : Holds(order)

\* Such a sequence is what ListMatchesMap asks for.
LEMMA HoldsMatches ==
  ASSUME LRUAssumption, NEW order \in Seq(Keys), Holds(order)
  PROVE  ListMatchesMap
<1>1. Len(order) \in 0..Capacity /\ order \in [1..Len(order) -> Keys]
  BY LenProperties DEF LRUAssumption, Holds
<1>2. order \in Orders
  BY <1>1 DEF Orders, SeqOf
<1>3. QED
  BY <1>2 DEF Holds, Threads, ListMatchesMap

\* Initially nothing is held.
LEMMA InitHolds ==
  ASSUME LRUAssumption, Init
  PROVE  Types /\ Holds(<<>>)
BY DEF LRUAssumption, Init, Types, Lists, Pointers, Holds, Threads, Follows, LeadsBack, ToSet,
   IsInjective

\* A key that is used comes first.
LEMMA Used ==
  ASSUME LRUAssumption, Types, NEW order \in Seq(Keys), Holds(order),
         NEW p \in DOMAIN order, list' = MoveToHead(list, order[p]), cache' = cache
  PROVE  /\ Holds(<<order[p]>> \o RemoveAt(order, p))'
         /\ list' \in Lists
         /\ <<order[p]>> \o RemoveAt(order, p) \in Seq(Keys)
<1> DEFINE rest == RemoveAt(order, p)
           new == <<order[p]>> \o rest
<1>1. /\ Len(order) \in Nat /\ p \in 1..Len(order) /\ order[p] \in Keys
      /\ rest \in Seq(Keys) /\ Len(rest) = Len(order) - 1
      /\ \A i \in 1..(Len(order) - 1) : rest[i] = order[IF i < p THEN i ELSE i + 1]
  <2>1. Len(order) \in Nat /\ p \in 1..Len(order) /\ order[p] \in Keys
    OBVIOUS
  <2>2. QED
    BY <2>1, RemoveAtEntries
<1>2. Threads(new, list') /\ list' \in Lists
  BY MoveToHeadThreads DEF Holds, Types
<1> HIDE DEF rest
<1>3. new \in Seq(Keys) /\ Len(new) = Len(order) /\ new[1] = order[p]
      /\ \A i \in 2..Len(order) : new[i] = rest[i - 1]
  BY <1>1
<1> HIDE DEF new
<1>4. ToSet(new) = ToSet(order)
  <2>1. ASSUME NEW i \in DOMAIN new PROVE new[i] \in ToSet(order)
    <3>1. CASE i = 1
      BY <1>1, <1>3, <3>1 DEF ToSet
    <3>2. CASE i # 1
      <4>1. i \in 2..Len(order) /\ i - 1 \in 1..(Len(order) - 1)
        BY <1>1, <1>3, <3>2
      <4>2. PICK j \in 1..Len(order) : rest[i - 1] = order[j]
        BY <1>1, <4>1
      <4>3. QED
        BY <1>1, <1>3, <4>1, <4>2, SMTT(30) DEF ToSet
    <3>3. QED
      BY <3>1, <3>2
  <2>2. ASSUME NEW j \in DOMAIN order PROVE order[j] \in ToSet(new)
    <3>1. CASE j = p
      BY <1>1, <1>3, <3>1 DEF ToSet
    <3>2. CASE j < p
      <4>1. j + 1 \in 2..Len(order) /\ rest[j] = order[j]
        BY <1>1, <3>2
      <4>2. new[j + 1] = order[j] /\ j + 1 \in DOMAIN new
        BY <1>1, <1>3, <4>1
      <4>3. QED
        BY <4>2 DEF ToSet
    <3>3. CASE j > p
      <4>1. j \in 2..Len(order) /\ rest[j - 1] = order[j]
        BY <1>1, <3>3
      <4>2. new[j] = order[j] /\ j \in DOMAIN new
        BY <1>1, <1>3, <4>1
      <4>3. QED
        BY <4>2 DEF ToSet
    <3>4. QED
      BY <1>1, <3>1, <3>2, <3>3
  <2>3. QED
    BY <2>1, <2>2 DEF ToSet
<1>5. QED
  BY <1>2, <1>3, <1>4 DEF Holds, new, rest

\* A new key comes first, and the last one goes when there are too many.
LEMMA Inserted ==
  ASSUME LRUAssumption, Types, NEW order \in Seq(Keys), Holds(order),
         NEW k \in Keys, NEW v, Insert(k, v)
  PROVE  LET all == <<k>> \o order
             new == IF Len(all) > Capacity THEN Front(all) ELSE all
         IN  Holds(new)' /\ list' \in Lists /\ new \in Seq(Keys)
<1> DEFINE all == <<k>> \o order
           added == AddToHead(list, k)
<1>1. /\ Len(order) \in Nat /\ Len(order) <= Capacity /\ Capacity \in Nat
      /\ \A i \in DOMAIN order : order[i] # k
      /\ Threads(order, list) /\ list \in Lists
  BY DEF Holds, Types, Insert, ToSet, LRUAssumption
<1>2. Threads(all, added) /\ added \in Lists
  BY <1>1, AddToHeadThreads, AddToHeadAssigns
<1>3. /\ all \in Seq(Keys) /\ Len(all) = Len(order) + 1
      /\ all[1] = k /\ \A i \in 2..Len(all) : all[i] = order[i - 1]
  BY <1>1
<1>4. Cardinality(cache) = Len(order)
  BY CountKeys DEF Holds, Threads
<1>5. ToSet(all) = cache \cup {k}
  <2>1. ASSUME NEW i \in DOMAIN all PROVE all[i] \in cache \cup {k}
    <3>1. i # 1 => i \in 2..Len(all) /\ i - 1 \in DOMAIN order
      BY <1>1, <1>3
    <3>2. QED
      BY <1>3, <3>1 DEF ToSet, Holds
  <2>2. ASSUME NEW j \in DOMAIN order PROVE order[j] \in ToSet(all)
    <3>1. j + 1 \in DOMAIN all /\ all[j + 1] = order[j]
      BY <1>1, <1>3
    <3>2. QED
      BY <3>1 DEF ToSet
  <2>3. 1 \in DOMAIN all /\ all[1] = k
    BY <1>1, <1>3
  <2>4. QED
    BY <2>1, <2>2, <2>3 DEF ToSet, Holds
<1>6. all # <<>> /\ added.tail = all[Len(all)]
  BY <1>2, <1>3 DEF Threads, LeadsBack
<1> HIDE DEF all, added
<1>7. CASE Len(all) > Capacity
  <2>1. cache' = (cache \cup {k}) \ {added.tail} /\ list' = RemoveTail(added)
    BY <1>1, <1>3, <1>4, <1>7 DEF Insert, added
  <2>2. Threads(Front(all), list') /\ list' \in Lists
    BY <1>2, <1>6, <2>1, RemoveTailThreads
  <2>3. /\ Front(all) \in Seq(Keys) /\ Len(Front(all)) = Len(order)
        /\ \A i \in 1..Len(order) : Front(all)[i] = all[i]
    BY <1>1, <1>3, <1>6, FrontEntries, SMTT(30)
  <2>4. ToSet(Front(all)) = ToSet(all) \ {all[Len(all)]}
    <3>1. DOMAIN all = 1..Len(all) /\ DOMAIN Front(all) = 1..Len(order) /\ Len(all) = Len(order) + 1
      BY <1>1, <1>3, <2>3
    <3>2. \A i, j \in 1..Len(all) : all[i] = all[j] => i = j
      BY <1>2, <3>1 DEF Threads, IsInjective
    <3>3. ASSUME NEW i \in 1..Len(order)
          PROVE  Front(all)[i] \in ToSet(all) \ {all[Len(all)]}
      BY <1>1, <2>3, <3>1, <3>2 DEF ToSet
    <3>4. ASSUME NEW i \in 1..Len(all), all[i] # all[Len(all)]
          PROVE  all[i] \in ToSet(Front(all))
      <4>1. i \in 1..Len(order)
        BY <1>1, <3>1, <3>4
      <4>2. QED
        BY <2>3, <3>1, <4>1 DEF ToSet
    <3>5. QED
      BY <3>1, <3>3, <3>4 DEF ToSet
  <2>5. QED
    BY <1>1, <1>5, <1>6, <1>7, <2>1, <2>2, <2>3, <2>4 DEF Holds, all
<1>8. CASE ~(Len(all) > Capacity)
  <2>1. cache' = cache \cup {k} /\ list' = added
    BY <1>1, <1>3, <1>4, <1>8 DEF Insert, added
  <2>2. QED
    BY <1>1, <1>2, <1>3, <1>5, <1>8, <2>1 DEF Holds, all
<1>9. QED
  BY <1>7, <1>8

\* Every step holds a sequence again.
LEMMA StepInv ==
  ASSUME LRUAssumption, IndInv, [Next]_vars
  PROVE  IndInv'
<1>1. Types /\ LRUAssumption
  BY DEF IndInv
<1>2. PICK order \in Seq(Keys) : Holds(order)
  BY DEF IndInv
<1>3. ASSUME NEW k \in cache PROVE \E p \in DOMAIN order : order[p] = k
  BY <1>2 DEF Holds, ToSet
<1>4. ASSUME NEW k \in Keys, Get(k) PROVE IndInv'
  <2>1. CASE k \in cache
    <3>1. PICK p \in DOMAIN order : order[p] = k
      BY <1>3, <2>1
    <3>2. list' = MoveToHead(list, order[p]) /\ cache' = cache
      BY <1>4, <2>1, <3>1 DEF Get
    <3>3. Types'
      BY <1>1, <1>2, <1>4, <2>1, <3>2, Used DEF Types, Get
    <3>4. QED
      BY <1>1, <1>2, <3>2, <3>3, Used DEF IndInv
  <2>2. CASE k \notin cache
    <3>1. Types' /\ Holds(order)'
      BY <1>1, <1>2, <1>4, <2>2 DEF Get, Types, Holds
    <3>2. QED
      BY <3>1 DEF IndInv
  <2>3. QED
    BY <2>1, <2>2
<1>5. ASSUME NEW k \in Keys, NEW v \in Values, Update(k, v) PROVE IndInv'
  <2>1. PICK p \in DOMAIN order : order[p] = k
    BY <1>3, <1>5 DEF Update
  <2>2. list' = MoveToHead(list, order[p]) /\ cache' = cache
    BY <1>5, <2>1 DEF Update
  <2>3. Types'
    BY <1>1, <1>2, <1>5, <2>2, Used DEF Types, Update, LRUAssumption
  <2>4. QED
    BY <1>1, <1>2, <2>2, <2>3, Used DEF IndInv
<1>6. ASSUME NEW k \in Keys, NEW v \in Values, Insert(k, v) PROVE IndInv'
  <2>1. list' \in Lists /\ \E new \in Seq(Keys) : Holds(new)'
    BY <1>1, <1>2, <1>6, Inserted
  <2>2. Types'
    BY <1>1, <1>6, <2>1 DEF Types, Insert, LRUAssumption
  <2>3. QED
    BY <2>1, <2>2 DEF IndInv
<1>7. CASE UNCHANGED vars
  <2>1. Types' /\ Holds(order)'
    BY <1>1, <1>2, <1>7 DEF vars, Types, Holds
  <2>2. QED
    BY <2>1 DEF IndInv
<1>8. QED
  BY <1>4, <1>5, <1>6, <1>7 DEF Next

\* The invariant holds in every behaviour.
LEMMA IndInvHolds ==
  ASSUME LRUAssumption
  PROVE  Spec => []IndInv
<1>1. Init => IndInv
  <2>1. <<>> \in Seq(Keys)
    OBVIOUS
  <2>2. QED
    BY <2>1, InitHolds DEF IndInv
<1>2. IndInv /\ [Next]_vars => IndInv'
  BY StepInv
<1>3. QED
  BY <1>1, <1>2, PTL DEF Spec

\* The map and the list agree after every operation (lru.go:46-116): the
\* pointers lead once through the keys of the map, and back.
THEOREM ListAndMapAgree ==
  ASSUME LRUAssumption
  PROVE  Spec => []ListMatchesMap
<1>1. IndInv => ListMatchesMap
  BY HoldsMatches DEF IndInv
<1>2. QED
  BY <1>1, IndInvHolds, PTL

-----------------------------------------------------------------------------
\* The refinement: the entries of a sequence of keys.
Contents(order, val) == [i \in DOMAIN order |-> [key |-> order[i], value |-> val[order[i]]]]
Item == [key : Keys, value : Int]

LEMMA ContentsEntries ==
  ASSUME NEW order \in Seq(Keys), NEW val \in [Keys -> Int]
  PROVE  /\ Contents(order, val) \in Seq(Item) /\ Len(Contents(order, val)) = Len(order)
         /\ DOMAIN Contents(order, val) = DOMAIN order
         /\ \A i \in 1..Len(order) :
              /\ Contents(order, val)[i] = [key |-> order[i], value |-> val[order[i]]]
              /\ Contents(order, val)[i].key = order[i]
              /\ Contents(order, val)[i].value = val[order[i]]
<1> DEFINE c == Contents(order, val)
<1>1. Len(order) \in Nat /\ DOMAIN order = 1..Len(order) /\ \A i \in 1..Len(order) : order[i] \in Keys
  OBVIOUS
<1>2. c = [i \in 1..Len(order) |-> [key |-> order[i], value |-> val[order[i]]]]
  BY <1>1 DEF Contents
<1>3. \A i \in 1..Len(order) : [key |-> order[i], value |-> val[order[i]]] \in Item
  BY <1>1 DEF Item
<1> HIDE DEF c
<1>4. c \in [1..Len(order) -> Item]
  BY <1>2, <1>3
<1>5. c \in Seq(Item) /\ Len(c) = Len(order)
  BY <1>1, <1>4
<1>6. QED
  BY <1>1, <1>2, <1>5 DEF c

\* Contents, of a sequence with a new or another value in front, ...
LEMMA ContentsFronted ==
  ASSUME NEW k \in Keys, NEW rest \in Seq(Keys), \A i \in DOMAIN rest : rest[i] # k,
         NEW old \in [Keys -> Int], NEW new \in [Keys -> Int],
         \A n \in Keys \ {k} : new[n] = old[n]
  PROVE  Contents(<<k>> \o rest, new) = <<[key |-> k, value |-> new[k]]>> \o Contents(rest, old)
<1>1. \A i \in 1..Len(rest) : rest[i] \in Keys /\ rest[i] # k
  OBVIOUS
<1> DEFINE all == <<k>> \o rest
           left == Contents(all, new)
           e == [key |-> k, value |-> new[k]]
           right == <<e>> \o Contents(rest, old)
<1>2. /\ all \in Seq(Keys) /\ Len(all) = Len(rest) + 1 /\ Len(rest) \in Nat
      /\ all[1] = k /\ \A i \in 2..Len(all) : all[i] = rest[i - 1]
  OBVIOUS
<1>3. left \in Seq(Item) /\ Len(left) = Len(all)
      /\ \A i \in 1..Len(all) : left[i] = [key |-> all[i], value |-> new[all[i]]]
  BY <1>2, ContentsEntries
<1>4. Contents(rest, old) \in Seq(Item) /\ Len(Contents(rest, old)) = Len(rest) /\ e \in Item
      /\ \A i \in 1..Len(rest) : Contents(rest, old)[i] = [key |-> rest[i], value |-> old[rest[i]]]
  BY ContentsEntries DEF Item
<1> HIDE DEF all, left, e
<1>5. right \in Seq(Item) /\ Len(right) = Len(all) /\ right[1] = e
      /\ \A i \in 2..Len(all) : right[i] = Contents(rest, old)[i - 1]
  BY <1>2, <1>4
<1> HIDE DEF right
<1>6. ASSUME NEW i \in 1..Len(all) PROVE left[i] = right[i]
  <2>1. CASE i = 1
    BY <1>2, <1>3, <1>5, <2>1 DEF e
  <2>2. CASE i # 1
    <3>1. i \in 2..Len(all) /\ i - 1 \in 1..Len(rest)
      BY <1>2, <2>2
    <3>2. all[i] = rest[i - 1] /\ rest[i - 1] \in Keys /\ rest[i - 1] # k
      BY <1>1, <1>2, <3>1
    <3>3. right[i] = [key |-> rest[i - 1], value |-> old[rest[i - 1]]]
      BY <1>4, <1>5, <3>1
    <3>4. QED
      BY <1>3, <3>2, <3>3
  <2>3. QED
    BY <2>1, <2>2
<1>7. left = right
  BY <1>3, <1>5, <1>6, SeqEqual
<1>8. QED
  BY <1>7 DEF all, left, right, e

\* ... without one of its entries, and without its last.
LEMMA ContentsRemoveAt ==
  ASSUME NEW order \in Seq(Keys), NEW val \in [Keys -> Int], NEW p \in DOMAIN order
  PROVE  Contents(RemoveAt(order, p), val) = RemoveAt(Contents(order, val), p)
<1> DEFINE rest == RemoveAt(order, p)
           left == Contents(rest, val)
           full == Contents(order, val)
           right == RemoveAt(full, p)
<1>1. /\ Len(order) \in Nat /\ p \in 1..Len(order)
      /\ rest \in Seq(Keys) /\ Len(rest) = Len(order) - 1
      /\ \A i \in 1..(Len(order) - 1) : rest[i] = order[IF i < p THEN i ELSE i + 1]
  <2>1. Len(order) \in Nat /\ p \in 1..Len(order)
    OBVIOUS
  <2>2. QED
    BY <2>1, RemoveAtEntries
<1> HIDE DEF rest
<1>2. left \in Seq(Item) /\ Len(left) = Len(rest)
      /\ \A i \in 1..Len(rest) : left[i] = [key |-> rest[i], value |-> val[rest[i]]]
  BY <1>1, ContentsEntries
<1>3. full \in Seq(Item) /\ Len(full) = Len(order)
      /\ \A i \in 1..Len(order) : full[i] = [key |-> order[i], value |-> val[order[i]]]
  BY ContentsEntries
<1> HIDE DEF left, full
<1>4. right \in Seq(Item) /\ Len(right) = Len(order) - 1
      /\ \A i \in 1..(Len(order) - 1) : right[i] = full[IF i < p THEN i ELSE i + 1]
  <2>1. p \in 1..Len(full)
    BY <1>1, <1>3
  <2>2. /\ right \in Seq(Item) /\ Len(right) = Len(full) - 1
        /\ \A i \in 1..(Len(full) - 1) : right[i] = full[IF i < p THEN i ELSE i + 1]
    BY <1>3, <2>1, RemoveAtEntries
  <2>3. QED
    BY <1>3, <2>2
<1> HIDE DEF right
<1>5. ASSUME NEW i \in 1..(Len(order) - 1) PROVE left[i] = right[i]
  <2> DEFINE m == IF i < p THEN i ELSE i + 1
  <2>1. m \in 1..Len(order) /\ rest[i] = order[m] /\ right[i] = full[m]
    BY <1>1, <1>4, SMTT(30)
  <2> HIDE DEF m
  <2>2. QED
    BY <1>1, <1>2, <1>3, <2>1
<1>6. left = right
  BY <1>1, <1>2, <1>4, <1>5, SeqEqual
<1>7. QED
  BY <1>6 DEF rest, left, right, full

LEMMA ContentsFront ==
  ASSUME NEW order \in Seq(Keys), NEW val \in [Keys -> Int], order # <<>>
  PROVE  Contents(Front(order), val) = Front(Contents(order, val))
<1> DEFINE most == Front(order)
           left == Contents(most, val)
           full == Contents(order, val)
           right == Front(full)
<1>1. /\ Len(order) \in Nat \ {0}
      /\ most \in Seq(Keys) /\ Len(most) = Len(order) - 1
      /\ \A i \in 1..(Len(order) - 1) : most[i] = order[i]
  BY FrontEntries, EmptySeq, LenProperties
<1> HIDE DEF most
<1>2. left \in Seq(Item) /\ Len(left) = Len(most)
      /\ \A i \in 1..Len(most) : left[i] = [key |-> most[i], value |-> val[most[i]]]
  BY <1>1, ContentsEntries
<1>3. full \in Seq(Item) /\ Len(full) = Len(order)
      /\ \A i \in 1..Len(order) : full[i] = [key |-> order[i], value |-> val[order[i]]]
  BY ContentsEntries
<1> HIDE DEF left, full
<1>4. right \in Seq(Item) /\ Len(right) = Len(order) - 1
      /\ \A i \in 1..(Len(order) - 1) : right[i] = full[i]
  <2>1. full # <<>>
    BY <1>1, <1>3
  <2>2. QED
    BY <1>1, <1>3, <2>1, FrontEntries
<1> HIDE DEF right
<1>5. ASSUME NEW i \in 1..Len(left) PROVE left[i] = right[i]
  <2>1. i \in 1..Len(most) /\ i \in 1..(Len(order) - 1) /\ i \in 1..Len(order)
    BY <1>1, <1>2
  <2>2. QED
    BY <1>1, <1>2, <1>3, <1>4, <2>1
<1>6. left = right
  BY <1>1, <1>2, <1>4, <1>5, SeqEqual
<1>7. QED
  BY <1>6 DEF most, left, right, full

\* What the refinement mapping yields.
LEMMA MappedIs ==
  ASSUME LRUAssumption, NEW order \in Seq(Keys), NEW l, Threads(order, l),
         Len(order) <= Capacity, NEW val
  PROVE  [i \in DOMAIN Chain(l) |-> [key |-> Chain(l)[i], value |-> val[Chain(l)[i]]]]
           = Contents(order, val)
<1>1. Chain(l) = order
  BY ChainIs DEF Threads
<1>2. QED
  BY <1>1 DEF Contents

\* The abstract list.
Held == [i \in DOMAIN Chain(list) |-> [key |-> Chain(list)[i], value |-> value[Chain(list)[i]]]]

\* The helpers on sequences that the abstract cache is written with are LRU's own.
LEMMA SameHelpers ==
  ASSUME NEW s
  PROVE  Recency!Front(s) = Front(s) /\ \A i : Recency!RemoveAt(s, i) = RemoveAt(s, i)
BY DEF Recency!Front, Front, Recency!RemoveAt, RemoveAt

\* A call of the cache is that call of the abstract one.
LEMMA StepSimulation ==
  ASSUME LRUAssumption, IndInv, [Next]_vars
  PROVE  [Recency!Next]_Recency!vars
<1>1. Types /\ Types'
  BY StepInv DEF IndInv
<1>2. PICK order \in Seq(Keys) : Holds(order)
  BY DEF IndInv
<1>3. /\ Len(order) \in Nat /\ DOMAIN order = 1..Len(order)
      /\ \A i \in DOMAIN order : order[i] \in Keys
      /\ \A i, j \in DOMAIN order : order[i] = order[j] => i = j
      /\ value \in [Keys -> Int] /\ value' \in [Keys -> Int]
  BY <1>1, <1>2 DEF Types, Holds, Threads, IsInjective
<1>4. Held = Contents(order, value)
  BY <1>2, MappedIs DEF Holds, Held
<1>5. /\ DOMAIN Held = 1..Len(order)
      /\ \A i \in 1..Len(order) :
           /\ Held[i] = [key |-> order[i], value |-> value[order[i]]]
           /\ Held[i].key = order[i] /\ Held[i].value = value[order[i]]
  BY <1>3, <1>4, ContentsEntries
<1>6. ASSUME NEW new \in Seq(Keys), Holds(new)'
      PROVE  Held' = Contents(new, value')
  BY <1>6, MappedIs DEF Holds, Held
<1>7. ASSUME NEW k \in cache
      PROVE  \E p \in DOMAIN order : order[p] = k
  BY <1>2 DEF Holds, ToSet
<1>8. ASSUME NEW k \in Keys, k \notin cache
      PROVE  \A i \in DOMAIN Held : Held[i].key # k
  <2>1. \A i \in 1..Len(order) : order[i] \in cache
    BY <1>2, <1>3 DEF Holds, ToSet
  <2>2. QED
    BY <1>8, <1>5, <2>1
<1>9. ASSUME NEW p \in DOMAIN order, list' = MoveToHead(list, order[p]), cache' = cache,
             \A n \in Keys \ {order[p]} : value'[n] = value[n]
      PROVE  /\ p \in DOMAIN Held /\ Held[p].key = order[p]
             /\ Held[p].value = value[order[p]]
             /\ Held' = <<[key |-> order[p], value |-> value'[order[p]]]>> \o RemoveAt(Held, p)
  <2> DEFINE rest == RemoveAt(order, p)
  <2>1. p \in 1..Len(order) /\ order[p] \in Keys
    BY <1>3
  <2>2. /\ rest \in Seq(Keys) /\ Len(rest) = Len(order) - 1
        /\ \A i \in 1..(Len(order) - 1) : rest[i] = order[IF i < p THEN i ELSE i + 1]
    BY <2>1, RemoveAtEntries
  <2>3. ASSUME NEW i \in DOMAIN rest PROVE rest[i] # order[p]
    <3> DEFINE m == IF i < p THEN i ELSE i + 1
    <3>1. i \in 1..(Len(order) - 1)
      <4> HIDE DEF rest
      <4>1. QED
        BY <2>2, <2>3
    <3>2. rest[i] = order[m]
      <4> HIDE DEF rest
      <4>1. QED
        BY <2>2, <3>1
    <3> HIDE DEF rest
    <3>3. m \in 1..Len(order) /\ m # p
      BY <1>3, <2>1, <3>1, SMTT(30)
    <3> HIDE DEF m
    <3>4. QED
      BY <1>3, <2>1, <3>2, <3>3
  <2>4. Holds(<<order[p]>> \o rest)' /\ <<order[p]>> \o rest \in Seq(Keys)
    BY <1>1, <1>2, <1>9, Used
  <2> HIDE DEF rest
  <2>5. Held' = Contents(<<order[p]>> \o rest, value')
    BY <1>6, <2>4
  <2>6. @ = <<[key |-> order[p], value |-> value'[order[p]]]>> \o Contents(rest, value)
    BY <1>3, <1>9, <2>1, <2>2, <2>3, ContentsFronted
  <2>7. Contents(rest, value) = RemoveAt(Held, p)
    BY <1>3, <1>4, ContentsRemoveAt DEF rest
  <2>8. p \in DOMAIN Held /\ Held[p].key = order[p] /\ Held[p].value = value[order[p]]
    BY <1>5, <2>1
  <2>9. QED
    BY <2>5, <2>6, <2>7, <2>8
<1>10. ASSUME NEW k \in Keys, Get(k) PROVE Recency!Get(k) \/ UNCHANGED <<Held, result>>
  <2>1. CASE k \in cache
    <3>1. PICK p \in DOMAIN order : order[p] = k
      BY <1>7, <2>1
    <3>2. list' = MoveToHead(list, order[p]) /\ cache' = cache /\ value' = value /\ result' = value[k]
      BY <1>10, <2>1, <3>1 DEF Get
    <3>3. /\ p \in DOMAIN Held /\ Held[p].key = k /\ Held[p].value = value[k]
          /\ Held' = <<[key |-> k, value |-> value[k]]>> \o RemoveAt(Held, p)
      BY <1>9, <3>1, <3>2
    <3>4. Held[p] = [key |-> k, value |-> value[k]]
      BY <1>3, <1>5, <3>1
    <3>5. \E i \in DOMAIN Held :
             /\ Held[i].key = k
             /\ result' = Held[i].value
             /\ Held' = <<Held[i]>> \o Recency!RemoveAt(Held, i)
      BY <3>2, <3>3, <3>4, SameHelpers
    <3>6. QED
      BY <3>5, Zenon DEF Recency!Get, Held
  <2>2. CASE k \notin cache
    <3>1. result' = -1 /\ list' = list /\ value' = value
      BY <1>10, <2>2 DEF Get
    <3>2. Held' = Held
      BY <3>1 DEF Held
    <3>3. QED
      BY <1>8, <2>2, <3>1, <3>2 DEF Recency!Get, Recency!Absent, Held
  <2>3. QED
    BY <2>1, <2>2
<1>11. ASSUME NEW k \in Keys, NEW v \in Values, Update(k, v) PROVE Recency!Put(k, v)
  <2>1. PICK p \in DOMAIN order : order[p] = k
    BY <1>7, <1>11 DEF Update
  <2>2. /\ list' = MoveToHead(list, order[p]) /\ cache' = cache /\ result' = result
        /\ value' = [value EXCEPT ![k] = v]
    BY <1>11, <2>1 DEF Update
  <2>3. value'[k] = v /\ \A n \in Keys \ {k} : value'[n] = value[n]
    BY <1>3, <2>2
  <2>4. /\ p \in DOMAIN Held /\ Held[p].key = k
        /\ Held' = <<[key |-> k, value |-> v]>> \o RemoveAt(Held, p)
    BY <1>9, <2>1, <2>2, <2>3
  <2>5. \E i \in DOMAIN Held :
           /\ Held[i].key = k
           /\ Held' = <<[key |-> k, value |-> v]>> \o Recency!RemoveAt(Held, i)
    BY <2>4, SameHelpers
  <2>6. QED
    BY <2>2, <2>5, Zenon DEF Recency!Put, Held
<1>12. ASSUME NEW k \in Keys, NEW v \in Values, Insert(k, v) PROVE Recency!Put(k, v)
  <2> DEFINE all == <<k>> \o order
             new == IF Len(all) > Capacity THEN Front(all) ELSE all
             items == <<[key |-> k, value |-> v]>> \o Held
  <2>1. k \notin cache /\ result' = result /\ value' = [value EXCEPT ![k] = v]
    BY <1>12 DEF Insert
  <2>2. value'[k] = v /\ \A n \in Keys \ {k} : value'[n] = value[n]
    BY <1>3, <2>1
  <2>3. Holds(new)' /\ new \in Seq(Keys)
    BY <1>1, <1>2, <1>12, Inserted
  <2>4. \A i \in DOMAIN order : order[i] # k
    BY <1>2, <2>1 DEF Holds, ToSet
  <2>5. Contents(all, value') = items
    BY <1>3, <1>4, <2>2, <2>4, ContentsFronted
  <2>6. all \in Seq(Keys) /\ all # <<>> /\ Len(items) = Len(all)
    <3>1. all \in Seq(Keys) /\ Len(all) = Len(order) + 1
      BY <1>3
    <3>2. QED
      <4> HIDE DEF all, items
      <4>1. Len(Contents(all, value')) = Len(all)
        BY <1>3, <3>1, ContentsEntries
      <4>2. Len(items) = Len(all) /\ Len(all) # 0
        BY <1>3, <2>5, <3>1, <4>1
      <4>3. QED
        BY <3>1, <4>2, EmptySeq
  <2> HIDE DEF all, items
  <2>7. Held' = IF Len(items) > Capacity THEN Front(items) ELSE items
    BY <1>3, <1>6, <2>3, <2>5, <2>6, ContentsFront
  <2>8. QED
    BY <1>8, <2>1, <2>7, SameHelpers DEF Recency!Put, Recency!Absent, Held, items
<1>13. CASE UNCHANGED vars
  BY <1>13 DEF vars, Recency!vars
<1>14. QED
  BY <1>10, <1>11, <1>12, <1>13 DEF Next, Recency!Next, Recency!vars, Held

\* The pointers of lru.go behave as an LRU cache: what is evicted is the entry
\* used longest ago, and Get answers what was put last.
THEOREM Refinement ==
  ASSUME LRUAssumption
  PROVE  Spec => ImplementsRecencyList
<1>1. Init => Recency!Init
  <2> SUFFICES ASSUME Init PROVE Recency!Init
    OBVIOUS
  <2>1. Holds(<<>>) /\ Types /\ <<>> \in Seq(Keys) /\ result = -1
    BY InitHolds DEF Init
  <2>2. Chain(list) = <<>>
    BY <2>1, ChainIs DEF Holds, Threads
  <2>3. QED
    BY <2>1, <2>2 DEF Recency!Init
<1>2. IndInv /\ [Next]_vars => [Recency!Next]_Recency!vars
  BY StepSimulation
<1>3. QED
  BY <1>1, <1>2, IndInvHolds, PTL DEF Spec, Recency!Spec, ImplementsRecencyList
=================================================================================
