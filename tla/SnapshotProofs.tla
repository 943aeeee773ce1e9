----------------------------- MODULE SnapshotProofs -----------------------------
(***************************************************************************)
(* Proofs about Snapshot, for any readers, objects and bounds, provided the *)
(* heap is never full: what a reader holds does not change, and no refresh  *)
(* goes back.                                                               *)
(***************************************************************************)
EXTENDS Snapshot, TLAPS

Snapshots == [stats : [orders : Nat, categories : Nat], version : Nat]

\* The store, its goroutines and its readers keep these types.
Types ==
  /\ db \in Nat
  /\ at \in [Goroutines -> {"none", "aggregate", "categories", "store", "wait", "end"}]
  /\ stats \in [Goroutines -> [orders : Nat, categories : Nat]]
  /\ object \in [Objects -> Snapshots]
  /\ current \in Objects \cup {NIL}
  /\ held \in [Readers -> Objects \cup {NIL}]
  /\ seen \in [Readers -> Snapshots]
  /\ stopped \in BOOLEAN /\ faults \in Nat

\* The loop refreshes only after the first refresh is over.
OneRefresh ==
  /\ at["loop"] # "none" => at["start"] = "end"
  /\ at["start"] \notin {"none", "wait"}

\* What a refresh has queried is at least what the store shows, and nothing is
\* newer than the orders.
QueriedInOrder ==
  /\ \A g \in Goroutines : stats[g].orders <= db /\ stats[g].categories <= db
  /\ current # NIL =>
       /\ object[current].stats.orders <= db /\ object[current].stats.categories <= db
       /\ \A g \in Goroutines :
            /\ at[g] \in {"categories", "store"} => object[current].stats.orders <= stats[g].orders
            /\ at[g] = "store" => object[current].stats.categories <= stats[g].categories

IndInv ==
  /\ Types
  /\ OneRefresh
  /\ QueriedInOrder
  /\ HeldUnchanged

\* The zero values have the types of their fields.
LEMMA BlankTyped == Blank \in Snapshots /\ Empty \in [orders : Nat, categories : Nat]
BY DEF Blank, Empty, Snapshots

\* The inductive invariant holds initially.
LEMMA InitInv ==
  ASSUME SnapshotAssumption, Init
  PROVE  IndInv
<1>1. Blank \in Snapshots /\ Empty \in [orders : Nat, categories : Nat]
  BY BlankTyped
<1> HIDE DEF Blank, Empty
<1>2. OneRefresh
  BY DEF Init, OneRefresh, Goroutines
<1>3. Types
  BY <1>1 DEF SnapshotAssumption, Init, Types, Goroutines
<1>4. QueriedInOrder
  BY DEF Init, QueriedInOrder, Empty
<1>5. HeldUnchanged
  BY DEF Init, HeldUnchanged
<1>6. QED
  BY <1>2, <1>3, <1>4, <1>5 DEF IndInv

\* A new Snapshot gets an object nobody points to.
LEMMA FreeIsFree ==
  ASSUME SnapshotAssumption, Types
  PROVE  Free \in Objects /\ Free # current /\ \A r \in Readers : held[r] # Free
<1>1. \E o \in Objects : o # current /\ \A r \in Readers : held[r] # o
  BY DEF SnapshotAssumption, HeapSuffices, Types
<1>2. QED
  BY <1>1 DEF Free

\* What a refresh stores is a Snapshot with the numbers it queried.
LEMMA RefreshedTyped ==
  ASSUME SnapshotAssumption, Types, NEW g \in Goroutines
  PROVE  Refreshed(g) \in Snapshots /\ Refreshed(g).stats = stats[g]
<1> DEFINE last == IF current = NIL THEN 0 ELSE object[current].version
<1>1. last \in Nat
  BY DEF Types, Snapshots
<1>2. (IF last < MaxRefreshes THEN last + 1 ELSE last) \in Nat
  BY <1>1
<1>3. QED
  BY <1>2 DEF Refreshed, Types, Snapshots

\* Every step keeps it.
LEMMA StepInv ==
  ASSUME SnapshotAssumption, IndInv, [Next]_vars
  PROVE  IndInv'
<1> USE DEF SnapshotAssumption, IndInv, Types, OneRefresh, QueriedInOrder, HeldUnchanged,
        Goto, Goroutines
<1>1. ASSUME NEW g \in Goroutines, Aggregate(g) PROVE IndInv'
  BY <1>1 DEF Aggregate, Snapshots
<1>2. ASSUME NEW g \in Goroutines, Categories(g) PROVE IndInv'
  BY <1>2 DEF Categories, Snapshots
<1>3. ASSUME NEW g \in Goroutines, QueryError(g) PROVE IndInv'
  BY <1>3 DEF QueryError, Ended
<1>4. ASSUME NEW g \in Goroutines, Store(g) PROVE IndInv'
  <2>1. /\ Free \in Objects /\ Free # current /\ \A r \in Readers : held[r] # Free
        /\ Refreshed(g) \in Snapshots /\ Refreshed(g).stats = stats[g]
    BY FreeIsFree, RefreshedTyped
  <2>2. \A h \in Goroutines : h # g => at[h] \in {"none", "end"}
    BY <1>4 DEF Store
  <2>3. /\ at[g] = "store" /\ at' = [at EXCEPT ![g] = Ended(g)] /\ current' = Free
        /\ object' = [object EXCEPT ![Free] = Refreshed(g)]
        /\ UNCHANGED <<db, stats, held, seen, stopped, faults>>
    BY <1>4 DEF Store
  <2> HIDE DEF Refreshed, Free
  <2>4. Types' /\ OneRefresh'
    BY <2>1, <2>3 DEF Ended
  <2>5. HeldUnchanged'
    BY <2>1, <2>3
  <2>6. QueriedInOrder'
    <3>1. object'[current'].stats = stats[g]
      BY <2>1, <2>3
    <3>2. \A h \in Goroutines : at'[h] \notin {"categories", "store"}
      BY <2>2, <2>3 DEF Ended
    <3>3. QED
      BY <2>1, <2>3, <3>1, <3>2
  <2>7. QED
    BY <2>4, <2>5, <2>6
<1>5. CASE Loop \/ TickerFires \/ LoopDone
  BY <1>5 DEF Loop, TickerFires, LoopDone
<1>6. CASE Stop
  BY <1>6 DEF Stop
<1>7. CASE OrdersChange
  <2>1. db' = db + 1 /\ UNCHANGED <<at, stats, object, current, held, seen, stopped, faults>>
    BY <1>7 DEF OrdersChange
  <2>2. Types' /\ OneRefresh' /\ HeldUnchanged'
    BY <2>1
  <2>3. QueriedInOrder'
    <3>1. \A g \in Goroutines : stats[g].orders \in Nat /\ stats[g].categories \in Nat
      OBVIOUS
    <3>2. current # NIL => /\ object[current].stats.orders \in Nat
                          /\ object[current].stats.categories \in Nat
      BY DEF Snapshots
    <3>3. QED
      BY <2>1, <3>1, <3>2
  <2>4. QED
    BY <2>2, <2>3
<1>8. ASSUME NEW r \in Readers, Get(r) PROVE IndInv'
  <2>1. object[current] \in Snapshots /\ current \in Objects
    BY <1>8 DEF Get
  <2>2. QED
    BY <1>8, <2>1 DEF Get
<1>9. ASSUME NEW r \in Readers, Reply(r) PROVE IndInv'
  BY <1>9, BlankTyped DEF Reply
<1>10. CASE UNCHANGED vars
  BY <1>10 DEF vars
<1>11. QED
  BY <1>1, <1>2, <1>3, <1>4, <1>5, <1>6, <1>7, <1>8, <1>9, <1>10 DEF Next, RefreshStep, Over

\* It holds in every reachable state.
LEMMA IndInvHolds ==
  ASSUME SnapshotAssumption
  PROVE  Spec => []IndInv
<1>1. Init => IndInv
  BY InitInv
<1>2. IndInv /\ [Next]_vars => IndInv'
  BY StepInv
<1>3. QED
  BY <1>1, <1>2, PTL DEF Spec

\* What a reader reads without the lock is one snapshot, whatever is refreshed.
THEOREM HeldIsStable ==
  ASSUME SnapshotAssumption
  PROVE  Spec => []HeldUnchanged
<1>1. IndInv => HeldUnchanged
  BY DEF IndInv
<1>2. QED
  BY <1>1, IndInvHolds, PTL

\* A refresh never puts older numbers in the place of newer ones.
THEOREM RefreshMonotone ==
  ASSUME SnapshotAssumption
  PROVE  Spec => NeverOlder
<1> DEFINE Advance ==
      current # NIL =>
        LET was == object[current].stats
            is == object'[current'].stats
        IN  is.orders >= was.orders /\ is.categories >= was.categories
<1>1. IndInv /\ [Next]_vars => [Advance]_vars
  <2> SUFFICES ASSUME IndInv, Next, current # NIL PROVE Advance
    OBVIOUS
  <2>1. /\ object[current].stats.orders \in Nat /\ object[current].stats.categories \in Nat
        /\ Types
    BY DEF IndInv, Types, Snapshots
  <2>2. ASSUME NEW g \in Goroutines, Store(g) PROVE Advance
    <3>1. object'[current'].stats = stats[g]
      <4>1. Free \in Objects /\ Refreshed(g).stats = stats[g]
        BY <2>1, FreeIsFree, RefreshedTyped
      <4> HIDE DEF Free, Refreshed
      <4>2. QED
        BY <2>1, <2>2, <4>1 DEF Store, Types
    <3>2. /\ object[current].stats.orders <= stats[g].orders
          /\ object[current].stats.categories <= stats[g].categories
          /\ stats[g].orders \in Nat /\ stats[g].categories \in Nat
      BY <2>1, <2>2 DEF Store, Goto, IndInv, QueriedInOrder, Types
    <3>3. QED
      BY <2>1, <3>1, <3>2
  <2>3. CASE UNCHANGED <<object, current>>
    BY <2>1, <2>3
  <2>4. QED
    BY <2>2, <2>3 DEF Next, RefreshStep, Aggregate, Categories, QueryError, Loop, TickerFires,
       LoopDone, Stop, Get, Reply, OrdersChange, Over, vars
<1>2. QED
  BY <1>1, IndInvHolds, PTL DEF Spec, NeverOlder
=================================================================================
