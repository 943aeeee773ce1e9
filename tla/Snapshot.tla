--------------------------------- MODULE Snapshot ---------------------------------
(***************************************************************************)
(* snapshot: Store (internal/snapshot/store.go), the two queries of         *)
(* ComputeStats and the handlers that read the store.                       *)
(*                                                                          *)
(* Start refreshes once on main's goroutine, before the server listens, and *)
(* then on a ticker's.  The orders table is its version; a query sees the   *)
(* version of its own moment, and the two of a refresh are no transaction.  *)
(* A reader takes the pointer under the read lock and reads what it points  *)
(* to afterwards; Go reuses an object only when nobody points to it.        *)
(***************************************************************************)
EXTENDS Naturals

CONSTANTS
  Readers,       \* requests to /api/stats or /api/health, one after the other
  Objects,       \* heap objects for Snapshots
  NIL,           \* the nil pointer
  MaxDb,         \* bound: versions of the orders table
  MaxRefreshes,  \* bound: the snapshot's version saturates there
  MaxFaults      \* bound: failing queries

\* Whatever is pointed to, there is room for one Snapshot more.
HeapSuffices ==
  \A c \in Objects \cup {NIL}, h \in [Readers -> Objects \cup {NIL}] :
    \E o \in Objects : o # c /\ \A r \in Readers : h[r] # o

\* What the constants must be.
SnapshotAssumption ==
  /\ NIL \notin Objects
  /\ MaxDb \in Nat \ {0} /\ MaxRefreshes \in Nat \ {0} /\ MaxFaults \in Nat
  /\ HeapSuffices

VARIABLES
  db,       \* the orders table
  at,       \* at[g]: where goroutine g is
  stats,    \* stats[g]: what its queries have returned
  object,   \* object[o]: the Snapshot in o
  current,  \* the store's pointer
  held,     \* held[r]: the pointer Get gave reader r
  seen,     \* history: seen[r]: what it pointed to then
  stopped,  \* ctx is cancelled
  faults    \* faults so far

vars == <<db, at, stats, object, current, held, seen, stopped, faults>>

Goroutines == {"start", "loop"}
Empty == [orders |-> 0, categories |-> 0]
Blank == [stats |-> Empty, version |-> 0]

Init ==
  /\ db = 1
  /\ at = [g \in Goroutines |-> IF g = "start" THEN "aggregate" ELSE "none"]
  /\ stats = [g \in Goroutines |-> Empty]
  /\ object = [o \in Objects |-> Blank]
  /\ current = NIL
  /\ held = [r \in Readers |-> NIL]
  /\ seen = [r \in Readers |-> Blank]
  /\ stopped = FALSE /\ faults = 0

Goto(g, from, to) == at[g] = from /\ at' = [at EXCEPT ![g] = to]

\* What follows a refresh, be it done or failed.
Ended(g) == IF g = "start" THEN "end" ELSE "wait"

-----------------------------------------------------------------------------
\* refresh

Aggregate(g) ==
  /\ Goto(g, "aggregate", "categories")
  /\ stats' = [stats EXCEPT ![g].orders = db]
  /\ UNCHANGED <<db, object, current, held, seen, stopped, faults>>

Categories(g) ==
  /\ Goto(g, "categories", "store")
  /\ stats' = [stats EXCEPT ![g].categories = db]
  /\ UNCHANGED <<db, object, current, held, seen, stopped, faults>>

\* Mutant: a failed refresh ends its goroutine.
QueryErrorEnds(g) ==
  /\ Goto(g, "aggregate", "end") \/ Goto(g, "categories", "end")
  /\ stopped \/ faults < MaxFaults
  /\ faults' = IF stopped THEN faults ELSE faults + 1
  /\ UNCHANGED <<db, stats, object, current, held, seen, stopped>>

\* The snapshot stays as it is.  Every query fails once ctx is cancelled.
QueryError(g) ==
  /\ Goto(g, "aggregate", Ended(g)) \/ Goto(g, "categories", Ended(g))
  /\ stopped \/ faults < MaxFaults
  /\ faults' = IF stopped THEN faults ELSE faults + 1
  /\ UNCHANGED <<db, stats, object, current, held, seen, stopped>>

Refreshed(g) ==
  LET last == IF current = NIL THEN 0 ELSE object[current].version
  IN  [stats |-> stats[g], version |-> IF last < MaxRefreshes THEN last + 1 ELSE last]

\* Mutant: the snapshot that is there is overwritten.
StoreInPlace(g) ==
  /\ Goto(g, "store", Ended(g))
  /\ current' = IF current = NIL THEN CHOOSE o \in Objects : TRUE ELSE current
  /\ object' = [object EXCEPT ![current'] = Refreshed(g)]
  /\ UNCHANGED <<db, stats, held, seen, stopped, faults>>

\* Which free object a new Snapshot gets makes no difference.
Free == CHOOSE o \in Objects : o # current /\ \A r \in Readers : held[r] # o

\* Under the write lock: a new object takes the old one's place.
Store(g) ==
  /\ Goto(g, "store", Ended(g))
  /\ object' = [object EXCEPT ![Free] = Refreshed(g)]
  /\ current' = Free
  /\ UNCHANGED <<db, stats, held, seen, stopped, faults>>

-----------------------------------------------------------------------------
\* Start

\* Mutant: the first refresh runs on a goroutine of its own.
LoopAtOnce ==
  /\ Goto("loop", "none", "wait")
  /\ UNCHANGED <<db, stats, object, current, held, seen, stopped, faults>>

Loop ==
  /\ at["start"] = "end"
  /\ Goto("loop", "none", "wait")
  /\ UNCHANGED <<db, stats, object, current, held, seen, stopped, faults>>

TickerFires ==
  /\ Goto("loop", "wait", "aggregate")
  /\ UNCHANGED <<db, stats, object, current, held, seen, stopped, faults>>

LoopDone ==
  /\ stopped
  /\ Goto("loop", "wait", "end")
  /\ UNCHANGED <<db, stats, object, current, held, seen, stopped, faults>>

\* SIGTERM, or the server fails.
Stop ==
  /\ ~stopped
  /\ stopped' = TRUE
  /\ UNCHANGED <<db, at, stats, object, current, held, seen, faults>>

-----------------------------------------------------------------------------
\* The handlers.  Without a snapshot Stats answers 503 and holds nothing.

Get(r) ==
  /\ at["loop"] # "none"
  /\ held[r] = NIL /\ current # NIL
  /\ held' = [held EXCEPT ![r] = current]
  /\ seen' = [seen EXCEPT ![r] = object[current]]
  /\ UNCHANGED <<db, at, stats, object, current, stopped, faults>>

Reply(r) ==
  /\ held[r] # NIL
  /\ held' = [held EXCEPT ![r] = NIL]
  /\ seen' = [seen EXCEPT ![r] = Blank]
  /\ UNCHANGED <<db, at, stats, object, current, stopped, faults>>

OrdersChange ==
  /\ db < MaxDb
  /\ db' = db + 1
  /\ UNCHANGED <<at, stats, object, current, held, seen, stopped, faults>>

RefreshStep(g) == Aggregate(g) \/ Categories(g) \/ QueryError(g) \/ Store(g)

\* The service has come to its end.
Over == stopped /\ at["loop"] = "end" /\ UNCHANGED vars

Next ==
  \/ \E g \in Goroutines : RefreshStep(g)
  \/ Loop \/ TickerFires \/ LoopDone \/ Stop
  \/ \E r \in Readers : Get(r) \/ Reply(r)
  \/ OrdersChange \/ Over

Spec == Init /\ [][Next]_vars

\* Go runs both goroutines on, the database answers or fails, the ticker fires.
FairSpec ==
  /\ Spec
  /\ \A g \in Goroutines : WF_vars(RefreshStep(g))
  /\ WF_vars(Loop) /\ WF_vars(TickerFires)

-----------------------------------------------------------------------------
\* What a reader got does not change under it: the fields it reads one after the
\* other, without the lock, are those of one snapshot, whatever refreshes pass.
HeldUnchanged == \A r \in Readers : held[r] # NIL => object[held[r]] = seen[r]

\* A refresh never puts older numbers in the place of newer ones, neither the
\* totals nor the categories: the first refresh is over before the loop starts.
NeverOlder ==
  [][current # NIL =>
       LET was == object[current].stats
           is == object'[current'].stats
       IN  is.orders >= was.orders /\ is.categories >= was.categories]_vars

\* Failed refreshes are made up for: when the orders no longer change, the
\* snapshot comes to show them, unless the service is being stopped.
CatchesUp ==
  <>[](stopped \/ (current # NIL /\ object[current].stats = [orders |-> db, categories |-> db]))
===================================================================================
