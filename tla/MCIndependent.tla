------------------------------ MODULE MCIndependent ------------------------------
(***************************************************************************)
(* The components that share no state with any other, for one run of TLC:   *)
(* ReadPaths, BreakerGauge, GatewayCoalescing, Snapshot and LRU.  A         *)
(* behaviour is one of the one that running says; the others stay in their  *)
(* initial state.                                                           *)
(***************************************************************************)
EXTENDS ReadPaths, Integers

CONSTANTS
  NIL,
  Clients, Threshold, MaxFailures,     \* of BreakerGauge
  Callers, GatewayKeys,                   \* of GatewayCoalescing
  Readers, Objects, MaxDb, MaxRefreshes,  \* of Snapshot
  Keys, Values, Capacity                  \* of LRU

VARIABLES
  running,
  state, failures, cooled, pc, up, gauge, sets,                              \* of BreakerGauge
  inflight, results, next, resp, joined, released, returned, fatal, earlier, \* of GatewayCoalescing
  orders, doing, stats, object, current, held, seen, stopped, errors,        \* of Snapshot
  cache, value, list, result                                                 \* of LRU

ofBreaker == <<state, failures, cooled, pc, up, gauge, sets>>
ofGateway == <<inflight, results, next, resp, joined, released, returned, fatal, earlier>>
ofSnapshot == <<orders, doing, stats, object, current, held, seen, stopped, errors>>
ofLRU == <<cache, value, list, result>>
allVars == <<running, vars, ofBreaker, ofGateway, ofSnapshot, ofLRU>>

\* At the gateway everybody asks for the same key.
SameKey == [c \in Callers |-> CHOOSE k \in GatewayKeys : TRUE]

\* Two values of the LRU cache, one of them what Get answers for no entry.
Numbers == {-1, 0}

B == INSTANCE BreakerGauge WITH Requests <- Clients
G == INSTANCE GatewayCoalescing WITH
       Keys <- GatewayKeys, Key <- SameKey, NONE <- NIL, pc <- next, reply <- returned
S == INSTANCE Snapshot WITH db <- orders, at <- doing, faults <- errors
L == INSTANCE LRU

ASSUME MCAssumption ==
  B!BreakerAssumption /\ G!GatewayAssumption /\ S!SnapshotAssumption /\ L!LRUAssumption

\* Init of ReadPaths picks a service; that matters only where ReadPaths runs.
MCInit ==
  /\ running \in {"read_paths", "breaker", "gateway", "snapshot", "lru"}
  /\ Init /\ B!GInit /\ G!Init /\ S!Init /\ L!Init
  /\ running # "read_paths" => service = "aside"

\* A step of one of them.
ReadPath(A) ==
  running = "read_paths" /\ A /\ UNCHANGED <<running, ofBreaker, ofGateway, ofSnapshot, ofLRU>>
Breaker(A) ==
  running = "breaker" /\ A /\ UNCHANGED <<running, vars, ofGateway, ofSnapshot, ofLRU>>
AtGateway(A) ==
  running = "gateway" /\ A /\ UNCHANGED <<running, vars, ofBreaker, ofSnapshot, ofLRU>>
SnapshotStore(A) ==
  running = "snapshot" /\ A /\ UNCHANGED <<running, vars, ofBreaker, ofGateway, ofLRU>>
LRUCache(A) ==
  running = "lru" /\ A /\ UNCHANGED <<running, vars, ofBreaker, ofGateway, ofSnapshot>>

MCNext ==
  \/ ReadPath(Next) \/ Breaker(B!GNext) \/ AtGateway(G!Next)
  \/ SnapshotStore(S!Next) \/ LRUCache(L!Next)

\* The fairness each of them assumes; LRU has none.
MCSpec ==
  /\ MCInit /\ [][MCNext]_allVars
  /\ WF_allVars(ReadPath(\E r \in Requests : Step(r)))
  /\ \A r \in Clients :
       /\ WF_allVars(Breaker(B!GEnter(r))) /\ WF_allVars(Breaker(B!GRequestStep(r)))
       /\ SF_allVars(Breaker(B!GCompute(r)))
  /\ WF_allVars(Breaker(B!ResetTimeoutPasses /\ UNCHANGED <<gauge, sets>>))
  /\ WF_allVars(AtGateway(\E c \in Callers : G!Step(c)))
  /\ \A g \in S!Goroutines : WF_allVars(SnapshotStore(S!RefreshStep(g)))
  /\ WF_allVars(SnapshotStore(S!Loop)) /\ WF_allVars(SnapshotStore(S!TickerFires))

-----------------------------------------------------------------------------
\* The breaker with its gauge, the gateway and the read paths stay within their
\* types; for the other two see SnapshotHeld and LRUListMatchesMap.
TypesOK == TypeOK /\ B!GTypeOK /\ G!TypeOK

\* Recovers of BreakerGauge: the breaker closes for good when the origin is up,
\* and the gauge shows it.
BreakerRecovers == running = "breaker" => B!Recovers

\* KeepsOpening of CircuitBreaker: it opens again and again while the origin is down.
BreakerKeepsOpening == running = "breaker" => B!KeepsOpening

\* NotFromEarlierFlight of GatewayCoalescing: no answer is older than its request.
GatewayNotEarlier == G!NotFromEarlierFlight

\* CallsReturn of GatewayCoalescing: whoever waits for a flight is let go.
GatewayCallsReturn == G!CallsReturn

\* HeldUnchanged of Snapshot: what a reader got does not change under it.
SnapshotHeld == S!HeldUnchanged

\* NeverOlder of Snapshot: no refresh puts older numbers in newer ones' place.
SnapshotNeverOlder == S!NeverOlder

\* CatchesUp of Snapshot: it comes to show the orders once they do not change.
SnapshotCatchesUp == running = "snapshot" => S!CatchesUp

\* ListMatchesMap of LRU: the map and the doubly linked list agree.
LRUListMatchesMap == running = "lru" => L!ListMatchesMap

\* ImplementsRecencyList of LRU: the cache behaves as the abstract one.
LRUImplementsRecencyList == L!ImplementsRecencyList
==================================================================================
