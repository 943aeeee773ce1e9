----------------------------- MODULE IndependentProofs -----------------------------
(***************************************************************************)
(* Proofs about MCIndependent, for all values of its constants.             *)
(*                                                                         *)
(* First ReadPaths: types, which requests an outage of the cache fails, and *)
(* that template's group makes its cache and its answers monotonic.  Then   *)
(* the breaker and its gauge.  Last the module that runs the components:    *)
(* a behaviour of it is, seen through the variables of one component, a     *)
(* behaviour of that one, so that what GatewayProofs, SnapshotProofs and    *)
(* LRUProofs prove carries over.                                            *)
(***************************************************************************)
EXTENDS MCIndependent, SequenceTheorems, WellFoundedInduction, TLAPS

\* A set of numbers with a bound has a greatest element.
LEMMA Greatest ==
  ASSUME NEW n \in Nat, NEW V, V \subseteq 0..n, V # {}
  PROVE  \E v \in V : \A w \in V : w <= v
<1> DEFINE R == OpToRel(<, Nat)
           T == {n - w : w \in V}
<1>1. T \subseteq Nat /\ T # {}
  <2> HIDE DEF R
  <2>1. \A w \in V : n - w \in Nat
    OBVIOUS
  <2>2. QED
    BY <2>1
<1>2. PICK x \in T : \A y \in T : ~(<<y, x>> \in R)
  <2>1. IsWellFoundedOn(R, Nat)
    BY NatLessThanWellFounded
  <2> HIDE DEF R, T
  <2>2. QED
    BY <1>1, <2>1, WFMin
<1>3. \A y \in T : ~(y < x)
  BY <1>1, <1>2 DEF OpToRel
<1> HIDE DEF R
<1>4. PICK v \in V : x = n - v
  OBVIOUS
<1>5. \A w \in V : ~(n - w < x)
  BY <1>3
<1>6. QED
  BY <1>4, <1>5

-----------------------------------------------------------------------------
\* Only template groups its loads, and it is strict.
LEMMA Traits ==
  ASSUME service \in DOMAIN Services
  PROVE  /\ Is.group <=> service = "template"
         /\ service = "template" => Is.strict /\ Is.fills
BY DEF Services, Is, Aside, Through, Template, Gateway, Weather, Flags, XFetch

\* Only template's requests wait for others.
Ungrouped == service # "template" => \A r \in Requests : at[r] \notin {"do", "follow"}

\* A value is there to be stored, and it is not an error; the source has one.
Loaded ==
  /\ Is.fills => db \in Versions
  /\ \A r \in Requests : at[r] = "store" => val[r] \in Versions

\* Who has not loaded has no answer, who does not follow has a flight of its own,
\* and a request that its lookup failed is over.
Own ==
  \A r \in Requests :
    /\ at[r] \in {"idle", "get", "do", "follow"} => reply[r] = NONE
    /\ at[r] \notin {"follow", "done"} => flight[r] = r
    /\ <<r, "lookup">> \in failed => at[r] = "done"

\* A follower's flight is a load of its leader's, whose lookup did not fail.
Shared ==
  \A r \in Requests :
    at[r] = "follow" =>
      \A q \in Requests :
        q = flight[r] =>
          /\ at[q] \in {"load", "store", "done"}
          /\ flight[q] = q /\ <<q, "lookup">> \notin failed

OutageInv == TypeOK /\ Ungrouped /\ Loaded /\ Own /\ Shared /\ OutageIsNoError

\* The invariant holds initially.
LEMMA OutageInit ==
  ASSUME Init
  PROVE  OutageInv
BY ReadPathsAssumption DEF Init, OutageInv, TypeOK, Ungrouped, Loaded, Own, Shared,
   OutageIsNoError, Versions, NONE, ERROR

\* What a request begins with is a version or nothing.
LEMMA BeginTyped ==
  ASSUME TypeOK
  PROVE  /\ (CHOOSE v \in Answered \cup {NONE} : \A w \in Answered : w <= v)
               \in Answered \cup {NONE}
         /\ Answered \subseteq Versions
<1> DEFINE V == Answered \cup {NONE}
<1>1. Answered \subseteq Versions
  BY DEF Answered
<1>2. V \subseteq 0..MaxVersion /\ V # {} /\ MaxVersion \in Nat
  BY <1>1, ReadPathsAssumption DEF Versions, NONE
<1>3. \E v \in V : \A w \in V : w <= v
  <2> HIDE DEF V
  <2>1. QED
    BY <1>2, Greatest
<1>4. \E v \in V : \A w \in Answered : w <= v
  BY <1>3
<1>5. QED
  BY <1>1, <1>4

\* Every step keeps it.
LEMMA OutageStep ==
  ASSUME OutageInv, [Next]_vars
  PROVE  OutageInv'
<1> USE ReadPathsAssumption DEF OutageInv, TypeOK, Ungrouped, Loaded, Own, Shared,
        OutageIsNoError, Versions, NONE, ERROR, Goto, Fault, Answer, history, Is
<1>1. ASSUME NEW r \in Requests, Request(r) PROVE OutageInv'
  <2>1. begin' \in [Requests -> Versions \cup {NONE}]
    BY <1>1, BeginTyped DEF Request
  <2>2. QED
    BY <1>1, <2>1 DEF Request
<1>2. ASSUME NEW r \in Requests, Hit(r) PROVE OutageInv'
  BY <1>2 DEF Hit
<1>3. ASSUME NEW r \in Requests, Miss(r) PROVE OutageInv'
  BY <1>3, Traits DEF Miss, Uncached
<1>4. ASSUME NEW r \in Requests, LookupError(r) PROVE OutageInv'
  BY <1>4, Traits DEF LookupError, Uncached
<1>5. ASSUME NEW r \in Requests, Do(r) PROVE OutageInv'
  BY <1>5 DEF Do, Flights
<1>6. ASSUME NEW r \in Requests, Follow(r) PROVE OutageInv'
  <2>1. PICK q \in Requests : q = flight[r]
    OBVIOUS
  <2>2. /\ at[r] = "follow" /\ at[q] = "done" /\ reply[r] = NONE /\ q # r
        /\ flight[q] = q /\ <<q, "lookup">> \notin failed
        /\ at' = [at EXCEPT ![r] = "done"] /\ reply' = [reply EXCEPT ![r] = reply[q]]
        /\ UNCHANGED <<service, cached, db, val, flight, faults, begin, failed>>
    BY <1>6, <2>1 DEF Follow
  <2>3. TypeOK' /\ Ungrouped' /\ Loaded' /\ Own'
    BY <2>2
  <2>4. Shared'
    BY <2>2
  <2>5. reply[q] = ERROR /\ Is.fills => <<flight[r], "load">> \in failed
    BY <2>1, <2>2
  <2>6. OutageIsNoError'
    BY <2>1, <2>2, <2>5
  <2>7. QED
    BY <2>3, <2>4, <2>6
<1>7. ASSUME NEW r \in Requests, Load(r) PROVE OutageInv'
  BY <1>7 DEF Load
<1>8. ASSUME NEW r \in Requests, LoadError(r) PROVE OutageInv'
  BY <1>8 DEF LoadError
<1>9. ASSUME NEW r \in Requests, Store(r) PROVE OutageInv'
  BY <1>9 DEF Store
<1>10. ASSUME NEW r \in Requests, Default(r) PROVE OutageInv'
  BY <1>10 DEF Default
<1>11. ASSUME NEW r \in Requests, DefaultError(r) PROVE OutageInv'
  BY <1>11 DEF DefaultError
<1>12. CASE DefaultsExpire \/ SetFlags \/ Expire \/ SourceChanges
  BY <1>12 DEF DefaultsExpire, SetFlags, Expire, SourceChanges
<1>13. CASE UNCHANGED vars
  BY <1>13 DEF vars
<1>14. QED
  BY <1>1, <1>2, <1>3, <1>4, <1>5, <1>6, <1>7, <1>8, <1>9, <1>10, <1>11, <1>12, <1>13
  DEF Next, Step, Quiet

\* Every reachable state is well typed: no error is ever cached.
THEOREM ReadPathsTyped == Spec => []TypeOK
<1>1. OutageInv => TypeOK
  BY DEF OutageInv
<1>2. Init => OutageInv
  BY OutageInit
<1>3. OutageInv /\ [Next]_vars => OutageInv'
  BY OutageStep
<1>4. QED
  BY <1>1, <1>2, <1>3, PTL DEF Spec

\* A cache that is down fails no request of a service that has a source, unless
\* the service is strict and it is the request's own lookup that failed; a follower
\* of template gets no other error than its flight's load.  (flags, whose fallback
\* is in the same cache, is left out; see DefaultsAnswer.)
THEOREM OutagesPass == Spec => []OutageIsNoError
<1>1. OutageInv => OutageIsNoError
  BY DEF OutageInv
<1>2. Init => OutageInv
  BY OutageInit
<1>3. OutageInv /\ [Next]_vars => OutageInv'
  BY OutageStep
<1>4. QED
  BY <1>1, <1>2, <1>3, PTL DEF Spec

-----------------------------------------------------------------------------
\* template: one flight at a time loads and stores.
OneFlight == \A q, r \in Flights : q = r

\* Nothing is newer than the source, and what is about to be stored is not older
\* than what is cached.
LoadedInOrder ==
  /\ cached <= db
  /\ \A r \in Requests : at[r] = "store" => val[r] <= db /\ cached <= val[r]

\* Who has not ended has no answer yet; a value that may be answered next is not
\* older than any that has been answered.
AnsweredInOrder ==
  /\ \A r \in Requests :
       /\ at[r] # "done" => reply[r] = NONE
       /\ faults = 0 /\ at[r] = "done" => reply[r] \in Versions
       /\ begin[r] \in Answered \cup {NONE}
  /\ \A a \in Answered :
       /\ a <= db
       /\ faults = 0 /\ cached # NONE => a <= cached
       /\ \A r \in Requests : faults = 0 /\ at[r] = "store" => a <= val[r]

\* A follower's flight is under way, or has ended with an answer that is new
\* enough for it.
Led ==
  \A r \in Requests :
    at[r] = "follow" =>
      /\ at[flight[r]] \in {"load", "store", "done"}
      /\ faults = 0 /\ at[flight[r]] = "done" => begin[r] <= reply[flight[r]]

TemplateInv ==
  /\ OutageInv
  /\ service = "template" =>
       OneFlight /\ LoadedInOrder /\ AnsweredInOrder /\ Led /\ MonotonicReads

\* The invariant holds initially.
LEMMA TemplateInit ==
  ASSUME Init
  PROVE  TemplateInv
<1>1. OutageInv
  BY OutageInit
<1>2. QED
  BY <1>1, ReadPathsAssumption DEF Init, TemplateInv, OneFlight, Flights, LoadedInOrder,
     AnsweredInOrder, Answered, Led, MonotonicReads, Versions, NONE

\* In a template service every step keeps it.
LEMMA TemplateStep ==
  ASSUME TemplateInv, [Next]_vars, service = "template"
  PROVE  TemplateInv'
<1>1. OutageInv' /\ service' = service
  BY OutageStep DEF TemplateInv, Next, Step, Request, Hit, Miss, LookupError, Do, Follow, Load,
     Default, DefaultError, LoadError, Store, DefaultsExpire, SetFlags, Expire, SourceChanges,
     Quiet, vars
<1>2. Is.group /\ ~Is.refresh /\ Is.fills
  BY DEF Is, Services, Template
<1>3. TypeOK /\ Loaded /\ TypeOK' /\ service' = "template" /\ service = "template"
  BY <1>1 DEF TemplateInv, OutageInv
<1> SUFFICES OneFlight' /\ LoadedInOrder' /\ AnsweredInOrder' /\ Led' /\ MonotonicReads'
  BY <1>1 DEF TemplateInv
<1>4. OneFlight /\ LoadedInOrder /\ AnsweredInOrder /\ Led /\ MonotonicReads
  BY DEF TemplateInv
<1> USE <1>3, <1>4, ReadPathsAssumption DEF TypeOK, Loaded, OneFlight, Flights, LoadedInOrder,
        AnsweredInOrder, Answered, Led, MonotonicReads, Versions, NONE, ERROR, Goto, Fault,
        Answer, history
<1>5. ASSUME NEW r \in Requests, Request(r)
      PROVE  OneFlight' /\ LoadedInOrder' /\ AnsweredInOrder' /\ Led' /\ MonotonicReads'
  <2>1. begin'[r] \in Answered \cup {NONE}
    BY <1>5, BeginTyped DEF Request
  <2>2. QED
    BY <1>5, <2>1 DEF Request
<1>6. ASSUME NEW r \in Requests, Hit(r)
      PROVE  OneFlight' /\ LoadedInOrder' /\ AnsweredInOrder' /\ Led' /\ MonotonicReads'
  BY <1>2, <1>6 DEF Hit
<1>7. ASSUME NEW r \in Requests, Miss(r)
      PROVE  OneFlight' /\ LoadedInOrder' /\ AnsweredInOrder' /\ Led' /\ MonotonicReads'
  BY <1>2, <1>7 DEF Miss, Uncached
<1>8. ASSUME NEW r \in Requests, LookupError(r)
      PROVE  OneFlight' /\ LoadedInOrder' /\ AnsweredInOrder' /\ Led' /\ MonotonicReads'
  BY <1>2, <1>8 DEF LookupError, Uncached
<1>9. ASSUME NEW r \in Requests, Do(r)
      PROVE  OneFlight' /\ LoadedInOrder' /\ AnsweredInOrder' /\ Led' /\ MonotonicReads'
  BY <1>9, SMTT(30) DEF Do
<1>10. ASSUME NEW r \in Requests, Follow(r)
       PROVE  OneFlight' /\ LoadedInOrder' /\ AnsweredInOrder' /\ Led' /\ MonotonicReads'
  BY <1>10 DEF Follow
<1>11. ASSUME NEW r \in Requests, Load(r)
       PROVE  OneFlight' /\ LoadedInOrder' /\ AnsweredInOrder' /\ Led' /\ MonotonicReads'
  BY <1>11 DEF Load
<1>12. ASSUME NEW r \in Requests, LoadError(r)
       PROVE  OneFlight' /\ LoadedInOrder' /\ AnsweredInOrder' /\ Led' /\ MonotonicReads'
  BY <1>12 DEF LoadError
<1>13. ASSUME NEW r \in Requests, Store(r)
       PROVE  OneFlight' /\ LoadedInOrder' /\ AnsweredInOrder' /\ Led' /\ MonotonicReads'
  <2>1. /\ at[r] = "store" /\ reply[r] = NONE /\ val[r] \in Versions
        /\ at' = [at EXCEPT ![r] = "done"] /\ reply' = [reply EXCEPT ![r] = val[r]]
        /\ cached' \in {cached, val[r]} /\ (faults' = 0 => faults = 0 /\ cached' = val[r])
        /\ UNCHANGED <<db, val, flight, begin, failed>>
    <3>1. at[r] = "store" /\ at' = [at EXCEPT ![r] = "done"] /\ UNCHANGED <<db, val, flight, begin, failed>>
      BY <1>13 DEF Store
    <3>2. reply[r] = NONE /\ val[r] \in Versions
      BY <3>1
    <3>3. reply' = [reply EXCEPT ![r] = val[r]]
      BY <1>13, <3>2 DEF Store
    <3>4. cached' \in {cached, val[r]} /\ (faults' = 0 => faults = 0 /\ cached' = val[r])
      BY <1>13 DEF Store
    <3>5. QED
      BY <3>1, <3>2, <3>3, <3>4
  <2>2. \A q \in Requests : at'[q] \notin {"load", "store"}
    BY <2>1
  <2>3. Answered' = Answered \cup {val[r]}
    <3>1. \A q \in Requests : reply'[q] = IF q = r THEN val[r] ELSE reply[q]
      BY <2>1
    <3>2. NONE \notin Versions
      OBVIOUS
    <3>3. QED
      BY <2>1, <3>1, <3>2
  <2>4. OneFlight' /\ LoadedInOrder'
    BY <2>1, <2>2
  <2>5. AnsweredInOrder'
    BY <2>1, <2>2, <2>3
  <2>6. \A q \in Requests : faults = 0 => begin[q] <= val[r]
    BY <2>1
  <2>7. Led' /\ MonotonicReads'
    BY <2>1, <2>2, <2>6
  <2>8. QED
    BY <2>4, <2>5, <2>7
<1>14. CASE Expire \/ SourceChanges
  BY <1>14 DEF Expire, SourceChanges
<1>15. CASE UNCHANGED vars
  BY <1>15 DEF vars
<1>16. QED
  BY <1>2, <1>5, <1>6, <1>7, <1>8, <1>9, <1>10, <1>11, <1>12, <1>13, <1>14, <1>15
  DEF Next, Step, Default, DefaultError, DefaultsExpire, SetFlags, Quiet

\* The copy in template's cache goes back only by its TTL.
LEMMA CopyStep ==
  ASSUME TemplateInv, [Next]_vars
  PROVE  [service = "template" /\ cached # NONE /\ cached' # NONE => cached' >= cached]_vars
<1> SUFFICES ASSUME Next, service = "template" PROVE cached' >= cached \/ cached' = NONE
  OBVIOUS
<1>1. cached \in Nat
  BY ReadPathsAssumption DEF TemplateInv, OutageInv, TypeOK, Versions, NONE
<1>2. ASSUME NEW r \in Requests, Store(r) PROVE cached' >= cached
  BY <1>1, <1>2, ReadPathsAssumption DEF TemplateInv, LoadedInOrder, Store, Goto, OutageInv,
     Loaded, Versions
<1>3. Is.fills
  BY DEF Is, Services, Template
<1>4. QED
  BY <1>1, <1>2, <1>3 DEF Next, Step, Request, Hit, Miss, LookupError, Do, Follow, Load, Default,
     DefaultError, LoadError, DefaultsExpire, SetFlags, Expire, SourceChanges, Quiet, vars

\* In every reachable state of template the invariant holds.
LEMMA TemplateInvHolds == Spec => []TemplateInv
<1>1. Init => TemplateInv
  BY TemplateInit
<1>2. TemplateInv /\ [Next]_vars => TemplateInv'
  <2> SUFFICES ASSUME TemplateInv, [Next]_vars PROVE TemplateInv'
    OBVIOUS
  <2>1. CASE service = "template"
    BY <2>1, TemplateStep
  <2>2. CASE service # "template"
    <3>1. OutageInv' /\ service' = service
      BY OutageStep DEF TemplateInv, Next, Step, Request, Hit, Miss, LookupError, Do, Follow, Load,
         Default, DefaultError, LoadError, Store, DefaultsExpire, SetFlags, Expire,
         SourceChanges, Quiet, vars
    <3>2. QED
      BY <2>2, <3>1 DEF TemplateInv
  <2>3. QED
    BY <2>1, <2>2
<1>3. QED
  BY <1>1, <1>2, PTL DEF Spec

\* No late load of template brings an older version back.
THEOREM CopyMonotone == Spec => CopyNeverGoesBack
<1>1. TemplateInv /\ [Next]_vars =>
        [service = "template" /\ cached # NONE /\ cached' # NONE => cached' >= cached]_vars
  BY CopyStep
<1>2. QED
  BY <1>1, TemplateInvHolds, PTL DEF Spec, CopyNeverGoesBack

\* A request of template never sees an older version than one answered before it.
THEOREM ReadsMonotone == Spec => []MonotonicReads
<1>1. TemplateInv => MonotonicReads
  BY DEF TemplateInv, MonotonicReads
<1>2. QED
  BY <1>1, TemplateInvHolds, PTL

-----------------------------------------------------------------------------
\* The reports of the breaker that are still to be made are labels, three at most
\* for a request.
ReportsTyped == sets \in [Clients -> Seq(B!States)] /\ \A r \in Clients : Len(sets[r]) <= 3

\* The gauge never settles on no state at all: when every transition has been
\* reported, a label is 1.  (It may be the wrong one, or one of two; see
\* GaugeConsistent of BreakerGauge.)
GaugeNotBlank ==
  (\A r \in Clients : sets[r] = <<>>) => \E l \in B!States : gauge[l] = 1

BreakerInv ==
  /\ B!TypeOK
  /\ gauge \in [B!States -> {0, 1}]
  /\ ReportsTyped
  /\ GaugeNotBlank

\* The invariant holds initially.
LEMMA BreakerInit ==
  ASSUME B!GInit
  PROVE  BreakerInv
<1>1. B!TypeOK
  BY MCAssumption DEF B!GInit, B!Init, B!TypeOK, B!States, B!BreakerAssumption
<1>2. gauge \in [B!States -> {0, 1}] /\ gauge["closed"] = 1 /\ "closed" \in B!States
  BY DEF B!GInit, B!Showing, B!States
<1>3. sets \in [Clients -> Seq(B!States)] /\ \A r \in Clients : sets[r] = <<>>
  BY DEF B!GInit
<1>4. QED
  BY <1>1, <1>2, <1>3 DEF BreakerInv, ReportsTyped, GaugeNotBlank

\* What a transition has to report is three labels.
LEMMA EventLabels ==
  ASSUME NEW event \in B!States
  PROVE  /\ B!OnCircuitBreakerEvent(event) \in Seq(B!States)
         /\ Len(B!OnCircuitBreakerEvent(event)) = 3
<1>1. CASE event = "open"
  <2>1. B!OnCircuitBreakerEvent(event) = <<"closed", "half_open", "open">>
    BY <1>1 DEF B!OnCircuitBreakerEvent
  <2>2. QED
    BY <2>1 DEF B!States
<1>2. CASE event = "closed"
  <2>1. B!OnCircuitBreakerEvent(event) = <<"open", "half_open", "closed">>
    BY <1>2 DEF B!OnCircuitBreakerEvent
  <2>2. QED
    BY <2>1 DEF B!States
<1>3. CASE event = "half_open"
  <2>1. B!OnCircuitBreakerEvent(event) = <<"open", "closed", "half_open">>
    BY <1>3 DEF B!OnCircuitBreakerEvent
  <2>2. QED
    BY <2>1 DEF B!States
<1>4. QED
  BY <1>1, <1>2, <1>3 DEF B!States

\* A step of the breaker proper keeps its types.
LEMMA BreakerStepTyped ==
  ASSUME B!TypeOK, NEW r \in Clients,
         B!Enter(r) \/ B!Silent(r) \/ B!Swap(r) \/ B!CloseBreaker(r) \/ B!Trip(r) \/ B!Compute(r)
  PROVE  B!TypeOK'
<1> USE MCAssumption DEF B!BreakerAssumption, B!TypeOK, B!States, B!Goto, B!Admitted
<1>1. CASE B!Enter(r) \/ B!Swap(r) \/ B!CloseBreaker(r) \/ B!Trip(r) \/ B!Compute(r)
  BY <1>1 DEF B!Enter, B!Swap, B!CloseBreaker, B!Trip, B!Compute
<1>2. CASE B!Load(r)
  BY <1>2 DEF B!Load
<1>3. CASE B!Reject(r) \/ B!ResetTimeoutOver(r) \/ B!FromCache(r)
  BY <1>3 DEF B!Reject, B!ResetTimeoutOver, B!FromCache
<1>4. CASE B!Reset(r) \/ B!Stamp(r)
  <2>1. 0 \in 0..MaxFailures
    OBVIOUS
  <2>2. CASE B!Reset(r)
    BY <2>1, <2>2 DEF B!Reset
  <2>3. CASE B!Stamp(r)
    BY <2>3 DEF B!Stamp
  <2>4. QED
    BY <1>4, <2>2, <2>3
<1>5. CASE B!Count(r)
  <2>1. failures' \in 0..MaxFailures
    BY <1>5 DEF B!Count
  <2>2. pc' = [pc EXCEPT ![r] = "trip"] \/ pc' = [pc EXCEPT ![r] = "idle"]
    BY <1>5 DEF B!Count
  <2>3. UNCHANGED <<state, cooled, up>>
    BY <1>5 DEF B!Count
  <2>4. QED
    BY <2>1, <2>2, <2>3
<1>6. CASE B!Silent(r)
  <2>1. B!Load(r) \/ B!Reject(r) \/ B!ResetTimeoutOver(r) \/ B!FromCache(r) \/ B!Reset(r)
        \/ B!Stamp(r) \/ B!Count(r)
    BY <1>6 DEF B!Silent
  <2>2. QED
    BY <1>2, <1>3, <1>4, <1>5, <2>1
<1>7. QED
  BY <1>1, <1>6

\* Every step keeps the invariant.
LEMMA BreakerStep ==
  ASSUME BreakerInv, [B!GNext]_B!gvars
  PROVE  BreakerInv'
<1> USE DEF BreakerInv
<1>1. ASSUME UNCHANGED <<gauge, sets>>, B!TypeOK'
      PROVE  BreakerInv'
  BY <1>1 DEF ReportsTyped, GaugeNotBlank
<1>2. ASSUME NEW r \in Clients, NEW event \in B!States, B!emit(r, event), B!TypeOK'
      PROVE  BreakerInv'
  <2> DEFINE labels == B!OnCircuitBreakerEvent(event)
  <2>1. sets' = [sets EXCEPT ![r] = labels] /\ gauge' = gauge
    BY <1>2 DEF B!emit
  <2>2. labels \in Seq(B!States) /\ Len(labels) = 3 /\ labels # <<>>
    BY EventLabels, EmptySeq
  <2> HIDE DEF labels
  <2>3. ReportsTyped'
    <3>1. sets \in [Clients -> Seq(B!States)] /\ \A q \in Clients : Len(sets[q]) <= 3
      BY DEF ReportsTyped
    <3>2. sets' \in [Clients -> Seq(B!States)]
      BY <2>1, <2>2, <3>1
    <3>3. \A q \in Clients : sets'[q] = IF q = r THEN labels ELSE sets[q]
      BY <2>1, <3>1
    <3>4. ASSUME NEW q \in Clients PROVE Len(sets'[q]) <= 3
      <4>1. CASE q = r
        <5>1. Len(sets'[q]) = 3
          BY <2>2, <3>3, <4>1, Zenon
        <5>2. QED
          BY <5>1
      <4>2. CASE q # r
        <5>1. sets'[q] = sets[q]
          BY <3>3, <4>2, Zenon
        <5>2. QED
          BY <3>1, <5>1
      <4>3. QED
        BY <4>1, <4>2
    <3>5. QED
      BY <3>2, <3>4 DEF ReportsTyped
  <2>4. GaugeNotBlank'
    <3>1. sets'[r] = labels
      BY <2>1 DEF ReportsTyped
    <3>2. QED
      BY <2>2, <3>1 DEF GaugeNotBlank
  <2>5. QED
    BY <1>2, <2>1, <2>3, <2>4
<1>3. ASSUME NEW r \in Clients, B!SetGauge(r) PROVE BreakerInv'
  <2> DEFINE s == sets[r]
  <2>1. s \in Seq(B!States) /\ s # <<>> /\ Len(s) <= 3
    BY <1>3 DEF B!SetGauge, ReportsTyped
  <2>2. /\ Head(s) \in B!States /\ Tail(s) \in Seq(B!States) /\ Len(Tail(s)) = Len(s) - 1
        /\ Len(s) \in Nat
    BY <2>1, HeadTailProperties, LenProperties
  <2>3. /\ gauge' = [gauge EXCEPT ![Head(s)] = IF Len(s) = 1 THEN 1 ELSE 0]
        /\ sets' = [sets EXCEPT ![r] = Tail(s)] /\ UNCHANGED B!vars
    BY <1>3 DEF B!SetGauge
  <2> HIDE DEF s
  <2>4. B!TypeOK'
    BY <2>3 DEF B!TypeOK, B!vars
  <2>5. gauge' \in [B!States -> {0, 1}]
    BY <2>2, <2>3
  <2>6. ReportsTyped'
    BY <2>1, <2>2, <2>3 DEF ReportsTyped
  <2>7. GaugeNotBlank'
    <3>1. CASE Len(s) = 1
      BY <2>2, <2>3, <3>1 DEF GaugeNotBlank
    <3>2. CASE Len(s) # 1
      <4>1. Len(s) # 0
        BY <2>1, EmptySeq
      <4>2. Tail(s) # <<>>
        <5>1. Len(Tail(s)) # 0
          BY <2>2, <3>2
        <5>2. QED
          BY <5>1, EmptySeq
      <4>3. QED
        BY <2>3, <4>2 DEF GaugeNotBlank, ReportsTyped
    <3>3. QED
      BY <3>1, <3>2
  <2>8. QED
    BY <2>4, <2>5, <2>6, <2>7
<1>4. ASSUME NEW r \in Clients,
             \/ B!GEnter(r) \/ B!GCompute(r)
             \/ B!Silent(r) \/ B!GSwap(r) \/ B!GCloseBreaker(r) \/ B!GTrip(r)
      PROVE  BreakerInv'
  <2>1. B!TypeOK'
    BY <1>4, BreakerStepTyped DEF B!GEnter, B!GCompute, B!GSwap, B!GCloseBreaker, B!GTrip
  <2>2. \/ UNCHANGED <<gauge, sets>>
        \/ \E event \in B!States : B!emit(r, event)
    BY <1>4 DEF B!GEnter, B!GCompute, B!Silent, B!GSwap, B!GCloseBreaker, B!GTrip, B!gaugeVars,
       B!States
  <2>3. QED
    BY <1>1, <1>2, <2>1, <2>2
<1>5. CASE (B!ResetTimeoutPasses \/ B!OriginChanges) /\ UNCHANGED B!gaugeVars
  <2>1. B!TypeOK'
    BY <1>5 DEF B!ResetTimeoutPasses, B!OriginChanges, B!TypeOK
  <2>2. QED
    BY <1>1, <1>5, <2>1 DEF B!gaugeVars
<1>6. CASE UNCHANGED B!gvars
  <2>1. B!TypeOK' /\ UNCHANGED <<gauge, sets>>
    BY <1>6 DEF B!gvars, B!vars, B!gaugeVars, B!TypeOK
  <2>2. QED
    BY <1>1, <2>1
<1>7. QED
  BY <1>3, <1>4, <1>5, <1>6 DEF B!GNext, B!GRequestStep

\* It holds in every reachable state of the breaker.
LEMMA BreakerInvHolds == B!GSpec => []BreakerInv
<1>1. B!GInit => BreakerInv
  BY BreakerInit
<1>2. BreakerInv /\ [B!GNext]_B!gvars => BreakerInv'
  BY BreakerStep
<1>3. QED
  BY <1>1, <1>2, PTL DEF B!GSpec

\* The atomics of the breaker and its gauge stay within their types, whichever
\* operations of the requests interleave.
THEOREM BreakerTyped == B!GSpec => []B!GTypeOK
<1>1. BreakerInv => B!GTypeOK
  <2> SUFFICES ASSUME BreakerInv, NEW r \in Clients, NEW i \in 1..Len(sets[r])
               PROVE  sets[r][i] \in B!States
    BY DEF BreakerInv, ReportsTyped, B!GTypeOK
  <2>1. sets[r] \in Seq(B!States)
    BY DEF BreakerInv, ReportsTyped
  <2>2. QED
    BY <2>1, ElementOfSeq
<1>2. QED
  BY <1>1, BreakerInvHolds, PTL

\* After the last of its reports the breaker shows a state, if not always its own.
THEOREM GaugeShowsAState == B!GSpec => []GaugeNotBlank
<1>1. BreakerInv => GaugeNotBlank
  BY DEF BreakerInv
<1>2. QED
  BY <1>1, BreakerInvHolds, PTL

-----------------------------------------------------------------------------
\* What is left of the report on the current state, and what of it is done.
Reporting(r) ==
  \E a, b \in B!States :
    /\ B!States = {a, b, state}
    /\ \/ sets[r] = <<a, b, state>>
       \/ sets[r] = <<b, state>> /\ gauge[a] = 0
       \/ sets[r] = <<state>> /\ gauge[a] = 0 /\ gauge[b] = 0

\* A lone request is either reporting the state it has just set, or has reported it.
LoneInv ==
  /\ BreakerInv
  /\ \A r \in Clients : (sets[r] = <<>> /\ gauge = B!Showing(state)) \/ Reporting(r)

\* Each transition is reported in full, the new state last.
LEMMA ReportOf ==
  ASSUME NEW event \in B!States
  PROVE  \E a, b \in B!States :
           B!States = {a, b, event} /\ B!OnCircuitBreakerEvent(event) = <<a, b, event>>
<1>1. CASE event = "open"
  <2>1. B!OnCircuitBreakerEvent(event) = <<"closed", "half_open", event>>
    BY <1>1 DEF B!OnCircuitBreakerEvent
  <2>2. QED
    BY <1>1, <2>1 DEF B!States
<1>2. CASE event = "closed"
  <2>1. B!OnCircuitBreakerEvent(event) = <<"open", "half_open", event>>
    BY <1>2 DEF B!OnCircuitBreakerEvent
  <2>2. QED
    BY <1>2, <2>1 DEF B!States
<1>3. CASE event = "half_open"
  <2>1. B!OnCircuitBreakerEvent(event) = <<"open", "closed", event>>
    BY <1>3 DEF B!OnCircuitBreakerEvent
  <2>2. QED
    BY <1>3, <2>1 DEF B!States
<1>4. QED
  BY <1>1, <1>2, <1>3 DEF B!States

\* A lone request keeps it.
LEMMA LoneStep ==
  ASSUME LoneInv, [B!GNext]_B!gvars, NEW c, Clients = {c}
  PROVE  LoneInv'
<1> DEFINE Told == (sets[c] = <<>> /\ gauge = B!Showing(state)) \/ Reporting(c)
<1>1. BreakerInv /\ BreakerInv' /\ Told
  BY BreakerStep DEF LoneInv
<1> SUFFICES Told'
  BY <1>1 DEF LoneInv
<1>2. ASSUME UNCHANGED <<gauge, sets, state>> PROVE Told'
  BY <1>1, <1>2 DEF Reporting, B!Showing, B!States
<1>3. ASSUME NEW event \in B!States, B!emit(c, event), state' = event PROVE Told'
  <2>1. PICK a \in B!States, b \in B!States :
           B!States = {a, b, event} /\ B!OnCircuitBreakerEvent(event) = <<a, b, event>>
    BY ReportOf
  <2>2. sets'[c] = <<a, b, state'>>
    BY <1>1, <1>3, <2>1 DEF B!emit, BreakerInv, ReportsTyped
  <2>3. Reporting(c)'
    BY <1>3, <2>1, <2>2 DEF Reporting, B!States
  <2>4. QED
    BY <2>3
<1>4. CASE B!SetGauge(c)
  <2>1. /\ gauge' = [gauge EXCEPT ![Head(sets[c])] = IF Len(sets[c]) = 1 THEN 1 ELSE 0]
        /\ sets'[c] = Tail(sets[c]) /\ state' = state /\ sets[c] # <<>>
    BY <1>1, <1>4 DEF B!SetGauge, B!vars, BreakerInv, ReportsTyped
  <2>2. gauge \in [B!States -> {0, 1}] /\ state \in B!States
    BY <1>1 DEF BreakerInv, B!TypeOK
  <2>3. PICK a \in B!States, b \in B!States :
          /\ B!States = {a, b, state}
          /\ \/ sets[c] = <<a, b, state>>
             \/ sets[c] = <<b, state>> /\ gauge[a] = 0
             \/ sets[c] = <<state>> /\ gauge[a] = 0 /\ gauge[b] = 0
    BY <1>1, <2>1 DEF Reporting
  <2>4. CASE sets[c] = <<a, b, state>>
    <3>1. sets'[c] = <<b, state'>> /\ gauge'[a] = 0
      BY <2>1, <2>2, <2>4
    <3>2. QED
      BY <2>1, <2>3, <3>1 DEF Reporting, B!States
  <2>5. CASE sets[c] = <<b, state>> /\ gauge[a] = 0
    <3>1. sets'[c] = <<state'>> /\ gauge'[b] = 0 /\ gauge'[a] = 0
      BY <2>1, <2>2, <2>5
    <3>2. QED
      BY <2>1, <2>3, <3>1 DEF Reporting, B!States
  <2>6. CASE sets[c] = <<state>> /\ gauge[a] = 0 /\ gauge[b] = 0
    <3>1. a # state /\ b # state
      BY <2>3 DEF B!States
    <3>2. sets'[c] = <<>> /\ gauge' = [gauge EXCEPT ![state] = 1]
      BY <2>1, <2>6
    <3>3. gauge' = B!Showing(state)
      BY <2>2, <2>3, <2>6, <3>1, <3>2 DEF B!Showing
    <3>4. QED
      BY <2>1, <3>2, <3>3 DEF B!Showing, B!States
  <2>7. QED
    BY <2>3, <2>4, <2>5, <2>6
<1>5. CASE B!GEnter(c) \/ B!GCompute(c) \/ B!Silent(c)
  BY <1>2, <1>5 DEF B!GEnter, B!Enter, B!GCompute, B!Compute, B!Silent, B!Load, B!Reject,
     B!ResetTimeoutOver, B!FromCache, B!Reset, B!Stamp, B!Count, B!gaugeVars
<1>6. CASE B!GSwap(c)
  <2>1. CASE state = "open"
    BY <1>3, <1>6, <2>1 DEF B!GSwap, B!Swap, B!States
  <2>2. CASE state # "open"
    BY <1>2, <1>6, <2>2 DEF B!GSwap, B!Swap, B!gaugeVars
  <2>3. QED
    BY <2>1, <2>2
<1>7. CASE B!GCloseBreaker(c)
  BY <1>3, <1>7 DEF B!GCloseBreaker, B!CloseBreaker, B!States
<1>8. CASE B!GTrip(c)
  BY <1>3, <1>8 DEF B!GTrip, B!Trip, B!States
<1>9. CASE (B!ResetTimeoutPasses \/ B!OriginChanges) /\ UNCHANGED B!gaugeVars
  BY <1>2, <1>9 DEF B!ResetTimeoutPasses, B!OriginChanges, B!gaugeVars
<1>10. CASE UNCHANGED B!gvars
  BY <1>2, <1>10 DEF B!gvars, B!vars, B!gaugeVars
<1>11. QED
  BY <1>4, <1>5, <1>6, <1>7, <1>8, <1>9, <1>10 DEF B!GNext, B!GRequestStep

\* Interleaved reports are all that is wrong with the gauge: of a breaker that one
\* request uses it shows the state whenever the report is over.
THEOREM GaugeRightAlone ==
  ASSUME NEW c, Clients = {c}
  PROVE  B!GSpec => []B!GaugeConsistent
<1>1. B!GInit => LoneInv
  BY BreakerInit DEF LoneInv, B!GInit, B!Init
<1>2. LoneInv /\ [B!GNext]_B!gvars => LoneInv'
  BY LoneStep
<1>3. LoneInv => B!GaugeConsistent
  <2> SUFFICES ASSUME LoneInv, sets[c] = <<>> PROVE gauge = B!Showing(state)
    BY DEF B!GaugeConsistent
  <2>1. ~Reporting(c)
    BY DEF Reporting
  <2>2. QED
    BY <2>1 DEF LoneInv
<1>4. QED
  BY <1>1, <1>2, <1>3, PTL DEF B!GSpec

-----------------------------------------------------------------------------
\* The proofs about the other components, of their variables here.
GP == INSTANCE GatewayProofs WITH
        Keys <- GatewayKeys, Key <- SameKey, NONE <- NIL, pc <- next, reply <- returned
SP == INSTANCE SnapshotProofs WITH db <- orders, at <- doing, faults <- errors
LP == INSTANCE LRUProofs

\* What a component assumes of its constants is assumed here.
LEMMA Assumptions ==
  GP!GatewayAssumption /\ SP!SnapshotAssumption /\ LP!LRUAssumption
BY MCAssumption DEF G!GatewayAssumption, GP!GatewayAssumption, S!SnapshotAssumption,
   SP!SnapshotAssumption, S!HeapSuffices, SP!HeapSuffices, L!LRUAssumption, LP!LRUAssumption

\* A step is a step of one component, and nothing happens to the others.
LEMMA OneComponentSteps ==
  ASSUME [MCNext]_allVars
  PROVE  [Next]_vars /\ [B!GNext]_ofBreaker /\ [G!Next]_ofGateway /\ [S!Next]_ofSnapshot
         /\ [L!Next]_ofLRU
BY DEF MCNext, allVars, ReadPath, Breaker, AtGateway, SnapshotStore, LRUCache

\* Seen through the variables of one component a behaviour is one of that component.
LEMMA BreakerRuns == MCSpec => B!GSpec
<1>1. MCInit => B!GInit
  BY DEF MCInit
<1>2. [MCNext]_allVars => [B!GNext]_B!gvars
  BY OneComponentSteps DEF B!gvars, B!vars, B!gaugeVars, ofBreaker
<1>3. QED
  BY <1>1, <1>2, PTL DEF MCSpec, B!GSpec

LEMMA ReadPathsRun == MCSpec => Spec
<1>1. MCInit => Init
  BY DEF MCInit
<1>2. [MCNext]_allVars => [Next]_vars
  BY OneComponentSteps
<1>3. QED
  BY <1>1, <1>2, PTL DEF MCSpec, Spec

LEMMA GatewayRuns == MCSpec => GP!Spec
<1>1. MCInit => GP!Init
  BY DEF MCInit, G!Init, GP!Init
<1>2. [MCNext]_allVars => [GP!Next]_GP!vars
  <2>1. [MCNext]_allVars => [G!Next]_ofGateway
    BY OneComponentSteps
  <2>2. ASSUME [G!Next]_ofGateway PROVE [GP!Next]_GP!vars
    BY <2>2 DEF ofGateway, G!vars, GP!vars, G!Next, GP!Next, G!Step, GP!Step, G!Quiet, GP!Quiet,
       G!Join, GP!Join, G!Register, GP!Register, G!Fetch, GP!Fetch, G!FetchError, GP!FetchError,
       G!Lock, GP!Lock, G!Store, GP!Store, G!Done, GP!Done, G!Wake, GP!Wake, G!Read, GP!Read,
       G!ReadRaces, GP!ReadRaces, G!Assigned, GP!Assigned, G!Goto, GP!Goto, G!MuFree, GP!MuFree,
       G!Landed, GP!Landed, G!Call, GP!Call
  <2>3. QED
    BY <2>1, <2>2
<1>3. QED
  BY <1>1, <1>2, PTL DEF MCSpec, GP!Spec

LEMMA SnapshotRuns == MCSpec => SP!Spec
<1>1. MCInit => SP!Init
  BY DEF MCInit, S!Init, SP!Init, S!Goroutines, SP!Goroutines, S!Blank, SP!Blank, S!Empty, SP!Empty
<1>2. [MCNext]_allVars => [SP!Next]_SP!vars
  <2>1. [MCNext]_allVars => [S!Next]_ofSnapshot
    BY OneComponentSteps
  <2>2. ASSUME [S!Next]_ofSnapshot PROVE [SP!Next]_SP!vars
    BY <2>2 DEF ofSnapshot, S!vars, SP!vars, S!Next, SP!Next,
       S!RefreshStep, SP!RefreshStep, S!Over, SP!Over, S!Aggregate, SP!Aggregate, S!Categories, SP!Categories, S!QueryError, SP!QueryError,
       S!Store, SP!Store, S!Refreshed, SP!Refreshed, S!Free, SP!Free, S!Loop, SP!Loop,
       S!TickerFires, SP!TickerFires, S!LoopDone, SP!LoopDone, S!Stop, SP!Stop, S!Get, SP!Get,
       S!Reply, SP!Reply, S!OrdersChange, SP!OrdersChange, S!Goto, SP!Goto, S!Ended, SP!Ended,
       S!Goroutines, SP!Goroutines, S!Empty, SP!Empty, S!Blank, SP!Blank
  <2>3. QED
    BY <2>1, <2>2
<1>3. QED
  BY <1>1, <1>2, PTL DEF MCSpec, SP!Spec

LEMMA LRURuns == MCSpec => LP!Spec
<1>1. MCInit => LP!Init
  BY DEF MCInit, L!Init, LP!Init
<1>2. [MCNext]_allVars => [LP!Next]_LP!vars
  <2>1. [MCNext]_allVars => [L!Next]_ofLRU
    BY OneComponentSteps
  <2>2. ASSUME NEW l, NEW n
        PROVE  L!AddToHead(l, n) = LP!AddToHead(l, n) /\ L!MoveToHead(l, n) = LP!MoveToHead(l, n)
    BY DEF L!AddToHead, LP!AddToHead, L!MoveToHead, LP!MoveToHead, L!SetPrev, LP!SetPrev,
       L!SetNext, LP!SetNext
  <2>3. ASSUME NEW l PROVE L!RemoveTail(l) = LP!RemoveTail(l)
    BY DEF L!RemoveTail, LP!RemoveTail, L!SetNext, LP!SetNext
  <2>4. ASSUME NEW T PROVE L!Cardinality(T) = LP!Cardinality(T)
    BY DEF L!Cardinality, LP!Cardinality, L!IsFiniteSet, LP!IsFiniteSet
  <2>5. \A k \in Keys : L!Get(k) => LP!Get(k)
    BY <2>2 DEF L!Get, LP!Get
  <2>6. \A k \in Keys : \A v \in Values : L!Update(k, v) => LP!Update(k, v)
    BY <2>2 DEF L!Update, LP!Update
  <2>7. \A k \in Keys : \A v \in Values : L!Insert(k, v) => LP!Insert(k, v)
    BY <2>2, <2>3, <2>4 DEF L!Insert, LP!Insert
  <2>8. L!Next => LP!Next
    BY <2>5, <2>6, <2>7 DEF L!Next, LP!Next
  <2>9. QED
    BY <2>1, <2>8 DEF ofLRU, LP!vars
<1>3. QED
  BY <1>1, <1>2, PTL DEF MCSpec, LP!Spec

\* The read paths, the breaker and the gateway stay within their types.
THEOREM TypesCorrect == MCSpec => []TypesOK
<1>1. MCSpec => []TypeOK
  BY ReadPathsRun, ReadPathsTyped, PTL
<1>2. MCSpec => []B!GTypeOK
  BY BreakerRuns, BreakerTyped, PTL
<1>3. MCSpec => []GP!TypeOK
  <2>1. GP!Spec => []GP!TypeOK
    BY Assumptions, GP!TypeCorrect
  <2>2. QED
    BY <2>1, GatewayRuns, PTL
<1>4. GP!TypeOK => G!TypeOK
  BY DEF GP!TypeOK, G!TypeOK
<1>5. QED
  BY <1>1, <1>2, <1>3, <1>4, PTL DEF TypesOK

\* No answer of the gateway is older than its request.
THEOREM GatewayAnswersNotEarlier == MCSpec => []GatewayNotEarlier
<1>1. GP!Spec => []GP!NotFromEarlierFlight
  BY Assumptions, GP!AnswersAreNotEarlier
<1>2. GP!NotFromEarlierFlight => GatewayNotEarlier
  BY DEF GatewayNotEarlier, GP!NotFromEarlierFlight, G!NotFromEarlierFlight
<1>3. QED
  BY <1>1, <1>2, GatewayRuns, PTL

\* What a reader of the snapshot got does not change under it.
THEOREM SnapshotHoldsStill == MCSpec => []SnapshotHeld
<1>1. SP!Spec => []SP!HeldUnchanged
  BY Assumptions, SP!HeldIsStable
<1>2. SP!HeldUnchanged => SnapshotHeld
  BY DEF SnapshotHeld, SP!HeldUnchanged, S!HeldUnchanged
<1>3. QED
  BY <1>1, <1>2, SnapshotRuns, PTL

\* No refresh of the snapshot puts older numbers in newer ones' place.
THEOREM SnapshotGoesForward == MCSpec => SnapshotNeverOlder
<1>1. SP!Spec => SP!NeverOlder
  BY Assumptions, SP!RefreshMonotone
<1>2. SP!NeverOlder => SnapshotNeverOlder
  BY DEF SnapshotNeverOlder, SP!NeverOlder, S!NeverOlder, SP!vars, S!vars
<1>3. QED
  BY <1>1, <1>2, SnapshotRuns, PTL

\* The map of the LRU cache and its doubly linked list agree.
THEOREM LRUMapAndListAgree == MCSpec => []LRUListMatchesMap
<1>1. LP!Spec => []LP!ListMatchesMap
  BY Assumptions, LP!ListAndMapAgree
<1>2. LP!ListMatchesMap => LRUListMatchesMap
  BY DEF LRUListMatchesMap, L!ListMatchesMap, LP!ListMatchesMap, L!Orders, LP!Orders,
     L!SeqOf, LP!SeqOf, L!Follows, LP!Follows, L!LeadsBack, LP!LeadsBack,
     L!IsInjective, LP!IsInjective, L!ToSet, LP!ToSet
<1>3. QED
  BY <1>1, <1>2, LRURuns, PTL

\* The LRU cache behaves as the abstract one: what it evicts was used longest ago.
THEOREM LRUIsRecencyList == MCSpec => LRUImplementsRecencyList
<1>1. LP!Spec => LP!ImplementsRecencyList
  BY Assumptions, LP!Refinement
<1>2. LP!Chain(list) = L!Chain(list)
  BY DEF LP!Chain, L!Chain, LP!Orders, L!Orders, LP!SeqOf, L!SeqOf, LP!Follows, L!Follows
<1>3. LP!Recency!Init => L!Recency!Init
  BY <1>2 DEF LP!Recency!Init, L!Recency!Init
<1>4. [LP!Recency!Next]_LP!Recency!vars => [L!Recency!Next]_L!Recency!vars
  BY DEF L!Recency!Next, LP!Recency!Next, L!Recency!vars, LP!Recency!vars,
     L!Recency!Get, LP!Recency!Get, L!Recency!Put, LP!Recency!Put,
     L!Recency!Absent, LP!Recency!Absent, L!Recency!RemoveAt, LP!Recency!RemoveAt,
     L!Recency!Front, LP!Recency!Front, L!Chain, LP!Chain, L!Orders, LP!Orders,
     L!SeqOf, LP!SeqOf, L!Follows, LP!Follows
<1>5. LP!ImplementsRecencyList => LRUImplementsRecencyList
  BY <1>3, <1>4, PTL DEF LRUImplementsRecencyList, L!ImplementsRecencyList, L!Recency!Spec,
     LP!ImplementsRecencyList, LP!Recency!Spec
<1>6. QED
  BY <1>1, <1>5, LRURuns, PTL
====================================================================================
