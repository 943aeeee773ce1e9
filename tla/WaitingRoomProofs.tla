---------------------------- MODULE WaitingRoomProofs ----------------------------
(***************************************************************************)
(* Proofs about WaitingRoom, for any sessions, requests, rate, clock and    *)
(* number of faults: where a session is, in which order sessions leave the  *)
(* queue, and what requests are told.                                       *)
(***************************************************************************)
EXTENDS WaitingRoom, FiniteSetTheorems, TLAPS

\* A session whose ZADD was not sent is nowhere, and a batch is one ZPOPMIN's.
NotSentNowhere ==
  /\ \A s \in Sessions :
       join[s] \in {"new", "stamped"} => s \notin queue \cup batch \cup token \cup gone \cup lost
  /\ Cardinality(batch) <= Rate
  /\ faults = 0 => lost = {}

\* Scores are of the past, and who asked after another's answer has no lower one.
Ordered ==
  /\ \A s \in Sessions : score[s] <= time \div Grain
  /\ \A s, t \in Sessions :
       <<s, t>> \in ahead =>
         join[s] = "joined" /\ join[t] # "new" /\ score[s] <= score[t]

\* What a request knows of its session: it had a token when it was let on, it
\* has lost it once it was served, and those who come late come after that.
VisitsKnow ==
  /\ \A v \in Visits :
       /\ visit[v] = "admitted" => Session[v] \in token \cup gone
       /\ visit[v] = "asking" => join[Session[v]] = "joined"
  /\ faults = 0 =>
       /\ \A v \in Visits :
            /\ visit[v] = "served" => Session[v] \in gone
            /\ visit[v] = "told_admitted" => Session[v] \in token \cup gone
            /\ visit[v] = "not_found" => Session[v] \in batch \cup token \cup gone
       /\ \A v \in late :
            visit[v] \in {"refused", "asking", "not_found"} /\ Session[v] \in gone

IndInv ==
  /\ TypeOK
  /\ NotSentNowhere
  /\ Accounted
  /\ Ordered
  /\ JoinOrderKept
  /\ VisitsKnow

-----------------------------------------------------------------------------
\* A score is a natural number, not above the clock, and grows with it.
LEMMA ScoreGrows ==
  ASSUME NEW t \in Nat
  PROVE  /\ t \div Grain \in 0..t
         /\ t \div Grain <= (t + 1) \div Grain
BY WaitingRoomAssumption

\* What a fault loses is one batch at most.
LEMMA LosesABatch ==
  ASSUME TypeOK, Cardinality(batch) <= Rate, Cardinality(lost) <= Rate * faults
  PROVE  Cardinality(lost \cup batch) <= Rate * (faults + 1)
<1>1. IsFiniteSet(lost) /\ IsFiniteSet(batch)
  BY FS_Subset, WaitingRoomAssumption DEF TypeOK
<1>2. Cardinality(lost \cup batch) <= Cardinality(lost) + Cardinality(batch)
  <2>1. Cardinality(lost \cup batch) = Cardinality(lost) + Cardinality(batch) - Cardinality(lost \cap batch)
    BY <1>1, FS_Union
  <2>2. /\ Cardinality(lost) \in Nat /\ Cardinality(batch) \in Nat
        /\ Cardinality(lost \cap batch) \in Nat
    BY <1>1, FS_CardinalityType, FS_Intersection
  <2>3. QED
    BY <2>1, <2>2
<1>3. /\ Cardinality(lost) \in Nat /\ Cardinality(batch) \in Nat
      /\ Cardinality(lost \cup batch) \in Nat
  BY <1>1, FS_CardinalityType, FS_Union
<1>4. Rate * (faults + 1) = Rate * faults + Rate /\ Rate * faults \in Nat
  BY WaitingRoomAssumption DEF TypeOK
<1>5. QED
  BY <1>2, <1>3, <1>4, WaitingRoomAssumption

\* One fault more allows no less to be lost.
LEMMA FaultAllows ==
  ASSUME TypeOK, Cardinality(lost) <= Rate * faults
  PROVE  Cardinality(lost) <= Rate * (faults + 1)
<1>1. Rate * (faults + 1) = Rate * faults + Rate /\ Rate * faults \in Nat
  BY WaitingRoomAssumption DEF TypeOK
<1>2. Cardinality(lost) \in Nat
  BY FS_Subset, FS_CardinalityType, WaitingRoomAssumption DEF TypeOK
<1>3. QED
  BY <1>1, <1>2, WaitingRoomAssumption

\* Nothing is in a batch that ZPOPMIN did not pop.
LEMMA OldestSmall ==
  ASSUME TypeOK, NEW B \in Oldest
  PROVE  /\ B \subseteq queue /\ Cardinality(B) <= Rate
         /\ \A b \in B, q \in queue \ B : score[b] <= score[q]
<1>1. Cardinality(B) \in Nat
  BY FS_Subset, FS_CardinalityType, WaitingRoomAssumption DEF TypeOK, Oldest
<1>2. QED
  BY <1>1, WaitingRoomAssumption DEF Oldest

\* A batch gets no larger when one of it is granted.
LEMMA GrantShrinks ==
  ASSUME TypeOK, Cardinality(batch) <= Rate, NEW s
  PROVE  Cardinality(batch \ {s}) <= Rate
<1>1. IsFiniteSet(batch)
  BY FS_Subset, WaitingRoomAssumption DEF TypeOK
<1>2. Cardinality(batch \ {s}) <= Cardinality(batch)
      /\ Cardinality(batch) \in Nat /\ Cardinality(batch \ {s}) \in Nat
  BY <1>1, FS_Subset, FS_CardinalityType
<1>3. QED
  BY <1>2, WaitingRoomAssumption

-----------------------------------------------------------------------------
\* The invariant holds initially.
LEMMA InitInv == Init => IndInv
<1> SUFFICES ASSUME Init PROVE IndInv
  OBVIOUS
<1>1. Cardinality({}) = 0
  BY FS_EmptySet
<1>2. TypeOK
  BY WaitingRoomAssumption DEF Init, TypeOK
<1>3. NotSentNowhere
  BY <1>1, WaitingRoomAssumption DEF Init, NotSentNowhere
<1>4. Accounted
  BY <1>1, WaitingRoomAssumption DEF Init, Accounted
<1>5. Ordered /\ JoinOrderKept
  BY ScoreGrows DEF Init, Ordered, JoinOrderKept
<1>6. VisitsKnow
  BY DEF Init, VisitsKnow
<1>7. QED
  BY <1>2, <1>3, <1>4, <1>5, <1>6 DEF IndInv

\* Every step keeps the types.
LEMMA TypeStep ==
  ASSUME TypeOK, [Next]_vars
  PROVE  TypeOK'
<1> USE WaitingRoomAssumption DEF TypeOK
<1>1. CASE Tick
  BY <1>1 DEF Tick
<1>2. ASSUME NEW s \in Sessions, TakeScore(s) PROVE TypeOK'
  <2>1. time \div Grain \in 0..MaxTime
    BY ScoreGrows
  <2>2. ahead' \subseteq Sessions \X Sessions
    BY <1>2 DEF TakeScore
  <2>3. QED
    BY <1>2, <2>1, <2>2 DEF TakeScore
<1>3. ASSUME NEW s \in Sessions, Enqueue(s) \/ EnqueueError(s) PROVE TypeOK'
  BY <1>3 DEF Enqueue, EnqueueError, Fault, session
<1>4. CASE PopBatch
  BY <1>4, OldestSmall DEF PopBatch, session
<1>5. ASSUME NEW s \in Sessions, Grant(s) \/ TokenExpires(s) PROVE TypeOK'
  BY <1>5 DEF Grant, TokenExpires, session
<1>6. CASE GrantError
  BY <1>6 DEF GrantError, Fault, session
<1>7. CASE Crash
  BY <1>7 DEF Crash, Fault, session
<1>8. ASSUME NEW v \in Visits, Check(v) \/ CheckError(v) PROVE TypeOK'
  BY <1>8 DEF Check, CheckError, Fault, session
<1>9. ASSUME NEW v \in Visits, Consume(v) PROVE TypeOK'
  BY <1>9 DEF Consume, Fault, session
<1>10. ASSUME NEW v \in Visits, AskToken(v) \/ AskPosition(v) PROVE TypeOK'
  BY <1>10 DEF AskToken, AskPosition, Fault, session
<1>11. CASE UNCHANGED vars
  BY <1>11 DEF vars, session
<1>12. QED
  BY <1>1, <1>2, <1>3, <1>4, <1>5, <1>6, <1>7, <1>8, <1>9, <1>10, <1>11 DEF Next

\* Every step leaves a session in one place, and loses a batch at most.
LEMMA PlaceStep ==
  ASSUME TypeOK, NotSentNowhere, Accounted, VisitsKnow, [Next]_vars
  PROVE  NotSentNowhere' /\ Accounted'
<1> USE WaitingRoomAssumption DEF TypeOK, NotSentNowhere, Accounted, session
<1>1. CASE Tick
  BY <1>1 DEF Tick
<1>2. ASSUME NEW s \in Sessions, TakeScore(s) PROVE NotSentNowhere' /\ Accounted'
  BY <1>2 DEF TakeScore
<1>3. ASSUME NEW s \in Sessions, Enqueue(s) PROVE NotSentNowhere' /\ Accounted'
  BY <1>3 DEF Enqueue
<1>4. ASSUME NEW s \in Sessions, EnqueueError(s) PROVE NotSentNowhere' /\ Accounted'
  <2>1. Cardinality(lost) <= Rate * (faults + 1)
    BY FaultAllows
  <2>2. QED
    BY <1>4, <2>1 DEF EnqueueError, Fault
<1>5. CASE PopBatch
  <2>1. batch' \subseteq queue /\ Cardinality(batch') <= Rate
    BY <1>5, OldestSmall DEF PopBatch
  <2>2. QED
    BY <1>5, <2>1 DEF PopBatch
<1>6. ASSUME NEW s \in Sessions, Grant(s) PROVE NotSentNowhere' /\ Accounted'
  BY <1>6, GrantShrinks DEF Grant
<1>7. ASSUME NEW s \in Sessions, TokenExpires(s) PROVE NotSentNowhere' /\ Accounted'
  BY <1>7 DEF TokenExpires
<1>8. CASE GrantError
  <2>1. Cardinality(lost \cup batch) <= Rate * (faults + 1) /\ Cardinality({}) = 0
    BY LosesABatch, FS_EmptySet
  <2>2. QED
    BY <1>8, <2>1 DEF GrantError, Fault
<1>9. CASE Crash
  <2>1. Cardinality(lost \cup batch) <= Rate * (faults + 1) /\ Cardinality({}) = 0
    BY LosesABatch, FS_EmptySet
  <2>2. QED
    BY <1>9, <2>1 DEF Crash, Fault
<1>10. ASSUME NEW v \in Visits, Check(v) PROVE NotSentNowhere' /\ Accounted'
  BY <1>10 DEF Check
<1>11. ASSUME NEW v \in Visits, CheckError(v) \/ Consume(v) \/ AskToken(v) \/ AskPosition(v)
       PROVE  NotSentNowhere' /\ Accounted'
  <2>1. Cardinality(lost) <= Rate * (faults + 1)
    BY FaultAllows
  <2>2. QED
    BY <1>11, <2>1 DEF CheckError, Consume, AskToken, AskPosition, Fault
<1>12. CASE UNCHANGED vars
  BY <1>12 DEF vars
<1>13. QED
  BY <1>1, <1>2, <1>3, <1>4, <1>5, <1>6, <1>7, <1>8, <1>9, <1>10, <1>11, <1>12 DEF Next

\* Every step keeps the order of those who joined one after the other.
LEMMA OrderStep ==
  ASSUME TypeOK, NotSentNowhere, Ordered, JoinOrderKept, [Next]_vars
  PROVE  Ordered' /\ JoinOrderKept'
<1> USE DEF TypeOK, NotSentNowhere, Ordered, JoinOrderKept, session
<1>1. CASE Tick
  <2>1. time \div Grain \in Nat /\ (time + 1) \div Grain \in Nat
        /\ time \div Grain <= (time + 1) \div Grain
    BY ScoreGrows
  <2>2. QED
    BY <1>1, <2>1 DEF Tick
<1>2. ASSUME NEW s \in Sessions, TakeScore(s) PROVE Ordered' /\ JoinOrderKept'
  <2>1. time \div Grain \in Nat
    BY ScoreGrows
  <2>2. \A t \in Sessions : <<t, s>> \notin ahead /\ <<s, t>> \notin ahead /\ s \notin queue
    BY <1>2 DEF TakeScore
  <2>3. QED
    BY <1>2, <2>1, <2>2 DEF TakeScore
<1>3. ASSUME NEW s \in Sessions, Enqueue(s) \/ EnqueueError(s) PROVE Ordered' /\ JoinOrderKept'
  BY <1>3 DEF Enqueue, EnqueueError
<1>4. CASE PopBatch
  <2>1. batch' \subseteq queue /\ \A b \in batch', q \in queue \ batch' : score[b] <= score[q]
    BY <1>4, OldestSmall DEF PopBatch
  <2>2. QED
    BY <1>4, <2>1 DEF PopBatch
<1>5. CASE Crash
  BY <1>5 DEF Crash
<1>6. CASE UNCHANGED <<session, queue>>
  BY <1>6
<1>7. QED
  BY <1>1, <1>2, <1>3, <1>4, <1>5, <1>6 DEF Next, Grant, GrantError, TokenExpires, Check,
     CheckError, Consume, AskToken, AskPosition, vars

\* Every step keeps what requests know of their sessions.
LEMMA VisitStep ==
  ASSUME TypeOK, NotSentNowhere, Accounted, VisitsKnow, [Next]_vars
  PROVE  VisitsKnow'
<1> USE WaitingRoomAssumption DEF TypeOK, NotSentNowhere, VisitsKnow, session
<1>1. CASE Tick
  BY <1>1 DEF Tick
<1>2. ASSUME NEW s \in Sessions, TakeScore(s) \/ Enqueue(s) \/ EnqueueError(s) PROVE VisitsKnow'
  BY <1>2 DEF TakeScore, Enqueue, EnqueueError, Fault
<1>3. CASE PopBatch
  BY <1>3 DEF PopBatch
<1>4. ASSUME NEW s \in Sessions, Grant(s) \/ TokenExpires(s) PROVE VisitsKnow'
  BY <1>4 DEF Grant, TokenExpires
<1>5. CASE GrantError
  BY <1>5 DEF GrantError, Fault
<1>6. CASE Crash
  BY <1>6 DEF Crash, Fault
<1>7. ASSUME NEW v \in Visits, Check(v) PROVE VisitsKnow'
  BY <1>7 DEF Check, Served, Accounted
<1>8. ASSUME NEW v \in Visits, CheckError(v) PROVE VisitsKnow'
  BY <1>8 DEF CheckError, Fault
<1>9. ASSUME NEW v \in Visits, Consume(v) PROVE VisitsKnow'
  BY <1>9 DEF Consume, Fault
<1>10. ASSUME NEW v \in Visits, AskToken(v) PROVE VisitsKnow'
  BY <1>10 DEF AskToken, Served, Accounted, Fault
<1>11. ASSUME NEW v \in Visits, AskPosition(v) PROVE VisitsKnow'
  BY <1>11 DEF AskPosition, Accounted, Fault
<1>12. CASE UNCHANGED vars
  BY <1>12 DEF vars
<1>13. QED
  BY <1>1, <1>2, <1>3, <1>4, <1>5, <1>6, <1>7, <1>8, <1>9, <1>10, <1>11, <1>12 DEF Next

-----------------------------------------------------------------------------
\* The invariant holds in every reachable state.
LEMMA IndInvHolds == Spec => []IndInv
<1>1. IndInv /\ [Next]_vars => IndInv'
  BY TypeStep, PlaceStep, OrderStep, VisitStep DEF IndInv
<1>2. QED
  BY <1>1, InitInv, PTL DEF Spec

\* Redis, the admitter and the requests stay within their types.
THEOREM TypeCorrect == Spec => []TypeOK
<1>1. IndInv => TypeOK
  BY DEF IndInv
<1>2. QED
  BY <1>1, IndInvHolds, PTL

\* A session that joined is in one place, and a fault loses one batch at most.
THEOREM NobodyVanishes == Spec => []Accounted
<1>1. IndInv => Accounted
  BY DEF IndInv
<1>2. QED
  BY <1>1, IndInvHolds, PTL

\* First come, first served, but for equal scores.
THEOREM FirstComeFirstServed == Spec => []JoinOrderKept
<1>1. IndInv => JoinOrderKept
  BY DEF IndInv
<1>2. QED
  BY <1>1, IndInvHolds, PTL

\* Who was let in is not let in again later, unless Redis fails.
THEOREM ReplaysAreRefused == Spec => []ReplayRefused
<1>1. IndInv => ReplayRefused
  BY DEF IndInv, VisitsKnow, ReplayRefused
<1>2. QED
  BY <1>1, IndInvHolds, PTL

\* What Status has told stays true, unless Redis fails.
THEOREM StatusIsTrue == Spec => []StatusTruthful
<1>1. IndInv => StatusTruthful
  BY WaitingRoomAssumption DEF IndInv, TypeOK, VisitsKnow, Accounted, StatusTruthful
<1>2. QED
  BY <1>1, IndInvHolds, PTL
==================================================================================
