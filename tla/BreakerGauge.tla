------------------------------ MODULE BreakerGauge ------------------------------
(***************************************************************************)
(* cache-stampede/monitoring: a CircuitBreaker whose OnEvent is              *)
(* Metrics.OnCircuitBreakerEvent (InstrumentCircuitBreaker), that is, the   *)
(* breaker together with the Prometheus gauge that shows its state.         *)
(*                                                                          *)
(* A transition is reported after it was made, by the goroutine that made   *)
(* it, in three calls of Set; each is a step, and the reports of two        *)
(* goroutines interleave.  The counters of events are left out, and with    *)
(* them the events "success" and "failure", which touch nothing else.       *)
(***************************************************************************)
EXTENDS CircuitBreaker, Sequences

VARIABLES
  gauge, \* the value of circuit_breaker_state under each label
  sets   \* sets[r]: the labels request r has still to set, the last one to 1

gaugeVars == <<gauge, sets>>
gvars == <<vars, gaugeVars>>

Showing(s) == [l \in States |-> IF l = s THEN 1 ELSE 0]

\* NewMetrics.
GInit ==
  /\ Init
  /\ gauge = Showing("closed")
  /\ sets = [r \in Requests |-> <<>>]

\* Mutant: a breaker that closes was open, so only that label is reset.
OnlyOpenReset(event) ==
  CASE event = "open" -> <<"closed", "half_open", "open">>
    [] event = "closed" -> <<"open", "closed">>
    [] event = "half_open" -> <<"open", "closed", "half_open">>

OnCircuitBreakerEvent(event) ==
  CASE event = "open" -> <<"closed", "half_open", "open">>
    [] event = "closed" -> <<"open", "half_open", "closed">>
    [] event = "half_open" -> <<"open", "closed", "half_open">>

emit(r, event) ==
  /\ sets' = [sets EXCEPT ![r] = OnCircuitBreakerEvent(event)]
  /\ UNCHANGED gauge

-----------------------------------------------------------------------------
\* The next of the three calls.
SetGauge(r) ==
  /\ sets[r] # <<>>
  /\ gauge' = [gauge EXCEPT ![Head(sets[r])] = IF Len(sets[r]) = 1 THEN 1 ELSE 0]
  /\ sets' = [sets EXCEPT ![r] = Tail(sets[r])]
  /\ UNCHANGED vars

\* The breaker's own operations, each by a request that has reported its last
\* transition.  A CompareAndSwap that lost reports nothing.
GSwap(r) ==
  /\ Swap(r)
  /\ IF state = "open" THEN emit(r, "half_open") ELSE UNCHANGED gaugeVars

GCloseBreaker(r) == CloseBreaker(r) /\ emit(r, "closed")

GTrip(r) == Trip(r) /\ emit(r, "open")

Silent(r) ==
  /\ \/ Load(r) \/ Reject(r) \/ ResetTimeoutOver(r)
     \/ FromCache(r) \/ Reset(r) \/ Stamp(r) \/ Count(r)
  /\ UNCHANGED gaugeVars

GCompute(r) == sets[r] = <<>> /\ Compute(r) /\ UNCHANGED gaugeVars

GEnter(r) == sets[r] = <<>> /\ Enter(r) /\ UNCHANGED gaugeVars

GRequestStep(r) ==
  \/ SetGauge(r)
  \/ GCompute(r)
  \/ sets[r] = <<>> /\ (Silent(r) \/ GSwap(r) \/ GCloseBreaker(r) \/ GTrip(r))

GNext ==
  \/ \E r \in Requests : GEnter(r) \/ GRequestStep(r)
  \/ (ResetTimeoutPasses \/ OriginChanges) /\ UNCHANGED gaugeVars

GSpec == GInit /\ [][GNext]_gvars

\* As FairSpec; a goroutine that reports goes on as well.
GFairSpec ==
  /\ GSpec
  /\ \A r \in Requests :
       WF_gvars(GEnter(r)) /\ WF_gvars(GRequestStep(r)) /\ SF_gvars(GCompute(r))
  /\ WF_gvars(ResetTimeoutPasses /\ UNCHANGED gaugeVars)

-----------------------------------------------------------------------------
\* The gauge is a 0 or 1 per label; a request has at most three labels to set.
GTypeOK ==
  /\ TypeOK
  /\ gauge \in [States -> {0, 1}]
  /\ \A r \in Requests : Len(sets[r]) <= 3 /\ \A i \in 1..Len(sets[r]) : sets[r][i] \in States

\* When the origin stays up the breaker closes for good, and the gauge comes to
\* show "closed" and nothing else, whatever order the stores of late failures and
\* successes reached the one in and their reports the other.
Recovers == <>[]up => <>[](state = "closed" /\ gauge = Showing("closed"))

\* metrics.go:228 "Keep the state gauge consistent with each transition", and
\* :224 "atomically": when every transition has been reported, the gauge shows
\* the state the breaker is in.
GaugeConsistent == (\A r \in Requests : sets[r] = <<>>) => gauge = Showing(state)
=================================================================================
