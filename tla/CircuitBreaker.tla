----------------------------- MODULE CircuitBreaker -----------------------------
(***************************************************************************)
(* cache-stampede/locking/circuit_breaker.go: CircuitBreaker, and            *)
(* ResilientCache.Get as far as it uses the breaker.                        *)
(*                                                                          *)
(* The breaker is lock-free: every atomic operation of a request is a step  *)
(* of its own.  cooled stands for the clock: resetTimeout has passed since  *)
(* the stored lastFailure.  What SWRCache.Get does with an admitted request *)
(* is left open: it answers from Redis or it calls compute.                 *)
(***************************************************************************)
EXTENDS Naturals, FiniteSets

CONSTANTS
  Requests,    \* goroutines, each calling ResilientCache.Get over and over
  Threshold,   \* failures that open the breaker
  MaxFailures  \* bound: the failure counter saturates there

\* What the constants must be.
BreakerAssumption ==
  /\ Threshold \in Nat \ {0}
  /\ MaxFailures \in Nat /\ MaxFailures > Threshold

VARIABLES
  state,    \* the breaker's state
  failures, \* its failure counter
  cooled,   \* more than resetTimeout since lastFailure
  pc,       \* pc[r]: the next atomic operation of request r
  up        \* the origin answers

vars == <<state, failures, cooled, pc, up>>

States == {"closed", "open", "half_open"}

Init ==
  /\ state = "closed"
  /\ failures = 0
  /\ cooled = TRUE       \* lastFailure is 0
  /\ pc = [r \in Requests |-> "idle"]
  /\ up = TRUE

Goto(r, from, to) == pc[r] = from /\ pc' = [pc EXCEPT ![r] = to]

-----------------------------------------------------------------------------
\* Allow

Enter(r) ==
  /\ Goto(r, "idle", "load")
  /\ UNCHANGED <<state, failures, cooled, up>>

\* Closed and half-open let the request pass; open looks at the clock.
Load(r) ==
  /\ Goto(r, "load", CASE state = "closed" -> "compute"
                       [] state = "open" -> "clock"
                       [] state = "half_open" -> "probe")
  /\ UNCHANGED <<state, failures, cooled, up>>

\* Not allowed: ResilientCache answers with the stale value or ErrCircuitOpen.
Reject(r) ==
  /\ ~cooled
  /\ Goto(r, "clock", "idle")
  /\ UNCHANGED <<state, failures, cooled, up>>

ResetTimeoutOver(r) ==
  /\ cooled
  /\ Goto(r, "clock", "swap")
  /\ UNCHANGED <<state, failures, cooled, up>>

\* CompareAndSwap: won or lost, the request passes.
Swap(r) ==
  /\ Goto(r, "swap", "probe")
  /\ state' = IF state = "open" THEN "half_open" ELSE state
  /\ UNCHANGED <<failures, cooled, up>>

-----------------------------------------------------------------------------
\* An admitted request

Admitted(r) == pc[r] \in {"compute", "probe"}

\* SWRCache.Get had an answer in Redis: the breaker learns nothing.
FromCache(r) ==
  /\ Admitted(r)
  /\ pc' = [pc EXCEPT ![r] = "idle"]
  /\ UNCHANGED <<state, failures, cooled, up>>

\* compute was called and has come back.
Compute(r) ==
  /\ Admitted(r)
  /\ pc' = [pc EXCEPT ![r] = IF up THEN "reset" ELSE "stamp"]
  /\ UNCHANGED <<state, failures, cooled, up>>

\* Mutant: a success takes Threshold failures off the counter, which wraps.
ResetBelowZero(r) ==
  /\ Goto(r, "reset", "close")
  /\ failures' = IF failures < Threshold THEN MaxFailures + 1 ELSE failures - Threshold
  /\ UNCHANGED <<state, cooled, up>>

\* RecordSuccess: two stores.
Reset(r) ==
  /\ Goto(r, "reset", "close")
  /\ failures' = 0
  /\ UNCHANGED <<state, cooled, up>>

CloseBreaker(r) ==
  /\ Goto(r, "close", "idle")
  /\ state' = "closed"
  /\ UNCHANGED <<failures, cooled, up>>

\* RecordFailure: the time, the counter, and at the threshold the state.
Stamp(r) ==
  /\ Goto(r, "stamp", "count")
  /\ cooled' = FALSE
  /\ UNCHANGED <<state, failures, up>>

\* Mutant: == in place of >=.
CountExactly(r) ==
  LET n == IF failures < MaxFailures THEN failures + 1 ELSE failures
  IN  /\ Goto(r, "count", IF n = Threshold THEN "trip" ELSE "idle")
      /\ failures' = n
      /\ UNCHANGED <<state, cooled, up>>

Count(r) ==
  LET n == IF failures < MaxFailures THEN failures + 1 ELSE failures
  IN  /\ Goto(r, "count", IF n >= Threshold THEN "trip" ELSE "idle")
      /\ failures' = n
      /\ UNCHANGED <<state, cooled, up>>

Trip(r) ==
  /\ Goto(r, "trip", "idle")
  /\ state' = "open"
  /\ UNCHANGED <<failures, cooled, up>>

-----------------------------------------------------------------------------
ResetTimeoutPasses ==
  /\ ~cooled
  /\ cooled' = TRUE
  /\ UNCHANGED <<state, failures, pc, up>>

OriginChanges ==
  /\ up' = ~up
  /\ UNCHANGED <<state, failures, cooled, pc>>

RequestStep(r) ==
  \/ Load(r) \/ Reject(r) \/ ResetTimeoutOver(r) \/ Swap(r)
  \/ FromCache(r) \/ Compute(r)
  \/ Reset(r) \/ CloseBreaker(r) \/ Stamp(r) \/ Count(r) \/ Trip(r)

Next ==
  \/ \E r \in Requests : Enter(r) \/ RequestStep(r)
  \/ ResetTimeoutPasses
  \/ OriginChanges

Spec == Init /\ [][Next]_vars

\* Requests keep coming and proceed, time passes, and among requests admitted
\* again and again some find their cache entry expired and call compute.
FairSpec ==
  /\ Spec
  /\ \A r \in Requests : WF_vars(Enter(r)) /\ WF_vars(RequestStep(r)) /\ SF_vars(Compute(r))
  /\ WF_vars(ResetTimeoutPasses)

-----------------------------------------------------------------------------
\* The atomics and the requests stay within their types.
TypeOK ==
  /\ state \in States
  /\ failures \in 0..MaxFailures
  /\ cooled \in BOOLEAN
  /\ pc \in [Requests -> {"idle", "load", "clock", "swap", "compute", "probe", "reset",
                          "close", "stamp", "count", "trip"}]
  /\ up \in BOOLEAN

\* When the origin stays down the breaker opens, and opens again after every
\* failed probe: it neither sticks in half-open nor stays closed.
KeepsOpening == <>[]~up => []<>(state = "open")

\* circuit_breaker.go:57 "HalfOpen -> allow one probe through" (also
\* locking/README.md:112): at most one request is admitted as a probe.
OneProbe ==
  state = "half_open" => Cardinality({r \in Requests : pc[r] = "probe"}) <= 1
=================================================================================
