---------------------------- MODULE CoalescingProofs ----------------------------
(***************************************************************************)
(* Proofs about Coalescing and DistributedCoalescing, for any callers, keys *)
(* and bounds.                                                              *)
(*                                                                         *)
(* In the first part the inductive invariant ties each map entry to the one *)
(* goroutine that will remove it; from it follow the safety properties and  *)
(* the refinement of SingleFlight (its safety part).  The second part keeps *)
(* that invariant for the in-process layer of a pod and adds who holds the  *)
(* Redis lock and what was read when: one fetcher is designated, results    *)
(* are stored in the order they were read, and a pod still is Coalescing to *)
(* its callers (the safety part).                                           *)
(***************************************************************************)
EXTENDS DistributedCoalescing, TLAPS

\* An entry is there from the registration of its call to the deferred delete
\* of that call's goroutine, and for no other call.
EntryHasWorker ==
  \A c \in Callers : worker[c] \in {"fetch", "delete"} <=> inflight[Key[c]] = c

\* A call object sits in the map under its own key only.
EntryUnderItsKey == \A k \in Keys : inflight[k] # NONE => Key[inflight[k]] = k

\* Callers wait for calls that a goroutine works on or has worked on.
JoinedStarted == \A c \in Callers : joined[c] # NONE => worker[joined[c]] # "none"

\* A goroutine belongs to the call its caller registered.
WorkerJoined == \A c \in Callers : worker[c] # "none" => joined[c] = c

\* The channel is closed by the goroutine's last statement, after its results.
DoneIsLast ==
  \A c \in Callers :
    /\ c \in done <=> worker[c] = "end"
    /\ worker[c] \in {"delete", "close", "end"} => call[c] # NONE

IndInv ==
  /\ TypeOK
  /\ EntryHasWorker
  /\ EntryUnderItsKey
  /\ JoinedStarted
  /\ WorkerJoined
  /\ DoneIsLast

\* The inductive invariant holds initially.
LEMMA InitInv == Init => IndInv
BY CoalescingAssumption DEF Init, IndInv, TypeOK, EntryHasWorker, EntryUnderItsKey,
   JoinedStarted, WorkerJoined, DoneIsLast

\* Every step of a caller or a goroutine keeps it.
LEMMA StepInv == IndInv /\ [Next]_vars => IndInv'
<1> SUFFICES ASSUME IndInv, [Next]_vars PROVE IndInv'
  OBVIOUS
<1> USE CoalescingAssumption DEF IndInv, TypeOK, EntryHasWorker, EntryUnderItsKey,
        JoinedStarted, WorkerJoined, DoneIsLast, Outcomes, Value, Failed
<1>1. ASSUME NEW c \in Callers, Join(c) PROVE IndInv'
  BY <1>1 DEF Join
<1>2. ASSUME NEW c \in Callers, Register(c) PROVE IndInv'
  BY <1>2 DEF Register
<1>3. ASSUME NEW c \in Callers, Receive(c) PROVE IndInv'
  BY <1>3 DEF Receive, Waits
<1>4. ASSUME NEW c \in Callers, GiveUp(c) PROVE IndInv'
  BY <1>4 DEF GiveUp, Waits
<1>5. ASSUME NEW c \in Callers, Cancel(c) PROVE IndInv'
  BY <1>5 DEF Cancel
<1>6. ASSUME NEW c \in Callers, Fetch(c) PROVE IndInv'
  <2>1. PICK r \in Returned(c) : call' = [call EXCEPT ![c] = r]
    BY <1>6 DEF Fetch
  <2>2. r \in Outcomes /\ r # NONE
    BY DEF Returned
  <2>3. QED
    BY <1>6, <2>1, <2>2 DEF Fetch
<1>7. ASSUME NEW c \in Callers, Delete(c) PROVE IndInv'
  BY <1>7 DEF Delete
<1>8. ASSUME NEW c \in Callers, Close(c) PROVE IndInv'
  BY <1>8 DEF Close
<1>9. CASE UNCHANGED vars
  BY <1>9 DEF vars
<1>10. QED
  BY <1>1, <1>2, <1>3, <1>4, <1>5, <1>6, <1>7, <1>8, <1>9 DEF Next, Work, Quiet

\* It holds in every reachable state.
LEMMA IndInvHolds == Spec => []IndInv
BY InitInv, StepInv, PTL DEF Spec

\* Every reachable state is well typed.
THEOREM TypeCorrect == Spec => []TypeOK
<1>1. IndInv => TypeOK
  BY DEF IndInv
<1>2. QED
  BY <1>1, IndInvHolds, PTL

\* Two fetchFn calls for one key never overlap.
THEOREM NoDuplicateFetch == Spec => []OneFetchPerKey
<1>1. IndInv => OneFetchPerKey
  BY DEF IndInv, EntryHasWorker, OneFetchPerKey
<1>2. QED
  BY <1>1, IndInvHolds, PTL

\* A caller never joins a call whose channel is already closed.
THEOREM LateCallersStartAnew == Spec => []NoLateJoin
<1>1. IndInv => NoLateJoin
  <2> SUFFICES ASSUME IndInv, NEW k \in Keys, inflight[k] \in done PROVE FALSE
    BY DEF NoLateJoin
  <2>1. inflight[k] \in Callers /\ inflight[k] # NONE
    BY CoalescingAssumption DEF IndInv, TypeOK
  <2>2. worker[inflight[k]] \in {"fetch", "delete"}
    BY <2>1 DEF IndInv, EntryUnderItsKey, EntryHasWorker
  <2>3. QED
    BY <2>1, <2>2 DEF IndInv, DoneIsLast
<1>2. QED
  BY <1>1, IndInvHolds, PTL

\* No waiter reads the results of a call before they are written.
THEOREM ResultsWrittenFirst == Spec => []WrittenBeforeRead
<1>1. IndInv => WrittenBeforeRead
  BY CoalescingAssumption DEF IndInv, TypeOK, DoneIsLast, WrittenBeforeRead, Waits
<1>2. QED
  BY <1>1, IndInvHolds, PTL

\* A step of the code is a step of SingleFlight or leaves its variables alone.
LEMMA StepSimulation == IndInv /\ [Next]_vars => [SF!Next]_SF!vars
<1> SUFFICES ASSUME IndInv, [Next]_vars PROVE [SF!Next]_SF!vars
  OBVIOUS
<1> USE CoalescingAssumption DEF IndInv, TypeOK
<1>1. ASSUME NEW c \in Callers, Join(c) PROVE SF!Join(c)
  BY <1>1 DEF Join, SF!Join
<1>2. ASSUME NEW c \in Callers, Register(c) PROVE SF!Start(c)
  <2>1. \A d \in Callers : worker'[d] \in {"close", "end"} <=> worker[d] \in {"close", "end"}
    BY <1>2 DEF Register, WorkerJoined
  <2>2. UNCHANGED [d \in Callers |-> IF worker[d] \in {"close", "end"} THEN call[d] ELSE NONE]
    BY <1>2, <2>1 DEF Register
  <2>3. QED
    BY <1>2, <2>2 DEF Register, SF!Start
<1>3. ASSUME NEW c \in Callers, Receive(c) PROVE SF!Answer(c)
  <2>1. worker[joined[c]] = "end" /\ call[joined[c]] # NONE /\ joined[c] \in Callers
    BY <1>3 DEF Receive, DoneIsLast
  <2>2. QED
    BY <1>3, <2>1 DEF Receive, Waits, SF!Answer, SF!Waits
<1>4. ASSUME NEW c \in Callers, GiveUp(c) PROVE SF!GiveUp(c)
  BY <1>4 DEF GiveUp, Waits, SF!GiveUp, SF!Waits
<1>5. ASSUME NEW c \in Callers, Cancel(c) PROVE UNCHANGED SF!vars
  BY <1>5 DEF Cancel, SF!vars
<1>6. ASSUME NEW c \in Callers, Fetch(c) PROVE UNCHANGED SF!vars
  BY <1>6 DEF Fetch, SF!vars
<1>7. ASSUME NEW c \in Callers, Delete(c) PROVE \E o \in Outcomes : SF!Land(c, o)
  <2>1. PICK o \in Outcomes : o = call[c]
    BY <1>7 DEF Delete, DoneIsLast
  <2>2. SF!Land(c, o)
    BY <1>7, <2>1 DEF Delete, EntryHasWorker, SF!Land
  <2>3. QED
    BY <2>1, <2>2
<1>8. ASSUME NEW c \in Callers, Close(c) PROVE UNCHANGED SF!vars
  BY <1>8 DEF Close, SF!vars
<1>9. CASE UNCHANGED vars
  BY <1>9 DEF vars, SF!vars
<1>10. ASSUME NEW c \in Callers,
              Join(c) \/ Register(c) \/ Receive(c) \/ GiveUp(c) \/ Cancel(c) \/ Work(c)
       PROVE SF!Next \/ UNCHANGED SF!vars
  BY ONLY <1>1, <1>2, <1>3, <1>4, <1>5, <1>6, <1>7, <1>8, <1>10 DEF Work, SF!Next
<1>11. QED
  BY ONLY [Next]_vars, <1>9, <1>10 DEF Next, Quiet

\* The code does what SingleFlight promises: one flight per key at a time, and
\* every waiter answered with the outcome of the flight it joined.
THEOREM Refinement == Spec => SF!Spec
<1>1. Init => SF!Init
  BY DEF Init, SF!Init
<1>2. QED
  BY <1>1, StepSimulation, IndInvHolds, PTL DEF Spec, SF!Spec

-----------------------------------------------------------------------------
\* A goroutine starts with the lock, without a poll made, and polls while it may.
PollsLeft ==
  \A c \in Callers :
    /\ worker[c] = "none" => step[c] = "lock"
    /\ step[c] = "lock" => polls[c] = 0
    /\ step[c] = "poll" => polls[c] < MaxPolls

\* Who is between SetNX and the release holds the lock, unless it ran out.
FetcherHasLock == \A c \in Designated \ overran : lock = c

\* What a fetcher is going to store and return is its own outcome.
OwnOutcome ==
  \A c \in Callers :
    /\ step[c] = "store" => ret[c] = Value(c) /\ c \in before[c]
    /\ step[c] = "release" => ret[c] \in Returned(c)

\* A result in Redis was read, and before the value that is about to replace it.
StoredInOrder ==
  /\ result # NONE => result \in before[result]
  /\ \A c \in Designated \ overran :
       step[c] = "store" /\ result \notin overran \cup {NONE} => result \in before[c]

\* Who has not called has no reply.
RepliedJoined == \A c \in Callers : reply[c] # NONE => joined[c] # NONE

DInv ==
  /\ IndInv /\ DTypeOK
  /\ PollsLeft
  /\ FetcherHasLock
  /\ OwnOutcome
  /\ StoredInOrder
  /\ RepliedJoined

\* The outcomes a fetch may return to the in-process layer are outcomes.
LEMMA ReturnedOutcomes == \A c \in Callers : Returned(c) \subseteq Outcomes
BY DEF Returned, Outcomes

\* The errors of the Redis protocol are among what fetchFn may return.
LEMMA ErrorsReturned ==
  ASSUME NEW c \in Callers
  PROVE  /\ Errors(c) \subseteq Returned(c)
         /\ Failed("fetch") \in Returned(c)
         /\ c \in cancelled => Failed("ctx") \in Returned(c)
         /\ Errors(c) \subseteq Outcomes
         /\ Failed("fetch") \in Outcomes /\ Failed("ctx") \in Outcomes
<1> DEFINE E == {"fetch"} \cup (IF c \in cancelled THEN {"ctx"} ELSE {})
<1>1. \A v \in {c, NONE}, e \in E : [val |-> v, err |-> e] \in Returned(c)
  BY DEF Returned
<1>2. Failed("fetch") \in Returned(c) /\ (c \in cancelled => Failed("ctx") \in Returned(c))
  BY <1>1 DEF Failed
<1>3. \A v \in Callers \cup {NONE}, e \in {"fetch", "ctx"} : [val |-> v, err |-> e] \in Outcomes
  BY DEF Outcomes
<1>4. Failed("fetch") \in Outcomes /\ Failed("ctx") \in Outcomes
  BY <1>3 DEF Failed
<1>5. QED
  BY <1>2, <1>4 DEF Errors

\* Whatever outcome a fetch returns, the in-process layer keeps its invariant.
LEMMA ReturnKeeps ==
  ASSUME IndInv, NEW c \in Callers, NEW r \in Outcomes, worker[c] = "fetch",
         Return(c, r), UNCHANGED local
  PROVE  IndInv'
BY CoalescingAssumption DEF Return, local, IndInv, TypeOK, EntryHasWorker, EntryUnderItsKey,
   JoinedStarted, WorkerJoined, DoneIsLast

\* A step around the fetch is one of Coalescing, which keeps its invariant.
LEMMA AroundKeeps ==
  ASSUME IndInv, NEW c \in Callers, Around(c)
  PROVE  IndInv'
<1>1. [Next]_vars
  BY DEF Around, Next, Work
<1>2. QED
  BY <1>1, StepInv

\* A step of a goroutine in the Redis protocol either goes on or returns.
LEMMA FetchKeeps ==
  ASSUME DInv, NEW c \in Callers, FetchStep(c)
  PROVE  IndInv'
<1> USE DEF At, DInv
<1>1. ASSUME UNCHANGED vars PROVE IndInv'
  BY <1>1, StepInv
<1>2. ASSUME NEW r \in Outcomes, worker[c] = "fetch", Return(c, r), UNCHANGED local
      PROVE  IndInv'
  BY <1>2, ReturnKeeps
<1>3. Errors(c) \subseteq Outcomes
  BY ErrorsReturned
<1>4. CASE Acquire(c) \/ NotAcquired(c) \/ FetchFn(c) \/ Store(c)
  BY <1>1, <1>4 DEF Acquire, NotAcquired, FetchFn, Store, GoTo, local, vars
<1>5. CASE AcquireError(c)
  BY <1>2, <1>3, <1>5 DEF AcquireError
<1>6. CASE Release(c)
  <2>1. ret[c] \in Outcomes
    BY <1>6, ReturnedOutcomes DEF Release, OwnOutcome
  <2>2. QED
    BY <1>2, <1>6, <2>1 DEF Release
<1>7. CASE PollHit(c)
  <2>1. Value(result) \in Outcomes
    BY <1>7 DEF PollHit, DTypeOK, Outcomes
  <2>2. QED
    BY <1>2, <1>7, <2>1 DEF PollHit
<1>8. CASE PollMiss(c) \/ PollCancelled(c)
  <2>1. Failed("fetch") \in Outcomes /\ Failed("ctx") \in Outcomes
    BY ErrorsReturned
  <2>2. CASE PollMiss(c) /\ polls[c] + 1 = MaxPolls
    BY <1>2, <2>1, <2>2 DEF PollMiss
  <2>3. CASE PollMiss(c) /\ polls[c] + 1 # MaxPolls
    BY <1>1, <2>3 DEF PollMiss, GoTo, local, vars
  <2>4. CASE PollCancelled(c)
    BY <1>2, <2>1, <2>4 DEF PollCancelled
  <2>5. QED
    BY <1>8, <2>2, <2>3, <2>4
<1>9. QED
  BY <1>4, <1>5, <1>6, <1>7, <1>8 DEF FetchStep

\* The invariant holds initially.
LEMMA DInitInv == DInit => DInv
<1> SUFFICES ASSUME DInit PROVE DInv
  OBVIOUS
<1>1. IndInv
  BY InitInv DEF DInit
<1>2. QED
  BY <1>1, DistributedAssumption DEF DInit, Init, DInv, IndInv, DTypeOK, PollsLeft,
     FetcherHasLock, OwnOutcome, StoredInOrder, RepliedJoined, InLock, Designated

\* Every step keeps it.
LEMMA DStepInv == DInv /\ [DNext]_dvars => DInv'
<1> SUFFICES ASSUME DInv, [DNext]_dvars PROVE DInv'
  OBVIOUS
<1> USE CoalescingAssumption, DistributedAssumption
    DEF DInv, DTypeOK, PollsLeft, FetcherHasLock, OwnOutcome, StoredInOrder,
        RepliedJoined, Designated, InLock, At, history, local
<1>1. ASSUME NEW c \in Callers, Acquire(c) PROVE DInv'
  <2>1. IndInv'
    BY <1>1, FetchKeeps DEF FetchStep
  <2>2. QED
    BY <1>1, <2>1 DEF Acquire, GoTo, IndInv, Returned
<1>2. ASSUME NEW c \in Callers, NotAcquired(c) PROVE DInv'
  <2>1. IndInv'
    BY <1>2, FetchKeeps DEF FetchStep
  <2>2. QED
    BY <1>2, <2>1 DEF NotAcquired, GoTo, IndInv, Returned
<1>3. ASSUME NEW c \in Callers, AcquireError(c) PROVE DInv'
  <2>1. IndInv'
    BY <1>3, FetchKeeps DEF FetchStep
  <2>2. QED
    BY <1>3, <2>1 DEF AcquireError, Return, IndInv, Fails, Fault, Returned
<1>4. ASSUME NEW c \in Callers, FetchFn(c) PROVE DInv'
  <2>1. IndInv'
    BY <1>4, FetchKeeps DEF FetchStep
  <2>2. Errors(c) \subseteq Returned(c) /\ Errors(c) \subseteq Outcomes
        /\ Value(c) \in Returned(c) /\ Value(c) \in Outcomes
    BY ErrorsReturned DEF Returned, Outcomes
  <2>3. QED
    BY <1>4, <2>1, <2>2 DEF FetchFn, GoTo, IndInv, Returned
<1>5. ASSUME NEW c \in Callers, Store(c) PROVE DInv'
  <2>1. IndInv'
    BY <1>5, FetchKeeps DEF FetchStep
  <2>2. QED
    BY <1>5, <2>1 DEF Store, GoTo, IndInv, Fails, Fault, Returned
<1>6. ASSUME NEW c \in Callers, Release(c) PROVE DInv'
  <2>1. IndInv'
    BY <1>6, FetchKeeps DEF FetchStep
  <2>2. QED
    BY <1>6, <2>1 DEF Release, Return, IndInv, Fails, Fault, Returned
<1>7. ASSUME NEW c \in Callers, PollHit(c) PROVE DInv'
  <2>1. IndInv'
    BY <1>7, FetchKeeps DEF FetchStep
  <2>2. QED
    BY <1>7, <2>1 DEF PollHit, Return, IndInv, Returned
<1>8. ASSUME NEW c \in Callers, PollMiss(c) PROVE DInv'
  <2>1. IndInv'
    BY <1>8, FetchKeeps DEF FetchStep
  <2>2. faults' \in 0..MaxFaults
    BY <1>8 DEF PollMiss, Fails, Fault
  <2>3. CASE polls[c] + 1 = MaxPolls
    <3>1. polls' \in [Callers -> 0..MaxPolls]
      BY <1>8, <2>3 DEF PollMiss
    <3>2. ret' \in [Callers -> Outcomes \cup {NONE}] /\ step'[c] = "end"
      BY <1>8, <2>3 DEF PollMiss, Return
    <3>3. DTypeOK' /\ RepliedJoined'
      BY <1>8, <2>1, <2>2, <2>3, <3>1, <3>2 DEF PollMiss, Return, IndInv
    <3>4. PollsLeft'
      BY <1>8, <2>3, <3>1 DEF PollMiss, Return, IndInv, TypeOK
    <3>5. Designated' \subseteq Designated /\ FetcherHasLock'
      BY <1>8, <2>3 DEF PollMiss, Return, IndInv, TypeOK
    <3>6. OwnOutcome'
      BY <1>8, <2>3 DEF PollMiss, Return, Returned
    <3>7. StoredInOrder'
      BY <1>8, <2>3, <3>5 DEF PollMiss, Return
    <3>8. QED
      BY <2>1, <3>3, <3>4, <3>5, <3>6, <3>7
  <2>4. CASE polls[c] + 1 # MaxPolls
    BY <1>8, <2>1, <2>2, <2>4 DEF PollMiss, GoTo, IndInv, Returned
  <2>5. QED
    BY <2>3, <2>4
<1>9. ASSUME NEW c \in Callers, PollCancelled(c) PROVE DInv'
  <2>1. IndInv'
    BY <1>9, FetchKeeps DEF FetchStep
  <2>2. QED
    BY <1>9, <2>1 DEF PollCancelled, Return, IndInv, Returned
<1>10. CASE ResultExpires
  <2>1. IndInv'
    BY <1>10, StepInv DEF ResultExpires
  <2>2. QED
    BY <1>10, <2>1 DEF ResultExpires, vars, IndInv, Fault, Returned
<1>11. CASE LockExpires
  <2>1. IndInv'
    BY <1>11, StepInv DEF LockExpires
  <2>2. QED
    BY <1>11, <2>1 DEF LockExpires, vars, IndInv, Fault, Returned
<1>12. ASSUME NEW c \in Callers, Around(c) PROVE DInv'
  <2>1. IndInv'
    BY <1>12, AroundKeeps
  <2>2. UNCHANGED <<lock, result, step, ret, polls, overran, before>> /\ faults' \in 0..MaxFaults
    BY <1>12 DEF Around, Fault
  <2>3. cancelled \subseteq cancelled'
    BY <1>12 DEF Around, Join, Register, Receive, GiveUp, Cancel, Delete, Close
  <2>4. RepliedJoined'
    BY <1>12 DEF Around, Join, Register, Receive, GiveUp, Cancel, Delete, Close, Waits, IndInv, TypeOK
  <2>5. Designated' \subseteq Designated
    <3>1. \A d \in Callers : worker'[d] = "fetch" => worker[d] \in {"none", "fetch"}
      BY <1>12 DEF Around, Join, Register, Receive, GiveUp, Cancel, Delete, Close, IndInv,
         TypeOK, WorkerJoined
    <3>2. QED
      BY <2>2, <3>1
  <2>6. PollsLeft'
    <3>1. \A d \in Callers : worker'[d] = "none" => worker[d] = "none"
      BY <1>12 DEF Around, Join, Register, Receive, GiveUp, Cancel, Delete, Close, IndInv, TypeOK
    <3>2. QED
      BY <2>2, <3>1
  <2>7. OwnOutcome'
    BY <2>2, <2>3 DEF Returned
  <2>8. QED
    BY <2>1, <2>2, <2>4, <2>5, <2>6, <2>7 DEF IndInv
<1>13. CASE UNCHANGED dvars
  <2>1. IndInv'
    BY <1>13, StepInv DEF dvars
  <2>2. QED
    BY <1>13, <2>1 DEF dvars, vars, IndInv, Returned
<1>14. QED
  BY <1>1, <1>2, <1>3, <1>4, <1>5, <1>6, <1>7, <1>8, <1>9, <1>10, <1>11, <1>12, <1>13
     DEF DNext, FetchStep, DQuiet

\* It holds in every reachable state.
LEMMA DInvHolds == DSpec => []DInv
BY DInitInv, DStepInv, PTL DEF DSpec

\* Redis, the goroutines and the in-process layer keep their types.
THEOREM DTypeCorrect == DSpec => []DTypeOK
<1>1. DInv => DTypeOK
  BY DEF DInv
<1>2. QED
  BY <1>1, DInvHolds, PTL

\* Of the fetchers whose lock has not run out there is at most one.
THEOREM OneDesignated == DSpec => []OneFetcher
<1>1. DInv => OneFetcher
  BY DEF DInv, FetcherHasLock, OneFetcher
<1>2. QED
  BY <1>1, DInvHolds, PTL

\* Redis never goes back to a result that was read earlier, unless one of the two
\* fetchers had overrun its lock.
THEOREM ResultsOrdered == DSpec => ResultInOrder
<1>1. DInv /\ [DNext]_dvars =>
        [result' \notin {result, NONE} \cup overran /\ result \notin overran \cup {NONE} =>
           result \in before[result']]_dvars
  <2> SUFFICES ASSUME DInv, DNext, result' \notin {result, NONE} \cup overran,
                      result \notin overran \cup {NONE}
               PROVE  result \in before[result']
    OBVIOUS
  <2>1. PICK c \in Callers : Store(c) /\ result' = c
    BY DEF DNext, FetchStep, Around, DQuiet, ResultExpires, LockExpires, Acquire, NotAcquired,
       AcquireError, FetchFn, Store, Release, PollHit, PollMiss, PollCancelled, dvars
  <2>2. c \in Designated \ overran /\ step[c] = "store"
    BY <2>1 DEF Store, At, Designated, InLock
  <2>3. QED
    BY <2>1, <2>2 DEF DInv, StoredInOrder
<1>2. QED
  BY <1>1, DInvHolds, PTL DEF DSpec, ResultInOrder

-----------------------------------------------------------------------------
\* The in-process steps are steps of Coalescing also when only its own pod's
\* value is seen in a call.
LEMMA AroundSimulation ==
  ASSUME DInv, NEW c \in Callers, Around(c)
  PROVE  Local!Next
<1> USE CoalescingAssumption DEF DInv, IndInv, TypeOK, RepliedJoined
<1>1. ASSUME Join(c) PROVE Local!Join(c)
  <2>1. UNCHANGED <<call, reply>> /\ reply[c] = NONE
    BY <1>1 DEF Join
  <2>2. QED
    BY <1>1, <2>1 DEF Join, Local!Join
<1>2. ASSUME Register(c) PROVE Local!Register(c)
  <2>1. UNCHANGED <<call, reply>> /\ reply[c] = NONE
    BY <1>2 DEF Register
  <2>2. QED
    BY <1>2, <2>1 DEF Register, Local!Register
<1>3. ASSUME Receive(c) PROVE Local!Receive(c)
  <2> DEFINE o == call[joined[c]]
             seen(d) == IF reply[d] # NONE /\ reply[d].err = "nil"
                          THEN Value(joined[d]) ELSE reply[d]
  <2>1. /\ joined[c] \in Callers \cap done /\ reply[c] = NONE /\ o # NONE
        /\ reply' = [reply EXCEPT ![c] = o]
        /\ UNCHANGED <<inflight, call, done, worker, joined, cancelled>>
    BY <1>3 DEF Receive, Waits, DoneIsLast
  <2>2. [d \in Callers |-> seen(d)]'
          = [[d \in Callers |-> seen(d)] EXCEPT ![c] = IF o.err = "nil" THEN Value(joined[c]) ELSE o]
    BY <2>1
  <2>3. QED
    BY <2>1, <2>2 DEF Local!Receive, Local!Waits, Value, Local!Value
<1>4. ASSUME GiveUp(c) PROVE Local!GiveUp(c)
  BY <1>4 DEF GiveUp, Waits, Local!GiveUp, Local!Waits, Failed, Local!Failed, Value, Local!Value
<1>5. ASSUME Cancel(c) PROVE Local!Cancel(c)
  BY <1>5 DEF Cancel, Local!Cancel
<1>6. ASSUME Delete(c) PROVE Local!Delete(c)
  BY <1>6 DEF Delete, Local!Delete
<1>7. ASSUME Close(c) PROVE Local!Close(c)
  BY <1>7 DEF Close, Local!Close
<1>8. QED
  BY <1>1, <1>2, <1>3, <1>4, <1>5, <1>6, <1>7 DEF Around, Local!Next, Local!Work

\* A fetch that returns any pod's value or its own error looks like fetchFn of its
\* own pod returning.
LEMMA ReturnSimulation ==
  ASSUME DInv, NEW c \in Callers, worker[c] = "fetch", UNCHANGED local,
         NEW r \in {Value(d) : d \in Callers} \cup Returned(c), Return(c, r)
  PROVE  Local!Fetch(c)
<1> USE CoalescingAssumption DEF DInv, IndInv, TypeOK
<1> DEFINE seen == IF r.err = "nil" THEN Value(c) ELSE r
           mapped == [d \in Callers |->
                        IF call[d] # NONE /\ call[d].err = "nil" THEN Value(d) ELSE call[d]]
<1>1. r \in Outcomes /\ r # NONE
  BY ReturnedOutcomes DEF Outcomes
<1>2. seen \in Local!Returned(c)
  BY DEF Returned, Local!Returned, Value, Failed, Local!Value, Local!Failed
<1>3. mapped' = [mapped EXCEPT ![c] = seen]
  <2>1. call' = [call EXCEPT ![c] = r] /\ call' \in [Callers -> Outcomes \cup {NONE}]
    BY <1>1 DEF Return
  <2>2. QED
    BY <1>1, <2>1
<1>4. worker' = [worker EXCEPT ![c] = "delete"] /\ UNCHANGED local
  BY DEF Return
<1>5. UNCHANGED [d \in Callers |-> IF reply[d] # NONE /\ reply[d].err = "nil"
                                  THEN Value(joined[d]) ELSE reply[d]]
  BY <1>4 DEF local
<1>6. \E x \in Local!Returned(c) : mapped' = [mapped EXCEPT ![c] = x]
  BY <1>2, <1>3
<1>7. QED
  BY <1>4, <1>5, <1>6 DEF Local!Fetch, local

\* Every other step of the Redis protocol cannot be seen by the pod's callers.
LEMMA FetchSimulation ==
  ASSUME DInv, NEW c \in Callers, FetchStep(c)
  PROVE  Local!Fetch(c) \/ UNCHANGED Local!vars
<1> USE DEF At
<1>1. ASSUME UNCHANGED vars PROVE UNCHANGED Local!vars
  BY <1>1 DEF vars, Local!vars
<1>2. ASSUME worker[c] = "fetch", UNCHANGED local,
             NEW r \in {Value(d) : d \in Callers} \cup Returned(c), Return(c, r)
      PROVE  Local!Fetch(c)
  BY <1>2, ReturnSimulation
<1>3. Errors(c) \subseteq Returned(c) /\ Failed("fetch") \in Returned(c)
      /\ (c \in cancelled => Failed("ctx") \in Returned(c))
  BY ErrorsReturned
<1>4. CASE Acquire(c) \/ NotAcquired(c) \/ FetchFn(c) \/ Store(c)
  BY <1>1, <1>4 DEF Acquire, NotAcquired, FetchFn, Store, GoTo, local, vars
<1>5. CASE AcquireError(c)
  BY <1>2, <1>3, <1>5 DEF AcquireError
<1>6. CASE Release(c)
  <2>1. ret[c] \in Returned(c)
    BY <1>6 DEF Release, DInv, OwnOutcome
  <2>2. QED
    BY <1>2, <1>6, <2>1 DEF Release
<1>7. CASE PollHit(c)
  <2>1. Value(result) \in {Value(d) : d \in Callers}
    BY <1>7 DEF PollHit, DInv, DTypeOK
  <2>2. QED
    BY <1>2, <1>7, <2>1 DEF PollHit
<1>8. CASE PollMiss(c)
  <2>1. CASE polls[c] + 1 = MaxPolls
    BY <1>2, <1>3, <1>8, <2>1 DEF PollMiss
  <2>2. CASE polls[c] + 1 # MaxPolls
    BY <1>1, <1>8, <2>2 DEF PollMiss, GoTo, local, vars
  <2>3. QED
    BY <2>1, <2>2
<1>9. CASE PollCancelled(c)
  BY <1>2, <1>3, <1>9 DEF PollCancelled
<1>10. QED
  BY <1>4, <1>5, <1>6, <1>7, <1>8, <1>9 DEF FetchStep

\* To its callers every pod is Coalescing: what happens in Redis and which pod
\* fetched does not change what Get promises.
THEOREM DistributedRefinement == DSpec => Local!Spec
<1>1. DInit => Local!Init
  BY DEF DInit, Init, Local!Init
<1>2. DInv /\ [DNext]_dvars => [Local!Next]_Local!vars
  <2> SUFFICES ASSUME DInv, [DNext]_dvars PROVE [Local!Next]_Local!vars
    OBVIOUS
  <2>1. ASSUME NEW c \in Callers, FetchStep(c) PROVE [Local!Next]_Local!vars
    BY <2>1, FetchSimulation DEF Local!Next, Local!Work
  <2>2. ASSUME NEW c \in Callers, Around(c) PROVE [Local!Next]_Local!vars
    BY <2>2, AroundSimulation
  <2>3. CASE UNCHANGED vars
    BY <2>3 DEF vars, Local!vars
  <2>4. QED
    BY <2>1, <2>2, <2>3 DEF DNext, ResultExpires, LockExpires, DQuiet, dvars
<1>3. QED
  BY <1>1, <1>2, DInvHolds, PTL DEF DSpec, Local!Spec
=================================================================================
