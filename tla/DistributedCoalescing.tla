------------------------- MODULE DistributedCoalescing -------------------------
(***************************************************************************)
(* cache-stampede/coalescing/distributed.go: GetDistributed, for one key.   *)
(*                                                                          *)
(* Coalescing is the layer inside a pod, with a pod for each of its Keys:   *)
(* Key[c] is the pod c runs in.  What it calls fetchFn is here              *)
(* fetchWithDistributedLock, so its action Fetch becomes the steps below.   *)
(* A caller's name is also its lock token, and the value its fetchFn        *)
(* returns.  A cancelled caller, a TTL that runs out and a failing Redis    *)
(* command spend one of MaxFaults faults; once its ctx is cancelled all     *)
(* commands of a flight may fail.  A pod that dies is for the others one    *)
(* whose release failed.                                                    *)
(***************************************************************************)
EXTENDS Coalescing

CONSTANTS
  FREE,      \* no lock key
  MaxPolls,  \* maxRetries of waitForResult
  MaxFaults  \* bound: Redis errors, expiries and cancellations

ASSUME DistributedAssumption ==
  /\ FREE \notin Callers
  /\ MaxPolls \in Nat \ {0} /\ MaxFaults \in Nat

VARIABLES
  lock,    \* lock:<key>, the token of a caller
  result,  \* result:<key>, the caller whose value it is
  step,    \* step[c]: where in fetchWithDistributedLock c's goroutine is
  ret,     \* ret[c]: what it is going to return
  polls,   \* polls[c]: polls it has made
  faults,  \* faults so far
  overran, \* history: callers whose lock expired while they had it
  before   \* history: before[c]: whose values were read when c's was, c's included

local == <<inflight, done, joined, cancelled, reply>>
history == <<overran, before>>
dvars == <<vars, lock, result, step, ret, polls, faults, history>>

DInit ==
  /\ Init
  /\ lock = FREE /\ result = NONE
  /\ step = [c \in Callers |-> "lock"]
  /\ ret = [c \in Callers |-> NONE]
  /\ polls = [c \in Callers |-> 0]
  /\ faults = 0 /\ overran = {}
  /\ before = [c \in Callers |-> {}]

InLock == {"fetchFn", "store", "release"}
Designated == {c \in Callers : worker[c] = "fetch" /\ step[c] \in InLock}

At(c, s) == worker[c] = "fetch" /\ step[c] = s
GoTo(c, s) == step' = [step EXCEPT ![c] = s] /\ UNCHANGED <<call, worker>>

\* fetchWithDistributedLock returns r to the in-process layer.
Return(c, r) ==
  /\ call' = [call EXCEPT ![c] = r]
  /\ worker' = [worker EXCEPT ![c] = "delete"]
  /\ step' = [step EXCEPT ![c] = "end"]
  /\ ret' = [ret EXCEPT ![c] = NONE]

Fault == faults < MaxFaults /\ faults' = faults + 1

\* The errors c's calls may end with.
Errors(c) == {Failed("fetch")} \cup (IF c \in cancelled THEN {Failed("ctx")} ELSE {})

\* A command of c fails.
Fails(c) == (c \in cancelled /\ UNCHANGED faults) \/ Fault

-----------------------------------------------------------------------------
\* SetNX

Acquire(c) ==
  /\ At(c, "lock")
  /\ lock = FREE
  /\ lock' = c
  /\ GoTo(c, "fetchFn")
  /\ UNCHANGED <<local, result, ret, polls, faults, history>>

NotAcquired(c) ==
  /\ At(c, "lock")
  /\ lock # FREE
  /\ GoTo(c, "poll")
  /\ UNCHANGED <<local, lock, result, ret, polls, faults, history>>

\* SetNX may have taken the lock although its reply is an error.
AcquireError(c) ==
  /\ At(c, "lock")
  /\ Fails(c)
  /\ lock' \in {lock, IF lock = FREE THEN c ELSE lock}
  /\ \E e \in Errors(c) : Return(c, e)
  /\ UNCHANGED <<local, result, polls, history>>

-----------------------------------------------------------------------------
\* The designated fetcher

\* Mutant: the lock is given up when the value is read.
FetchAndUnlock(c) ==
  /\ At(c, "fetchFn")
  /\ ret' = [ret EXCEPT ![c] = Value(c)] /\ GoTo(c, "store")
  /\ before' = [before EXCEPT ![c] = {d \in Callers : d \in before[d]} \cup {c}]
  /\ lock' = FREE
  /\ UNCHANGED <<local, result, polls, faults, overran>>

FetchFn(c) ==
  /\ At(c, "fetchFn")
  /\ \/ /\ ret' = [ret EXCEPT ![c] = Value(c)] /\ GoTo(c, "store")
        /\ before' = [before EXCEPT ![c] = {d \in Callers : d \in before[d]} \cup {c}]
     \/ /\ \E e \in Errors(c) : ret' = [ret EXCEPT ![c] = e]
        /\ GoTo(c, "release") /\ UNCHANGED before
  /\ UNCHANGED <<local, lock, result, polls, faults, overran>>

\* The value is encoded and SET; both errors leave result:<key> as it is.
Store(c) ==
  /\ At(c, "store")
  /\ (result' = c /\ UNCHANGED faults) \/ (Fails(c) /\ UNCHANGED result)
  /\ GoTo(c, "release")
  /\ UNCHANGED <<local, lock, ret, polls, history>>

\* Mutant: DEL without comparing the token.
ReleaseAny(c) ==
  /\ At(c, "release")
  /\ lock' = FREE
  /\ Return(c, ret[c])
  /\ UNCHANGED <<local, result, polls, faults, history>>

\* Deferred: the lock is deleted if it holds c's token; an error leaves it to
\* its TTL.
Release(c) ==
  /\ At(c, "release")
  /\ \/ lock' = (IF lock = c THEN FREE ELSE lock) /\ UNCHANGED faults
     \/ Fails(c) /\ UNCHANGED lock
  /\ Return(c, ret[c])
  /\ UNCHANGED <<local, result, polls, history>>

-----------------------------------------------------------------------------
\* waitForResult

PollHit(c) ==
  /\ At(c, "poll")
  /\ result # NONE
  /\ Return(c, Value(result))
  /\ UNCHANGED <<local, lock, result, polls, faults, history>>

\* Mutant: polls are not counted.
PollForever(c) ==
  /\ At(c, "poll")
  /\ result = NONE
  /\ UNCHANGED dvars

\* Mutant: one poll too many.
PollMissOver(c) ==
  /\ At(c, "poll")
  /\ (result = NONE /\ UNCHANGED faults) \/ Fails(c)
  /\ polls' = [polls EXCEPT ![c] = @ + 1]
  /\ IF polls[c] = MaxPolls
     THEN Return(c, Failed("fetch"))
     ELSE GoTo(c, "poll") /\ UNCHANGED ret
  /\ UNCHANGED <<local, lock, result, history>>

\* An error is taken for no result; the last poll ends in ErrCoalescingTimeout.
PollMiss(c) ==
  /\ At(c, "poll")
  /\ (result = NONE /\ UNCHANGED faults) \/ Fails(c)
  /\ polls' = [polls EXCEPT ![c] = @ + 1]
  /\ IF polls[c] + 1 = MaxPolls
     THEN Return(c, Failed("fetch"))
     ELSE GoTo(c, "poll") /\ UNCHANGED ret
  /\ UNCHANGED <<local, lock, result, history>>

PollCancelled(c) ==
  /\ At(c, "poll")
  /\ c \in cancelled
  /\ Return(c, Failed("ctx"))
  /\ UNCHANGED <<local, lock, result, polls, faults, history>>

-----------------------------------------------------------------------------
\* The TTLs, both of lockTTL.
ResultExpires ==
  /\ result # NONE
  /\ Fault
  /\ result' = NONE
  /\ UNCHANGED <<vars, lock, step, ret, polls, history>>

LockExpires ==
  /\ lock # FREE
  /\ Fault
  /\ lock' = FREE
  /\ overran' = overran \cup (Designated \cap {lock})
  /\ UNCHANGED <<vars, result, step, ret, polls, before>>

FetchStep(c) ==
  \/ Acquire(c) \/ NotAcquired(c) \/ AcquireError(c)
  \/ FetchFn(c) \/ Store(c) \/ Release(c)
  \/ PollHit(c) \/ PollMiss(c) \/ PollCancelled(c)

\* The in-process layer does the rest.
Around(c) ==
  /\ \/ /\ Join(c) \/ Register(c) \/ Receive(c) \/ GiveUp(c) \/ Delete(c) \/ Close(c)
        /\ UNCHANGED faults
     \/ Cancel(c) /\ Fault
  /\ UNCHANGED <<lock, result, step, ret, polls, history>>

DQuiet == Quiet /\ UNCHANGED dvars

DNext ==
  \/ \E c \in Callers : FetchStep(c) \/ Around(c)
  \/ ResultExpires \/ LockExpires \/ DQuiet

DSpec == DInit /\ [][DNext]_dvars

\* Go runs the fetcher's goroutine and the ready arms of select; fetchFn and
\* Redis answer or fail.  As in FairSpec, some caller's step is enough.
DProceed(c) ==
  FetchStep(c) \/ (Around(c) /\ (Delete(c) \/ Close(c) \/ Receive(c) \/ GiveUp(c)))
DFairSpec == DSpec /\ WF_dvars(\E c \in Callers : DProceed(c))

-----------------------------------------------------------------------------
\* Redis, the goroutines and the in-process layer stay within their types.
DTypeOK ==
  /\ TypeOK
  /\ lock \in Callers \cup {FREE} /\ result \in Callers \cup {NONE}
  /\ step \in [Callers -> InLock \cup {"lock", "poll", "end"}]
  /\ ret \in [Callers -> Outcomes \cup {NONE}]
  /\ polls \in [Callers -> 0..MaxPolls]
  /\ faults \in 0..MaxFaults
  /\ overran \subseteq Callers /\ before \in [Callers -> SUBSET Callers]

\* distributed.go:64 "Only one pod across the cluster will call fetchFn": of the
\* fetchers whose lock has not run out under them there is at most one, also
\* when one that overran comes back late to release.
OneFetcher == \A c, d \in Designated \ overran : c = d

\* The result in Redis is never replaced by one that was read earlier, unless the
\* fetcher of one of the two had overrun its lock: whoever is answered from
\* Redis does not see the value go back.
ResultInOrder ==
  [][result' \notin {result, NONE} \cup overran /\ result \notin overran \cup {NONE} =>
       result \in before[result']]_dvars

\* To its callers a pod is the in-process Coalescing: one flight at a time, all
\* who joined it get its outcome, whichever pod's value that is, and nobody
\* waits forever.
Local == INSTANCE Coalescing WITH
  call <- [c \in Callers |->
             IF call[c] # NONE /\ call[c].err = "nil" THEN Value(c) ELSE call[c]],
  reply <- [c \in Callers |->
              IF reply[c] # NONE /\ reply[c].err = "nil" THEN Value(joined[c]) ELSE reply[c]]

ImplementsCoalescing == Local!FairSpec
=================================================================================
