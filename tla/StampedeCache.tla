----------------------------- MODULE StampedeCache -----------------------------
(***************************************************************************)
(* cache-stampede/cache.go: GetWithLock, for one key.                      *)
(*                                                                         *)
(* A member of Calls is one call of GetWithLock, and also its lock token   *)
(* (a fresh uuid).  A value is the version of the source it was read from, *)
(* 1..MaxVersion; NONE is a missing Redis key and Go's zero value.  Every  *)
(* Redis command is one step: between two of them, also of a go-redis      *)
(* Pipeline, which is no transaction, others run, TTLs pass and processes  *)
(* die.  An error of Redis, of fetchFn or of a cancelled ctx, and a crash, *)
(* spend one of MaxFaults faults.                                          *)
(***************************************************************************)
EXTENDS Naturals

CONSTANTS
  Calls,             \* calls of GetWithLock for the key; also their tokens
  Process,           \* Process[p]: the process (the *Cache) p is made in
  FREE,              \* the lock key does not exist
  NOBODY,            \* the call shares nobody's flight
  Bypass,            \* the calls with opts.BypassSingleFlight
  LockTimeoutMs,     \* opts.LockTimeout in milliseconds
  MaxVersion,        \* bound: versions of the source
  MaxFaults          \* bound: errors and crashes in a behaviour

ASSUME StampedeAssumption ==
  /\ FREE \notin Calls /\ NOBODY \notin Calls
  /\ Bypass \subseteq Calls
  /\ LockTimeoutMs \in Nat /\ MaxVersion \in Nat \ {0} /\ MaxFaults \in Nat

VARIABLES
  lock, data, stale, \* Redis keys lock:key, cache:key and stale:key
  db,                \* the current version of what fetchFn reads
  pc,                \* pc[p]: the next statement of call p
  val, err,          \* p's result so far, and whether its error is not nil
  fetched,           \* fetched[p]: the fetchFn call that gave p its value
  notified,          \* calls whose subscription to notify:key holds a message
  leader,            \* leader[p]: the call whose singleflight p shares
  faults,            \* faults so far
  overran            \* history: holders whose lock expired before their release

redis == <<lock, data, stale>>
rare  == <<db, fetched, notified, leader, overran>>
vars  == <<redis, rare, pc, val, err, faults>>

NONE == 0
Versions == 1..MaxVersion

\* The statements from the lock's acquisition to its deferred release, and
\* those of getInternal as a whole.
InLock == {"check", "fetch", "setData", "setStale", "publish", "exec", "release"}
Internal == InLock \cup {"get", "lock", "lastCheck", "wait", "reread", "selfFetch",
                         "selfSet", "return"}
Over == {"done", "crashed"}

\* int(opts.LockTimeout.Seconds()): whole seconds, rounded down.
LockTTLSec == LockTimeoutMs \div 1000

Init ==
  /\ lock = FREE /\ data = NONE /\ stale = NONE
  /\ db = 1
  /\ pc = [p \in Calls |-> "idle"]
  /\ val = [p \in Calls |-> NONE]
  /\ err = [p \in Calls |-> FALSE]
  /\ fetched = [p \in Calls |-> "none"]
  /\ notified = {}
  /\ leader = [p \in Calls |-> NOBODY]
  /\ faults = 0
  /\ overran = {}

Goto(p, from, to) == pc[p] = from /\ pc' = [pc EXCEPT ![p] = to]
Takes(p, v) == val' = [val EXCEPT ![p] = v]
Fault == faults < MaxFaults /\ faults' = faults + 1
Fails(p) == Fault /\ err' = [err EXCEPT ![p] = TRUE]

-----------------------------------------------------------------------------
\* GetWithLock

\* The calls that run getInternal inside the singleflight group of p's process.
Flights(p) == {q \in Calls \ Bypass : Process[q] = Process[p] /\ pc[q] \in Internal}

\* group.Do: p runs getInternal itself, or waits for the flight under way.
Enter(p) ==
  /\ \/ /\ p \in Bypass \/ Flights(p) = {}
        /\ Goto(p, "idle", "get")
        /\ UNCHANGED leader
     \/ /\ p \notin Bypass
        /\ \E q \in Flights(p) : leader' = [leader EXCEPT ![p] = q]
        /\ Goto(p, "idle", "follow")
  /\ UNCHANGED <<redis, db, val, err, fetched, notified, faults, overran>>

\* getInternal is over.  Unless bypassed, an error takes the value's place.
Return(p) ==
  /\ Goto(p, "return", "done")
  /\ Takes(p, IF p \notin Bypass /\ err[p] THEN NONE ELSE val[p])
  /\ UNCHANGED <<redis, rare, err, faults>>

\* A follower gets what its leader's flight ended with.
Follow(p) ==
  /\ Goto(p, "follow", "done")
  /\ pc[leader[p]] = "done"
  /\ Takes(p, val[leader[p]])
  /\ err' = [err EXCEPT ![p] = err[leader[p]]]
  /\ UNCHANGED <<redis, rare, faults>>

-----------------------------------------------------------------------------
\* The GETs of cache:key.  A hit ends the call (after the lock's release, if
\* p holds it).  The code asks only for "err == nil": an error is a miss.
Hit == [get |-> "return", check |-> "release", lastCheck |-> "return", reread |-> "return"]
Miss == [get |-> "lock", check |-> "fetch", lastCheck |-> "wait", reread |-> "selfFetch"]

GetHit(p) ==
  /\ data # NONE
  /\ \E at \in DOMAIN Hit : Goto(p, at, Hit[at])
  /\ Takes(p, data)
  /\ UNCHANGED <<redis, rare, err, faults>>

\* Mutant: no double check after the lock.
GetMissUnchecked(p) ==
  /\ data = NONE \/ pc[p] = "check"
  /\ \E at \in DOMAIN Miss : Goto(p, at, Miss[at])
  /\ UNCHANGED <<redis, rare, val, err, faults>>

GetMiss(p) ==
  /\ (data = NONE /\ UNCHANGED faults) \/ Fault
  /\ \E at \in DOMAIN Miss : Goto(p, at, Miss[at])
  /\ UNCHANGED <<redis, rare, val, err>>

\* Mutant: SET without NX.
LockWithoutNX(p) ==
  /\ Goto(p, "lock", "check") /\ lock' = p
  /\ UNCHANGED <<data, stale, rare, val, err, faults>>

\* Mutant: a lock value that is the same for every caller.
LockWithoutToken(p) ==
  /\ lock = FREE /\ Goto(p, "lock", "check") /\ lock' = NOBODY
  /\ UNCHANGED <<data, stale, rare, val, err, faults>>

\* lockOrStaleScript, one atomic round-trip: "locked", "stale" or "wait".
\* Subscribe sends its command and waits for no confirmation.
LockOrStale(p) ==
  /\ LockTTLSec > 0
  /\ \/ lock = FREE /\ Goto(p, "lock", "check") /\ lock' = p /\ UNCHANGED val
     \/ lock # FREE /\ stale # NONE /\ Goto(p, "lock", "return") /\ Takes(p, stale)
        /\ UNCHANGED lock
     \/ lock # FREE /\ stale = NONE /\ Goto(p, "lock", "lastCheck")
        /\ UNCHANGED <<lock, val>>
  /\ UNCHANGED <<data, stale, rare, err, faults>>

\* The script fails, or has run and its reply is lost; SET ... EX 0 always fails.
LockScriptError(p) ==
  /\ Goto(p, "lock", "return")
  /\ \/ Fails(p) /\ UNCHANGED lock
     \/ LockTTLSec > 0 /\ lock = FREE /\ Fails(p) /\ lock' = p
     \/ LockTTLSec = 0 /\ err' = [err EXCEPT ![p] = TRUE] /\ UNCHANGED <<faults, lock>>
  /\ UNCHANGED <<data, stale, rare, val>>

-----------------------------------------------------------------------------
\* fetchFn, called under the lock or as the self-fetch fallback.
Fetched == [fetch |-> "setData", selfFetch |-> "selfSet"]
FetchFailed == [fetch |-> "release", selfFetch |-> "return"]

Fetch(p) ==
  /\ \E at \in DOMAIN Fetched :
       /\ Goto(p, at, Fetched[at])
       /\ fetched' = [fetched EXCEPT ![p] = IF at = "fetch" THEN "locked" ELSE "alone"]
  /\ Takes(p, db)
  /\ UNCHANGED <<redis, db, notified, leader, overran, err, faults>>

\* Mutant: the error of fetchFn is dropped.
FetchErrorDropped(p) ==
  /\ \E at \in DOMAIN FetchFailed : Goto(p, at, FetchFailed[at])
  /\ Fault
  /\ UNCHANGED <<redis, rare, val, err>>

FetchError(p) ==
  /\ \E at \in DOMAIN FetchFailed : Goto(p, at, FetchFailed[at])
  /\ Fails(p)
  /\ UNCHANGED <<redis, rare, val>>

\* Mutant: the lock is given up as soon as cache:key is written.
SetDataAndUnlock(p) ==
  /\ Goto(p, "setData", "setStale")
  /\ data' = val[p] /\ lock' = FREE
  /\ UNCHANGED <<stale, rare, val, err, faults>>

SetData(p) ==
  /\ Goto(p, "setData", "setStale")
  /\ data' = val[p]
  /\ UNCHANGED <<lock, stale, rare, val, err, faults>>

SetStale(p) ==
  /\ Goto(p, "setStale", "publish")
  /\ stale' = val[p]
  /\ UNCHANGED <<lock, data, rare, val, err, faults>>

\* The message reaches the subscriptions Redis has taken up by then: any of
\* the calls that sent SUBSCRIBE and never waited for its confirmation.
Publish(p) ==
  /\ Goto(p, "publish", "exec")
  /\ \E reached \in SUBSET {q \in Calls : pc[q] \in {"lastCheck", "wait"}} :
       notified' = notified \cup reached
  /\ UNCHANGED <<redis, db, fetched, leader, overran, val, err, faults>>

\* pipe.Exec returns: no error, or one after any prefix of its commands ran,
\* and then fetchAndCache returns data AND error.
Exec(p) ==
  /\ \/ Goto(p, "exec", "release") /\ UNCHANGED <<err, faults>>
     \/ /\ \E at \in {"setData", "setStale", "publish", "exec"} : Goto(p, at, "release")
        /\ Fails(p)
  /\ UNCHANGED <<redis, rare, val>>

\* Mutant: DEL without comparing the token.
ReleaseAnyLock(p) ==
  /\ Goto(p, "release", "return")
  /\ lock' = FREE
  /\ UNCHANGED <<data, stale, rare, val, err, faults>>

\* releaseLockScript deletes the lock only when it holds p's token.  Its error
\* is discarded: the lock is left to its TTL.
Release(p) ==
  /\ Goto(p, "release", "return")
  /\ \/ lock' = (IF lock = p THEN FREE ELSE lock) /\ UNCHANGED faults
     \/ Fault /\ UNCHANGED lock
  /\ UNCHANGED <<data, stale, rare, val, err>>

-----------------------------------------------------------------------------
\* waitForResult

Notified(p) ==
  /\ p \in notified
  /\ Goto(p, "wait", "reread")
  /\ UNCHANGED <<redis, rare, val, err, faults>>

\* Mutant: the wait has no timeout.
NoWaitTimeout(p) == Notified(p) /\ FALSE

\* waitCtx is done: WaitTimeout passed, or the caller's ctx was cancelled.
WaitTimeout(p) ==
  /\ Goto(p, "wait", "selfFetch")
  /\ UNCHANGED <<redis, rare, val, err, faults>>

\* Best effort: an error of the SET is ignored.
SelfSet(p) ==
  /\ Goto(p, "selfSet", "return")
  /\ (data' = val[p] /\ UNCHANGED faults) \/ (Fault /\ UNCHANGED data)
  /\ UNCHANGED <<lock, stale, rare, val, err>>

-----------------------------------------------------------------------------
\* Redis' TTLs, the source, and the death of a process with all its calls.

DataExpires == data # NONE /\ data' = NONE /\ UNCHANGED <<lock, stale, overran>>
StaleExpires == stale # NONE /\ stale' = NONE /\ UNCHANGED <<lock, data, overran>>

\* Its holder may still be at work, and does not notice.
LockExpires ==
  /\ lock # FREE
  /\ lock' = FREE
  /\ overran' = overran \cup {p \in Calls : p = lock /\ pc[p] \in InLock}
  /\ UNCHANGED <<data, stale>>

Expiry ==
  /\ DataExpires \/ StaleExpires \/ LockExpires
  /\ UNCHANGED <<db, fetched, notified, leader, pc, val, err, faults>>

SourceChanges ==
  /\ db < MaxVersion
  /\ db' = db + 1
  /\ UNCHANGED <<redis, fetched, notified, leader, overran, pc, val, err, faults>>

Crash(P) ==
  /\ Fault
  /\ \E p \in Calls : Process[p] = P /\ pc[p] \in Internal
  /\ pc' = [p \in Calls |-> IF Process[p] = P /\ pc[p] \in Internal \cup {"follow"}
                            THEN "crashed" ELSE pc[p]]
  /\ UNCHANGED <<redis, rare, val, err>>

-----------------------------------------------------------------------------
CallStep(p) ==
  \/ Return(p) \/ Follow(p) \/ GetHit(p) \/ GetMiss(p)
  \/ LockOrStale(p) \/ LockScriptError(p)
  \/ Fetch(p) \/ FetchError(p) \/ SetData(p) \/ SetStale(p) \/ Publish(p) \/ Exec(p)
  \/ Release(p) \/ Notified(p) \/ WaitTimeout(p) \/ SelfSet(p)

\* Every call was made and is over.
AllOver == (\A p \in Calls : pc[p] \in Over) /\ UNCHANGED vars

Next ==
  \/ \E p \in Calls : Enter(p) \/ CallStep(p) \/ Crash(Process[p])
  \/ Expiry \/ SourceChanges \/ AllOver

Spec == Init /\ [][Next]_vars

\* Calls under way go on: Go schedules them, Redis and fetchFn answer or fail,
\* the timer of waitCtx fires.  A call makes a bounded number of steps, so it is
\* enough that some call takes one when it can; no key need ever expire.
FairSpec == Spec /\ WF_vars(\E p \in Calls : CallStep(p))

-----------------------------------------------------------------------------
\* The Redis keys and every call's local state stay within their types.
TypeOK ==
  /\ lock \in Calls \cup {FREE}
  /\ data \in Versions \cup {NONE}
  /\ stale \in Versions \cup {NONE}
  /\ db \in Versions
  /\ pc \in [Calls -> Internal \cup Over \cup {"idle", "follow"}]
  /\ val \in [Calls -> Versions \cup {NONE}]
  /\ err \in [Calls -> BOOLEAN]
  /\ fetched \in [Calls -> {"none", "locked", "alone"}]
  /\ notified \subseteq Calls
  /\ leader \in [Calls -> Calls \cup {NOBODY}]
  /\ faults \in 0..MaxFaults
  /\ overran \subseteq Calls

\* Of the calls whose lock has not run out under them at most one is in
\* fetchAndCache, whatever fails and whoever crashes: neither the late release
\* of one that overran nor an orphaned lock lets a second one in.
MutualExclusion ==
  \A p, q \in Calls \ overran : pc[p] \in InLock /\ pc[q] \in InLock => p = q

\* releaseLockScript's purpose (cache.go:99): a held lock goes away only when
\* its own holder releases it or its TTL passes, never by another call's late
\* release.
OnlyOwnerReleases ==
  [][lock # FREE /\ lock' # lock =>
       (pc[lock] = "release" /\ pc'[lock] = "return") \/ UNCHANGED pc]_vars

\* A nil error comes with a real value, whichever of the seven ways back a call
\* took and whichever step failed on it: never Go's zero value.
ValueOrError ==
  \A p \in Calls : pc[p] = "done" => err[p] \/ val[p] # NONE

SelfFetches == {p \in Calls : fetched[p] = "alone"}

\* Stampede protection: as long as nothing fails, no waiter gave up and no
\* holder overran, nobody fetches the source for a key whose fresh value is in
\* the cache.  The double check after the lock is what it takes.
NoFetchWhileFresh ==
  overran = {} /\ faults = 0 /\ SelfFetches = {} =>
    \A p \in Calls : pc[p] \in {"fetch", "setData"} => data = NONE

\* Refreshes reach Redis in the order of the versions they read: until a holder
\* overruns its lock the stale copy is never replaced by an older value.
StaleNeverGoesBack ==
  [][overran = {} /\ stale # NONE /\ stale' # NONE => stale' >= stale]_vars

\* Every call that is made comes back, also when the holder crashed, the lock
\* is orphaned or the notification was lost: no waiter waits forever.  (A call
\* is made once, so from some point on none is under way.)
CallsReturn == <>[](\A p \in Calls : pc[p] \in Over \cup {"idle"})

-----------------------------------------------------------------------------
\* cache.go:228 "Return data even if caching fails so the caller still gets a
\* result": a call whose own fetch succeeded returns a value.
FetchedDataReturned ==
  \A p \in Calls : pc[p] = "done" /\ fetched[p] = "locked" => val[p] # NONE
=============================================================================
