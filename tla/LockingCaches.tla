----------------------------- MODULE LockingCaches -----------------------------
(***************************************************************************)
(* The two locking caches of cache-stampede/locking, for one key:           *)
(* LockedCache.GetWithLock of hardlock.go and SWRCache.Get of               *)
(* stale_while_revalidate.go.  hard says which of them the requests use;    *)
(* each request calls it once.  A value is the version of the origin it was *)
(* computed from; NONE is a missing key and "".  Redis commands are single  *)
(* steps; their errors, compute's errors and cancelled contexts spend one   *)
(* of MaxFaults faults.                                                     *)
(***************************************************************************)
EXTENDS Naturals

CONSTANTS
  Requests,    \* calls of GetWithLock or of Get
  FREE,        \* no lock key
  MaxPolls,    \* polls of a waiter
  MaxVersion,  \* bound: versions of the origin
  MaxFaults    \* bound: errors

ASSUME SWRAssumption ==
  /\ FREE \notin Requests
  /\ MaxPolls \in Nat \ {0} /\ MaxVersion \in Nat \ {0} /\ MaxFaults \in Nat

VARIABLES
  hard,         \* the requests use LockedCache, not SWRCache
  fresh, stale, \* Redis <key> and stale:<key>
  lock,         \* lock:<key>: whose it is; SWRCache writes "1" for everyone
  db,           \* the origin's version
  pc,           \* pc[r]: next step of request r
  bg,           \* bg[r]: next step of the goroutine r started
  old, val,     \* old[r]: staleVal; val[r]: what compute returned to r
  polls,        \* polls[r]: polls r has made
  faults,       \* faults so far
  overran       \* history: requests whose lock expired while they refreshed

vars == <<hard, fresh, stale, lock, db, pc, bg, old, val, polls, faults, overran>>

NONE == 0
Versions == 1..MaxVersion
Refreshing == {"compute", "setFresh", "setStale", "unlock"}
RefreshingBg == {"compute", "setFresh", "setAgain", "del"}

Init ==
  /\ hard \in BOOLEAN
  /\ fresh = NONE /\ stale = NONE /\ lock = FREE /\ db = 1
  /\ pc = [r \in Requests |-> "get"]
  /\ bg = [r \in Requests |-> "none"]
  /\ old = [r \in Requests |-> NONE] /\ val = [r \in Requests |-> NONE]
  /\ polls = [r \in Requests |-> 0]
  /\ faults = 0 /\ overran = {}

\* The requests that refresh, on the spot or in the background.
Refreshers == {r \in Requests : pc[r] \in Refreshing \/ bg[r] \in RefreshingBg}

Goto(r, from, to) == pc[r] = from /\ pc' = [pc EXCEPT ![r] = to]
GotoBg(r, from, to) == bg[r] = from /\ bg' = [bg EXCEPT ![r] = to]
Fault == faults < MaxFaults /\ faults' = faults + 1

-----------------------------------------------------------------------------
GetHit(r) ==
  /\ fresh # NONE
  /\ Goto(r, "get", "done")
  /\ UNCHANGED <<hard, fresh, stale, lock, db, bg, old, val, polls, faults, overran>>

GetMiss(r) ==
  /\ (fresh = NONE /\ UNCHANGED faults) \/ Fault
  /\ Goto(r, "get", IF hard THEN "lock" ELSE "getStale")
  /\ UNCHANGED <<hard, fresh, stale, lock, db, bg, old, val, polls, overran>>

\* SWRCache only.  An error is taken for no stale value.
GetStale(r) ==
  /\ Goto(r, "getStale", "lock")
  /\ \/ old' = [old EXCEPT ![r] = stale] /\ UNCHANGED faults
     \/ Fault /\ UNCHANGED old
  /\ UNCHANGED <<hard, fresh, stale, lock, db, bg, val, polls, overran>>

\* SetNX acquired: refresh in the background behind the stale value, or compute
\* on the spot when there is none (LockedCache never has one).
Locked(r) ==
  /\ lock = FREE
  /\ lock' = r
  /\ IF old[r] # NONE
     THEN Goto(r, "lock", "done") /\ GotoBg(r, "none", "compute")
     ELSE Goto(r, "lock", "compute") /\ UNCHANGED bg
  /\ UNCHANGED <<hard, fresh, stale, db, old, val, polls, faults, overran>>

NotLocked(r) ==
  /\ lock # FREE
  /\ Goto(r, "lock", IF old[r] # NONE THEN "done" ELSE "wait")
  /\ UNCHANGED <<hard, fresh, stale, lock, db, bg, old, val, polls, faults, overran>>

\* SetNX may have taken the lock although its reply is an error.
LockError(r) ==
  /\ Fault
  /\ Goto(r, "lock", "done")
  /\ lock' \in {lock, IF lock = FREE THEN r ELSE lock}
  /\ UNCHANGED <<hard, fresh, stale, db, bg, old, val, polls, overran>>

-----------------------------------------------------------------------------
\* Compute on the spot, write the fresh copy, SWRCache also the stale one, and
\* in any case give up the lock.

\* Mutant: the lock is given up as soon as compute has returned.
ComputeAndUnlock(r) ==
  /\ Goto(r, "compute", "setFresh")
  /\ val' = [val EXCEPT ![r] = db]
  /\ lock' = FREE
  /\ UNCHANGED <<hard, fresh, stale, db, bg, old, polls, faults, overran>>

Compute(r) ==
  /\ Goto(r, "compute", "setFresh")
  /\ val' = [val EXCEPT ![r] = db]
  /\ UNCHANGED <<hard, fresh, stale, lock, db, bg, old, polls, faults, overran>>

ComputeError(r) ==
  /\ Fault
  /\ Goto(r, "compute", "unlock")
  /\ UNCHANGED <<hard, fresh, stale, lock, db, bg, old, val, polls, overran>>

SetFresh(r) ==
  /\ Goto(r, "setFresh", IF hard THEN "unlock" ELSE "setStale")
  /\ (fresh' = val[r] /\ UNCHANGED faults) \/ (Fault /\ UNCHANGED fresh)
  /\ UNCHANGED <<hard, stale, lock, db, bg, old, val, polls, overran>>

SetStale(r) ==
  /\ Goto(r, "setStale", "unlock")
  /\ (stale' = val[r] /\ UNCHANGED faults) \/ (Fault /\ UNCHANGED stale)
  /\ UNCHANGED <<hard, fresh, lock, db, bg, old, val, polls, overran>>

\* Mutant: LockedCache deletes the lock without comparing its token.
UnlockAny(r) ==
  /\ Goto(r, "unlock", "done")
  /\ (lock' = FREE /\ UNCHANGED faults) \/ (Fault /\ UNCHANGED lock)
  /\ UNCHANGED <<hard, fresh, stale, db, bg, old, val, polls, overran>>

\* LockedCache compares its token first; SWRCache's DEL takes anyone's lock.
Unlock(r) ==
  /\ Goto(r, "unlock", "done")
  /\ \/ lock' = (IF hard /\ lock # r THEN lock ELSE FREE) /\ UNCHANGED faults
     \/ Fault /\ UNCHANGED lock
  /\ UNCHANGED <<hard, fresh, stale, db, bg, old, val, polls, overran>>

-----------------------------------------------------------------------------
\* The background refresh: SET <key>, SET <key> again with the stale TTL, and
\* DEL <key>; only DEL after an error of compute.  The lock is left to its TTL.

BgCompute(r) ==
  /\ GotoBg(r, "compute", "setFresh")
  /\ val' = [val EXCEPT ![r] = db]
  /\ UNCHANGED <<hard, fresh, stale, lock, db, pc, old, polls, faults, overran>>

BgComputeError(r) ==
  /\ Fault
  /\ GotoBg(r, "compute", "del")
  /\ UNCHANGED <<hard, fresh, stale, lock, db, pc, old, val, polls, overran>>

\* The two SETs, the first of them with the request's own context.
BgSet(r) ==
  /\ GotoBg(r, "setFresh", "setAgain") \/ GotoBg(r, "setAgain", "del")
  /\ (fresh' = val[r] /\ UNCHANGED faults) \/ (Fault /\ UNCHANGED fresh)
  /\ UNCHANGED <<hard, stale, lock, db, pc, old, val, polls, overran>>

BgDel(r) ==
  /\ GotoBg(r, "del", "end")
  /\ (fresh' = NONE /\ UNCHANGED faults) \/ (Fault /\ UNCHANGED fresh)
  /\ UNCHANGED <<hard, stale, lock, db, pc, old, val, polls, overran>>

-----------------------------------------------------------------------------
\* The waiters: waitForFresh, and the spin-wait of GetWithLock.

PollHit(r) ==
  /\ fresh # NONE
  /\ Goto(r, "wait", "done")
  /\ UNCHANGED <<hard, fresh, stale, lock, db, bg, old, val, polls, faults, overran>>

\* Mutant: one poll too many.
PollMissOver(r) ==
  /\ (fresh = NONE /\ UNCHANGED faults) \/ Fault
  /\ polls' = [polls EXCEPT ![r] = @ + 1]
  /\ Goto(r, "wait", IF polls[r] = MaxPolls THEN "done" ELSE "wait")
  /\ UNCHANGED <<hard, fresh, stale, lock, db, bg, old, val, overran>>

\* Mutant: polls are not counted.
PollForever(r) ==
  /\ pc[r] = "wait" /\ fresh = NONE
  /\ UNCHANGED vars

\* The last poll that misses ends in ErrLockTimeout.
PollMiss(r) ==
  /\ (fresh = NONE /\ UNCHANGED faults) \/ Fault
  /\ polls' = [polls EXCEPT ![r] = @ + 1]
  /\ Goto(r, "wait", IF polls[r] + 1 = MaxPolls THEN "done" ELSE "wait")
  /\ UNCHANGED <<hard, fresh, stale, lock, db, bg, old, val, overran>>

\* The request's context ends between two polls.
WaitCancelled(r) ==
  /\ Fault
  /\ Goto(r, "wait", "done")
  /\ UNCHANGED <<hard, fresh, stale, lock, db, bg, old, val, polls, overran>>

-----------------------------------------------------------------------------
\* A TTL runs out.
CopyExpires ==
  /\ \/ fresh # NONE /\ fresh' = NONE /\ UNCHANGED stale
     \/ stale # NONE /\ stale' = NONE /\ UNCHANGED fresh
  /\ UNCHANGED <<hard, lock, db, pc, bg, old, val, polls, faults, overran>>

LockExpires ==
  /\ lock # FREE
  /\ lock' = FREE
  /\ overran' = overran \cup (Refreshers \cap {lock})
  /\ UNCHANGED <<hard, fresh, stale, db, pc, bg, old, val, polls, faults>>

OriginChanges ==
  /\ db < MaxVersion
  /\ db' = db + 1
  /\ UNCHANGED <<hard, fresh, stale, lock, pc, bg, old, val, polls, faults, overran>>

Step(r) ==
  \/ GetHit(r) \/ GetMiss(r) \/ GetStale(r)
  \/ Locked(r) \/ NotLocked(r) \/ LockError(r)
  \/ Compute(r) \/ ComputeError(r) \/ SetFresh(r) \/ SetStale(r) \/ Unlock(r)
  \/ PollHit(r) \/ PollMiss(r) \/ WaitCancelled(r)

BgStep(r) == BgCompute(r) \/ BgComputeError(r) \/ BgSet(r) \/ BgDel(r)

Quiet ==
  /\ \A r \in Requests : pc[r] = "done" /\ bg[r] \in {"none", "end"}
  /\ UNCHANGED vars

Next ==
  \/ \E r \in Requests : Step(r) \/ BgStep(r)
  \/ CopyExpires \/ LockExpires \/ OriginChanges \/ Quiet

Spec == Init /\ [][Next]_vars

\* Requests and background goroutines go on; compute returns.
FairSpec == Spec /\ \A r \in Requests : WF_vars(Step(r)) /\ WF_vars(BgStep(r))

-----------------------------------------------------------------------------
\* Keys, requests and goroutines stay within their types.
TypeOK ==
  /\ hard \in BOOLEAN
  /\ fresh \in Versions \cup {NONE} /\ stale \in Versions \cup {NONE}
  /\ lock \in Requests \cup {FREE}
  /\ db \in Versions
  /\ pc \in [Requests -> Refreshing \cup {"get", "getStale", "lock", "wait", "done"}]
  /\ bg \in [Requests -> RefreshingBg \cup {"none", "end"}]
  /\ old \in [Requests -> Versions \cup {NONE}] /\ val \in [Requests -> Versions \cup {NONE}]
  /\ polls \in [Requests -> 0..MaxPolls]
  /\ faults \in 0..MaxFaults /\ overran \subseteq Requests

\* Of the requests whose lock has not run out under them at most one refreshes,
\* on the spot or in the background (locking/README.md:25).  LockedCache keeps
\* this up whoever overran; SWRCache, which deletes the lock without looking at
\* whose it is, as long as nobody has.
OneRefresher ==
  hard \/ overran = {} => \A r, q \in Refreshers \ overran : r = q

\* The fresh copy is never older than the stale one as long as no command fails
\* and no lock runs out: a refresh that read the origin earlier never overwrites
\* a later one.
FreshNotOlder ==
  overran = {} /\ faults = 0 /\ fresh # NONE /\ stale # NONE => fresh >= stale

\* Every request is answered, with a value or an error, however long the
\* refresher takes.
GetReturns == <>[](\A r \in Requests : pc[r] = "done")

\* locking/README.md:59 "Recompute, write fresh + stale, release lock": the step
\* that ends a background refresh does not throw away the value it stored.
RefreshStored ==
  [][\A r \in Requests :
       bg[r] # "end" /\ bg'[r] = "end" /\ fresh = val[r] => fresh' = val[r]]_vars
=================================================================================
