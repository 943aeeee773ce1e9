-------------------------- MODULE StampedeCacheProofs --------------------------
(***************************************************************************)
(* Proofs about StampedeCache, for every set of calls and processes, every *)
(* choice of the calls that bypass singleflight and every bound.           *)
(***************************************************************************)
EXTENDS StampedeCache, TLAPS

\* A follower shares the flight of a call.
FollowersLed == \A p \in Calls : pc[p] = "follow" => leader[p] \in Calls

\* A call between its lock and its release still has the lock, unless it overran.
HolderHasLock == \A p \in Calls \ overran : pc[p] \in InLock => lock = p

\* Nothing comes from a version the source has not had yet.
ValuesRead ==
  /\ stale <= db
  /\ \A p \in Calls : pc[p] \in {"setData", "setStale"} => val[p] \in 1..db

\* Until a holder overruns, what one is about to store is at least as new as
\* the stale copy.
RefreshInOrder ==
  overran = {} =>
    \A p \in Calls : pc[p] \in {"setData", "setStale"} => stale <= val[p]

\* What a call stores is a value, and it ends with a value or an error.
ResultsHeld ==
  \A p \in Calls :
    /\ pc[p] \in {"setData", "setStale", "publish", "exec", "selfSet"} => val[p] # NONE
    /\ pc[p] \in {"release", "return", "done"} => err[p] \/ val[p] # NONE

\* A value fetched alone is known as such from then on.
SelfFetchShows ==
  \A p \in Calls :
    /\ pc[p] = "selfSet" => fetched[p] = "alone"
    /\ fetched[p] = "alone" => pc[p] \in {"selfSet", "return"} \cup Over

Safety ==
  /\ FollowersLed
  /\ HolderHasLock
  /\ ValuesRead
  /\ RefreshInOrder
  /\ ResultsHeld
  /\ SelfFetchShows
  /\ NoFetchWhileFresh

IndInv == TypeOK /\ Safety

\* Every step keeps the types; that a follower has a flight is what Notified,
\* WaitTimeout and Follow need.
LEMMA TypeStep == TypeOK /\ FollowersLed /\ [Next]_vars => TypeOK'
<1> SUFFICES ASSUME TypeOK, FollowersLed, [Next]_vars PROVE TypeOK'
  OBVIOUS
<1> USE StampedeAssumption DEF TypeOK, Goto, Takes, Fault, Fails,
        Versions, NONE, InLock, Internal, Over, redis, rare, Flights, Hit, Miss,
        Fetched, FetchFailed
<1>1. ASSUME NEW p \in Calls, Enter(p) PROVE TypeOK'
  BY <1>1 DEF Enter
<1>2. ASSUME NEW p \in Calls, Return(p) PROVE TypeOK'
  BY <1>2 DEF Return
<1>3. ASSUME NEW p \in Calls, Follow(p) PROVE TypeOK'
  BY <1>3 DEF Follow, FollowersLed
<1>4. ASSUME NEW p \in Calls, GetHit(p) PROVE TypeOK'
  BY <1>4 DEF GetHit
<1>5. ASSUME NEW p \in Calls, GetMiss(p) PROVE TypeOK'
  BY <1>5 DEF GetMiss
<1>6. ASSUME NEW p \in Calls, LockOrStale(p) PROVE TypeOK'
  BY <1>6 DEF LockOrStale
<1>7. ASSUME NEW p \in Calls, LockScriptError(p) PROVE TypeOK'
  <2>1. err' \in [Calls -> BOOLEAN]
    BY <1>7 DEF LockScriptError
  <2>2. faults' \in 0..MaxFaults
    BY <1>7 DEF LockScriptError
  <2>3. pc' \in [Calls -> Internal \cup Over \cup {"idle", "follow"}]
    BY <1>7 DEF LockScriptError
  <2>4. QED
    BY <1>7, <2>1, <2>2, <2>3 DEF LockScriptError
<1>8. ASSUME NEW p \in Calls, Fetch(p) PROVE TypeOK'
  BY <1>8 DEF Fetch
<1>9. ASSUME NEW p \in Calls, FetchError(p) PROVE TypeOK'
  BY <1>9 DEF FetchError
<1>10. ASSUME NEW p \in Calls, SetData(p) PROVE TypeOK'
  BY <1>10 DEF SetData
<1>11. ASSUME NEW p \in Calls, SetStale(p) PROVE TypeOK'
  BY <1>11 DEF SetStale
<1>12. ASSUME NEW p \in Calls, Publish(p) PROVE TypeOK'
  BY <1>12 DEF Publish
<1>13. ASSUME NEW p \in Calls, Exec(p) PROVE TypeOK'
  <2>1. err' \in [Calls -> BOOLEAN]
    BY <1>13 DEF Exec
  <2>2. faults' \in 0..MaxFaults
    BY <1>13 DEF Exec
  <2>3. pc' \in [Calls -> Internal \cup Over \cup {"idle", "follow"}]
    BY <1>13 DEF Exec
  <2>4. QED
    BY <1>13, <2>1, <2>2, <2>3 DEF Exec
<1>14. ASSUME NEW p \in Calls, Release(p) PROVE TypeOK'
  BY <1>14 DEF Release
<1>15. ASSUME NEW p \in Calls, Notified(p) PROVE TypeOK'
  BY <1>15 DEF Notified
<1>16. ASSUME NEW p \in Calls, WaitTimeout(p) PROVE TypeOK'
  BY <1>16 DEF WaitTimeout
<1>17. ASSUME NEW p \in Calls, SelfSet(p) PROVE TypeOK'
  BY <1>17 DEF SelfSet
<1>18. CASE Expiry
  BY <1>18 DEF Expiry, DataExpires, StaleExpires, LockExpires
<1>19. CASE SourceChanges
  BY <1>19 DEF SourceChanges
<1>20. ASSUME NEW p \in Calls, Crash(Process[p]) PROVE TypeOK'
  BY <1>20 DEF Crash
<1>21. CASE UNCHANGED vars
  BY <1>21 DEF vars
<1>22. QED
  BY <1>1, <1>2, <1>3, <1>4, <1>5, <1>6, <1>7, <1>8, <1>9, <1>10, <1>11, <1>12, <1>13, <1>14, <1>15, <1>16, <1>17, <1>18, <1>19, <1>20, <1>21 DEF Next, CallStep, AllOver

\* Every step keeps the inductive invariant, one step of the proof per action.
LEMMA SafetyStep == IndInv /\ [Next]_vars => IndInv'
<1> SUFFICES ASSUME IndInv, [Next]_vars PROVE Safety'
  BY TypeStep DEF IndInv, Safety
<1> USE StampedeAssumption DEF IndInv, TypeOK, Safety, FollowersLed, HolderHasLock,
        ValuesRead, RefreshInOrder, ResultsHeld, SelfFetchShows,
        NoFetchWhileFresh, SelfFetches, Goto, Takes, Fault, Fails,
        Versions, NONE, InLock, Internal, Over, redis, rare, Flights, Hit, Miss,
        Fetched, FetchFailed

<1>1. ASSUME NEW p \in Calls, Enter(p) PROVE Safety'
  BY <1>1 DEF Enter
<1>2. ASSUME NEW p \in Calls, Return(p) PROVE Safety'
  BY <1>2 DEF Return
<1>3. ASSUME NEW p \in Calls, Follow(p) PROVE Safety'
  BY <1>3 DEF Follow
<1>4. ASSUME NEW p \in Calls, GetHit(p) PROVE Safety'
  BY <1>4 DEF GetHit
<1>5. ASSUME NEW p \in Calls, GetMiss(p) PROVE Safety'
  BY <1>5 DEF GetMiss
<1>6. ASSUME NEW p \in Calls, LockOrStale(p) PROVE Safety'
  BY <1>6 DEF LockOrStale
<1>7. ASSUME NEW p \in Calls, LockScriptError(p) PROVE Safety'
  BY <1>7 DEF LockScriptError
<1>8. ASSUME NEW p \in Calls, Fetch(p) PROVE Safety'
  BY <1>8 DEF Fetch
<1>9. ASSUME NEW p \in Calls, FetchError(p) PROVE Safety'
  BY <1>9 DEF FetchError
<1>10. ASSUME NEW p \in Calls, SetData(p) PROVE Safety'
  BY <1>10 DEF SetData
<1>11. ASSUME NEW p \in Calls, SetStale(p) PROVE Safety'
  BY <1>11 DEF SetStale
<1>12. ASSUME NEW p \in Calls, Publish(p) PROVE Safety'
  BY <1>12 DEF Publish
<1>13. ASSUME NEW p \in Calls, Exec(p) PROVE Safety'
  BY <1>13 DEF Exec
<1>14. ASSUME NEW p \in Calls, Release(p) PROVE Safety'
  BY <1>14 DEF Release
<1>15. ASSUME NEW p \in Calls, Notified(p) PROVE Safety'
  BY <1>15 DEF Notified
<1>16. ASSUME NEW p \in Calls, WaitTimeout(p) PROVE Safety'
  BY <1>16 DEF WaitTimeout
<1>17. ASSUME NEW p \in Calls, SelfSet(p) PROVE Safety'
  BY <1>17 DEF SelfSet
<1>18. CASE Expiry
  BY <1>18 DEF Expiry, DataExpires, StaleExpires, LockExpires
<1>19. CASE SourceChanges
  BY <1>19 DEF SourceChanges
<1>20. ASSUME NEW p \in Calls, Crash(Process[p]) PROVE Safety'
  BY <1>20 DEF Crash
<1>21. CASE UNCHANGED vars
  BY <1>21 DEF vars
<1>22. QED
  BY <1>1, <1>2, <1>3, <1>4, <1>5, <1>6, <1>7, <1>8, <1>9, <1>10, <1>11, <1>12, <1>13, <1>14, <1>15, <1>16, <1>17, <1>18, <1>19, <1>20, <1>21 DEF Next, CallStep, AllOver

\* The inductive invariant holds in every reachable state.
LEMMA IndInvHolds == Spec => []IndInv
<1>1. Init => IndInv
  BY StampedeAssumption DEF Init, IndInv, TypeOK, Safety, FollowersLed,
     HolderHasLock, ValuesRead, RefreshInOrder, ResultsHeld,
     SelfFetchShows, NoFetchWhileFresh, SelfFetches, Versions, NONE, Internal, InLock, Over
<1>2. QED
  BY <1>1, SafetyStep, PTL DEF Spec

\* Every reachable state is well typed: keys hold versions or nothing, the
\* lock a token or nothing, every call is at a statement of the code.
THEOREM TypeCorrect == Spec => []TypeOK
<1>1. IndInv => TypeOK
  BY DEF IndInv
<1>2. QED
  BY <1>1, IndInvHolds, PTL

\* At most one call is in fetchAndCache with its lock not overrun, through every
\* crash, failed or late release and expiry of a lock.
THEOREM LockExcludes == Spec => []MutualExclusion
<1>1. IndInv => MutualExclusion
  BY DEF IndInv, Safety, HolderHasLock, MutualExclusion
<1>2. QED
  BY <1>1, IndInvHolds, PTL

\* While nothing fails, no waiter gave up and no holder overran, nobody fetches
\* what is in the cache.
THEOREM NoStampede == Spec => []NoFetchWhileFresh
<1>1. IndInv => NoFetchWhileFresh
  BY DEF IndInv, Safety
<1>2. QED
  BY <1>1, IndInvHolds, PTL

\* Whichever way a call takes back to its caller, a nil error comes with a value.
THEOREM ResultsReal == Spec => []ValueOrError
<1>1. IndInv => ValueOrError
  BY DEF IndInv, Safety, ResultsHeld, ValueOrError
<1>2. QED
  BY <1>1, IndInvHolds, PTL

\* No call's release, however late, frees a lock that is not its own, also when
\* locks expire under their holders.
THEOREM OwnersRelease == Spec => OnlyOwnerReleases
<1>1. TypeOK /\ [Next]_vars =>
        [lock # FREE /\ lock' # lock =>
           (pc[lock] = "release" /\ pc'[lock] = "return") \/ UNCHANGED pc]_vars
  <2> SUFFICES ASSUME TypeOK, [Next]_vars, lock # FREE, lock' # lock
               PROVE (pc[lock] = "release" /\ pc'[lock] = "return") \/ UNCHANGED pc
    OBVIOUS
  <2> USE DEF TypeOK, redis, rare
  <2>1. ASSUME NEW p \in Calls, Release(p)
        PROVE pc[lock] = "release" /\ pc'[lock] = "return"
    BY <2>1 DEF Release, Goto
  <2>2. CASE Expiry
    BY <2>2 DEF Expiry
  <2>3. ASSUME NEW p \in Calls, LockOrStale(p) PROVE FALSE
    BY <2>3 DEF LockOrStale
  <2>4. ASSUME NEW p \in Calls, Enter(p) \/ CallStep(p) \/ Crash(Process[p])
        PROVE Release(p) \/ LockOrStale(p)
    BY <2>4 DEF Enter, CallStep, Crash, Return, Follow, GetHit, GetMiss, LockScriptError,
       Fetch, FetchError, SetData, SetStale, Publish, Exec, Notified, WaitTimeout,
       SelfSet
  <2>5. QED
    BY <2>1, <2>2, <2>3, <2>4 DEF Next, AllOver, SourceChanges, vars
<1>2. QED
  BY <1>1, TypeCorrect, PTL DEF Spec, OnlyOwnerReleases

\* Until a holder overruns its lock, refreshes are stored in the order of the
\* versions they read, across every expiry of the fresh copy.
THEOREM StaleMonotone == Spec => StaleNeverGoesBack
<1>1. IndInv /\ [Next]_vars =>
        [overran = {} /\ stale # NONE /\ stale' # NONE => stale' >= stale]_vars
  <2> SUFFICES ASSUME IndInv, [Next]_vars, overran = {}, stale' # stale,
                      stale' # NONE
               PROVE stale' >= stale
    BY DEF IndInv, TypeOK, Versions, NONE
  <2> USE DEF redis, rare
  <2>1. ASSUME NEW p \in Calls, SetStale(p) PROVE stale' >= stale
    <3>1. pc[p] = "setStale" /\ stale' = val[p]
      BY <2>1 DEF SetStale, Goto
    <3>2. stale <= val[p] /\ stale \in Nat /\ val[p] \in Nat
      BY <3>1 DEF IndInv, Safety, RefreshInOrder, TypeOK, Versions, NONE
    <3>3. QED
      BY <3>1, <3>2
  <2>2. ASSUME NEW p \in Calls, Enter(p) \/ CallStep(p) \/ Crash(Process[p])
        PROVE SetStale(p)
    BY <2>2 DEF Enter, CallStep, Crash, Return, Follow, GetHit, GetMiss, LockOrStale,
       LockScriptError, Fetch, FetchError, SetData, Publish, Exec, Release, Notified,
       WaitTimeout, SelfSet
  <2>3. CASE Expiry
    BY <2>3 DEF Expiry, DataExpires, StaleExpires, LockExpires
  <2>4. QED
    BY <2>1, <2>2, <2>3 DEF Next, AllOver, SourceChanges, vars
<1>2. QED
  BY <1>1, IndInvHolds, PTL DEF Spec, StaleNeverGoesBack
=============================================================================
