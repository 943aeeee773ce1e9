----------------------------- MODULE LockingProofs -----------------------------
(***************************************************************************)
(* Proofs about LockingCaches, for any requests and bounds: a refresher     *)
(* whose lock has not run out still has it, so that refreshes do not        *)
(* overlap, and what they read comes in the order in which they store it.   *)
(***************************************************************************)
EXTENDS LockingCaches, TLAPS

\* A background refresh begins when its request is answered; until then polls are
\* left.
BgAfterReply ==
  \A r \in Requests : pc[r] # "done" => bg[r] = "none" /\ polls[r] < MaxPolls

\* Whoever refreshes has the lock, unless it ran out; of SWRCache that is true
\* only as long as no lock has run out, for a late DEL frees any lock.
RefresherHasLock == hard \/ overran = {} => \A r \in Refreshers \ overran : lock = r

\* Nothing is newer than the origin.
NotAhead == fresh <= db /\ stale <= db /\ \A r \in Requests : val[r] <= db

\* r has computed and not yet stored everything.
Storing(r) == pc[r] \in {"setFresh", "setStale"} \/ bg[r] \in {"setFresh", "setAgain"}

\* What is about to be stored is not older than what is there.
ReadInOrder ==
  overran = {} /\ faults = 0 =>
    \A r \in Requests :
      /\ Storing(r) => fresh <= val[r] /\ stale <= val[r]
      /\ pc[r] = "setStale" => fresh \in {NONE, val[r]}

IndInv ==
  /\ TypeOK
  /\ BgAfterReply
  /\ RefresherHasLock
  /\ NotAhead
  /\ ReadInOrder
  /\ FreshNotOlder

\* The inductive invariant holds initially.
LEMMA InitInv == Init => IndInv
BY SWRAssumption DEF Init, IndInv, TypeOK, BgAfterReply, RefresherHasLock, NotAhead, ReadInOrder,
   FreshNotOlder, Storing, Refreshers, Refreshing, RefreshingBg, Versions, NONE

\* While no lock has run out a refresher that stores is the only one.
LEMMA StoresAlone ==
  ASSUME IndInv, overran = {}, NEW r \in Requests, r \in Refreshers
  PROVE  \A q \in Requests : Storing(q) => q = r
BY DEF IndInv, RefresherHasLock, Storing, Refreshers, Refreshing, RefreshingBg

\* Types are kept by every step.
LEMMA TypeStep == TypeOK /\ BgAfterReply /\ [Next]_vars => TypeOK'
<1> SUFFICES ASSUME TypeOK, BgAfterReply, [Next]_vars PROVE TypeOK'
  OBVIOUS
<1> USE SWRAssumption DEF TypeOK, Goto, GotoBg, Fault, Refreshing, RefreshingBg, Versions, NONE
<1>1. ASSUME NEW r \in Requests, PollMiss(r) PROVE TypeOK'
  BY <1>1 DEF PollMiss, BgAfterReply
<1>2. ASSUME NEW r \in Requests,
             \/ GetHit(r) \/ GetMiss(r) \/ GetStale(r) \/ NotLocked(r) \/ LockError(r)
             \/ PollHit(r) \/ WaitCancelled(r)
      PROVE  TypeOK'
  BY <1>2 DEF GetHit, GetMiss, GetStale, NotLocked, LockError, PollHit, WaitCancelled
<1>3. ASSUME NEW r \in Requests, Locked(r) PROVE TypeOK'
  BY <1>3 DEF Locked
<1>4. ASSUME NEW r \in Requests,
             Compute(r) \/ ComputeError(r) \/ SetFresh(r) \/ SetStale(r) \/ Unlock(r)
      PROVE  TypeOK'
  BY <1>4 DEF Compute, ComputeError, SetFresh, SetStale, Unlock
<1>5. ASSUME NEW r \in Requests, BgStep(r) PROVE TypeOK'
  BY <1>5 DEF BgStep, BgCompute, BgComputeError, BgSet, BgDel
<1>6. CASE CopyExpires \/ LockExpires \/ OriginChanges
  BY <1>6 DEF CopyExpires, LockExpires, OriginChanges
<1>7. CASE UNCHANGED vars
  BY <1>7 DEF vars
<1>8. QED
  BY <1>1, <1>2, <1>3, <1>4, <1>5, <1>6, <1>7 DEF Next, Step, Quiet

\* The steps of a request that only read, or give up, do not disturb it.
LEMMA ReadingKeeps ==
  ASSUME IndInv, NEW r \in Requests,
         \/ GetHit(r) \/ GetMiss(r) \/ GetStale(r) \/ NotLocked(r) \/ LockError(r)
         \/ PollHit(r) \/ PollMiss(r) \/ WaitCancelled(r)
  PROVE  IndInv'
<1> USE SWRAssumption DEF IndInv, TypeOK, Goto, Fault, NONE, BgAfterReply
<1>1. TypeOK'
  BY TypeStep DEF Next, Step
<1>2. UNCHANGED <<hard, fresh, stale, db, bg, val, overran>>
  BY DEF GetHit, GetMiss, GetStale, NotLocked, LockError, PollHit, PollMiss, WaitCancelled
<1>3. /\ pc[r] \notin Refreshing \cup {"done"} /\ pc'[r] \notin Refreshing
      /\ \A q \in Requests \ {r} : pc'[q] = pc[q]
      /\ faults' = 0 => faults = 0
  BY DEF GetHit, GetMiss, GetStale, NotLocked, LockError, PollHit, PollMiss, WaitCancelled,
     Refreshing
<1>4. BgAfterReply'
  BY <1>2, <1>3 DEF GetHit, GetMiss, GetStale, NotLocked, LockError, PollHit, PollMiss, WaitCancelled
<1>5. Refreshers' = Refreshers /\ \A q \in Requests : Storing(q)' <=> Storing(q)
  BY <1>2, <1>3 DEF Refreshers, Refreshing, Storing
<1>6. lock' = lock \/ lock = FREE
  BY DEF GetHit, GetMiss, GetStale, NotLocked, LockError, PollHit, PollMiss, WaitCancelled
<1>7. RefresherHasLock' /\ NotAhead' /\ FreshNotOlder'
  <2>1. RefresherHasLock'
    BY <1>2, <1>5, <1>6 DEF RefresherHasLock, Refreshers
  <2>2. QED
    BY <1>2, <1>3, <1>5, <2>1 DEF NotAhead, FreshNotOlder
<1>8. ReadInOrder'
  BY <1>2, <1>3, <1>5 DEF ReadInOrder, Refreshing
<1>9. QED
  BY <1>1, <1>4, <1>7, <1>8

\* Acquiring, computing, storing and unlocking keep it.
LEMMA RefreshKeeps ==
  ASSUME IndInv, NEW r \in Requests,
         \/ Locked(r) \/ Compute(r) \/ ComputeError(r) \/ SetFresh(r) \/ SetStale(r)
         \/ Unlock(r) \/ BgStep(r)
  PROVE  IndInv'
<1> USE SWRAssumption DEF IndInv, TypeOK, Goto, GotoBg, Fault, NONE, Versions
<1>1. TypeOK'
  BY TypeStep DEF Next, Step
<1>2. BgAfterReply'
  BY DEF BgAfterReply, Locked, Compute, ComputeError, SetFresh, SetStale, Unlock, BgStep,
     BgCompute, BgComputeError, BgSet, BgDel
<1>3. RefresherHasLock'
  <2>1. CASE Locked(r)
    BY <2>1 DEF Locked, RefresherHasLock, Refreshers, Refreshing, RefreshingBg
  <2>2. CASE Unlock(r)
    <3>1. Refreshers' = Refreshers \ {r}
      BY <2>2 DEF Unlock, Refreshers, Refreshing, RefreshingBg, BgAfterReply
    <3>2. r \in Refreshers
      BY <2>2 DEF Unlock, Refreshers, Refreshing
    <3>3. QED
      BY <2>2, <3>1, <3>2 DEF Unlock, RefresherHasLock
  <2>3. CASE Compute(r) \/ ComputeError(r) \/ SetFresh(r) \/ SetStale(r) \/ BgStep(r)
    <3>1. Refreshers' \subseteq Refreshers /\ UNCHANGED <<hard, lock, overran>>
      BY <2>3 DEF Compute, ComputeError, SetFresh, SetStale, BgStep, BgCompute, BgComputeError,
         BgSet, BgDel, Refreshers, Refreshing, RefreshingBg
    <3>2. QED
      BY <3>1 DEF RefresherHasLock
  <2>4. QED
    BY <2>1, <2>2, <2>3
<1>4. NotAhead'
  BY DEF NotAhead, Locked, Compute, ComputeError, SetFresh, SetStale, Unlock, BgStep,
     BgCompute, BgComputeError, BgSet, BgDel
<1>5. ReadInOrder' /\ FreshNotOlder'
  <2> SUFFICES ASSUME overran' = {}, faults' = 0 PROVE ReadInOrder' /\ FreshNotOlder'
    BY DEF ReadInOrder, FreshNotOlder
  <2>1. overran = {} /\ faults = 0
    BY DEF Locked, Compute, ComputeError, SetFresh, SetStale, Unlock, BgStep,
       BgCompute, BgComputeError, BgSet, BgDel
  <2> USE <2>1 DEF ReadInOrder, FreshNotOlder, Storing
  <2>2. CASE Locked(r)
    BY <2>2 DEF Locked
  <2>3. CASE Compute(r)
    BY <2>3 DEF Compute, NotAhead
  <2>4. CASE SetFresh(r)
    <3>1. \A q \in Requests : Storing(q) => q = r
      BY <2>4, StoresAlone DEF SetFresh, Refreshers, Refreshing
    <3>2. fresh' = val[r] /\ UNCHANGED <<stale, val, bg>>
      BY <2>4 DEF SetFresh
    <3>3. \A q \in Requests : Storing(q)' => q = r
      BY <2>4, <3>1 DEF SetFresh
    <3>4. QED
      BY <2>4, <3>2, <3>3 DEF SetFresh
  <2>5. CASE SetStale(r)
    <3>1. \A q \in Requests : Storing(q) => q = r
      BY <2>5, StoresAlone DEF SetStale, Refreshers, Refreshing
    <3>2. QED
      BY <2>5, <3>1 DEF SetStale, BgAfterReply
  <2>6. CASE Unlock(r) \/ ComputeError(r)
    BY <2>6 DEF Unlock, ComputeError
  <2>7. CASE BgCompute(r) \/ BgComputeError(r)
    BY <2>7 DEF BgCompute, BgComputeError, NotAhead, BgAfterReply
  <2>8. CASE BgSet(r)
    <3>1. \A q \in Requests : Storing(q) => q = r
      BY <2>8, StoresAlone DEF BgSet, Refreshers, RefreshingBg
    <3>2. pc[r] = "done" /\ fresh' = val[r] /\ fresh' <= val[r] /\ UNCHANGED <<stale, val, pc>>
      BY <2>8 DEF BgSet, BgAfterReply
    <3>3. \A q \in Requests : Storing(q)' => q = r
      BY <2>8, <3>1 DEF BgSet
    <3>4. QED
      BY <2>8, <3>2, <3>3 DEF BgSet
  <2>9. CASE BgDel(r)
    BY <2>9 DEF BgDel
  <2>10. QED
    BY <2>2, <2>3, <2>4, <2>5, <2>6, <2>7, <2>8, <2>9 DEF BgStep
<1>6. QED
  BY <1>1, <1>2, <1>3, <1>4, <1>5

\* So do the TTLs and the origin.
LEMMA StepInv == IndInv /\ [Next]_vars => IndInv'
<1> SUFFICES ASSUME IndInv, [Next]_vars PROVE IndInv'
  OBVIOUS
<1>1. TypeOK'
  BY TypeStep DEF IndInv
<1> USE SWRAssumption, <1>1 DEF IndInv, TypeOK, NONE, Versions, BgAfterReply, RefresherHasLock, NotAhead,
        ReadInOrder, FreshNotOlder, Storing, Refreshers
<1>2. CASE CopyExpires
  BY <1>2 DEF CopyExpires
<1>3. CASE LockExpires
  BY <1>3 DEF LockExpires
<1>4. CASE OriginChanges
  BY <1>4 DEF OriginChanges
<1>5. CASE UNCHANGED vars
  BY <1>5 DEF vars
<1>6. QED
  BY <1>2, <1>3, <1>4, <1>5, ReadingKeeps, RefreshKeeps DEF Next, Step, Quiet

\* It holds in every reachable state.
LEMMA IndInvHolds == Spec => []IndInv
BY InitInv, StepInv, PTL DEF Spec

\* Every reachable state is well typed.
THEOREM TypeCorrect == Spec => []TypeOK
<1>1. IndInv => TypeOK
  BY DEF IndInv
<1>2. QED
  BY <1>1, IndInvHolds, PTL

\* Refreshes whose lock has not run out do not overlap.
THEOREM RefreshesExclude == Spec => []OneRefresher
<1>1. IndInv => OneRefresher
  BY DEF IndInv, RefresherHasLock, OneRefresher
<1>2. QED
  BY <1>1, IndInvHolds, PTL

\* Without errors and overruns the fresh copy is never older than the stale one.
THEOREM FreshIsNewest == Spec => []FreshNotOlder
<1>1. IndInv => FreshNotOlder
  BY DEF IndInv
<1>2. QED
  BY <1>1, IndInvHolds, PTL
=================================================================================
