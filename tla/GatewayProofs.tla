------------------------------ MODULE GatewayProofs ------------------------------
(***************************************************************************)
(* Proofs about GatewayCoalescing, for any callers and keys: its types, and *)
(* that the race on the map results gives nobody an answer from before its  *)
(* call.                                                                    *)
(***************************************************************************)
EXTENDS GatewayCoalescing, TLAPS

\* The map inflight holds exactly the flights that are under way.
InFlight ==
  /\ \A k \in Keys :
       inflight[k] # NONE =>
         pc[inflight[k]] \in {"fetch", "store", "assign"} /\ Key[inflight[k]] = k
  /\ \A c \in Callers :
       pc[c] \in {"fetch", "store", "assign"} => inflight[Key[c]] = c

\* Who fetches has joined nobody, and what it fetched bears its name.
OwnResponse ==
  \A c \in Callers :
    /\ pc[c] \in {"idle", "fetch", "store", "assign", "done"} =>
         joined[c] = NONE /\ reply[c].resp = NONE
    /\ resp[c] \in {NONE, c}
    /\ pc[c] = "idle" => resp[c] = NONE

\* Flights that had landed have; a waiter's had not, and once it has, what is in
\* results is no older than it.
LandedBefore ==
  \A c \in Callers :
    /\ earlier[c] \subseteq Landed
    /\ c \notin earlier[c]
    /\ c \in released => c \in Landed
    /\ pc[c] \in {"wait", "read"} =>
         /\ joined[c] # NONE /\ joined[c] \notin earlier[c]
         /\ Key[joined[c]] = Key[c] /\ joined[joined[c]] = NONE
         /\ pc[joined[c]] \in {"fetch", "store", "assign", "done", "end"}
         /\ joined[c] \in Landed => results[Key[c]] \notin earlier[c]
    /\ pc[c] = "read" => joined[c] \in released

IndInv ==
  /\ TypeOK
  /\ InFlight
  /\ OwnResponse
  /\ LandedBefore
  /\ NotFromEarlierFlight

\* The invariant holds initially.
LEMMA InitInv ==
  ASSUME GatewayAssumption, Init
  PROVE  IndInv
BY DEF GatewayAssumption, Init, IndInv, TypeOK, InFlight, OwnResponse, LandedBefore,
   NotFromEarlierFlight, Landed

\* Every step keeps it.
LEMMA StepInv ==
  ASSUME GatewayAssumption, IndInv, [Next]_vars
  PROVE  IndInv'
<1> USE DEF GatewayAssumption, IndInv, TypeOK, InFlight, OwnResponse, LandedBefore,
        NotFromEarlierFlight, Landed, Goto, Call
<1>1. ASSUME NEW c \in Callers, Join(c) PROVE IndInv'
  BY <1>1 DEF Join
<1>2. ASSUME NEW c \in Callers, Register(c) PROVE IndInv'
  BY <1>2 DEF Register
<1>3. ASSUME NEW c \in Callers, Fetch(c) PROVE IndInv'
  BY <1>3 DEF Fetch
<1>4. ASSUME NEW c \in Callers, FetchError(c) PROVE IndInv'
  <2>1. /\ reply' \in [Callers -> [resp : Callers \cup {NONE}, err : BOOLEAN]]
        /\ \A d \in Callers : reply'[d].resp = reply[d].resp
    <3> DEFINE new == [reply[c] EXCEPT !.err = TRUE]
    <3>1. reply[c] \in [resp : Callers \cup {NONE}, err : BOOLEAN]
      OBVIOUS
    <3>2. new \in [resp : Callers \cup {NONE}, err : BOOLEAN] /\ new.resp = reply[c].resp
      BY <3>1
    <3>3. reply' = [reply EXCEPT ![c] = new]
      BY <1>4 DEF FetchError
    <3> HIDE DEF new
    <3>4. QED
      BY <3>2, <3>3
  <2>2. /\ pc[c] = "fetch" /\ pc' = [pc EXCEPT ![c] = "store"]
        /\ UNCHANGED <<inflight, results, resp, joined, released, fatal, earlier>>
    BY <1>4 DEF FetchError
  <2>3. TypeOK' /\ InFlight' /\ NotFromEarlierFlight'
    BY <2>1, <2>2
  <2>4. OwnResponse'
    BY <2>1, <2>2
  <2>5. LandedBefore'
    BY <2>2
  <2>6. QED
    BY <2>3, <2>4, <2>5
<1>5. ASSUME NEW c \in Callers, Lock(c) PROVE IndInv'
  BY <1>5 DEF Lock
<1>6. ASSUME NEW c \in Callers, Store(c) PROVE IndInv'
  BY <1>6 DEF Store
<1>7. ASSUME NEW c \in Callers, Done(c) PROVE IndInv'
  BY <1>7 DEF Done
<1>8. ASSUME NEW c \in Callers, Wake(c) PROVE IndInv'
  BY <1>8 DEF Wake
<1>9. ASSUME NEW c \in Callers, Read(c) PROVE IndInv'
  <2>1. PICK x \in {results[Key[c]]} \cup Assigned(Key[c]) :
          reply' = [reply EXCEPT ![c].resp = x]
    BY <1>9 DEF Read
  <2>2. /\ pc[c] = "read" /\ pc' = [pc EXCEPT ![c] = "end"]
        /\ UNCHANGED <<inflight, results, resp, joined, released, fatal, earlier>>
    BY <1>9 DEF Read
  <2>3. results[Key[c]] \notin earlier[c]
    BY <2>2
  <2>4. \A y \in Assigned(Key[c]) : y \in Callers \cup {NONE} /\ y \notin earlier[c]
    BY DEF Assigned
  <2>5. x \in Callers \cup {NONE} /\ x \notin earlier[c]
    BY <2>1, <2>3, <2>4
  <2>6. /\ reply' \in [Callers -> [resp : Callers \cup {NONE}, err : BOOLEAN]]
        /\ reply'[c].resp = x
        /\ \A d \in Callers : d # c => reply'[d].resp = reply[d].resp
    <3> DEFINE new == [reply[c] EXCEPT !.resp = x]
    <3>1. reply[c] \in [resp : Callers \cup {NONE}, err : BOOLEAN]
      OBVIOUS
    <3>2. new \in [resp : Callers \cup {NONE}, err : BOOLEAN] /\ new.resp = x
      BY <3>1, <2>5
    <3>3. reply' = [reply EXCEPT ![c] = new]
      BY <2>1
    <3> HIDE DEF new
    <3>4. QED
      BY <3>2, <3>3
  <2>7. TypeOK'
    BY <2>2, <2>6
  <2>8. InFlight'
    <3>1. \A d \in Callers : pc'[d] \in {"fetch", "store", "assign"} <=>
                               pc[d] \in {"fetch", "store", "assign"}
      BY <2>2
    <3>2. QED
      BY <2>2, <3>1
  <2>9. OwnResponse'
    BY <2>2, <2>6
  <2>10. LandedBefore'
    BY <2>2
  <2>11. NotFromEarlierFlight'
    BY <2>2, <2>5, <2>6
  <2>12. QED
    BY <2>7, <2>8, <2>9, <2>10, <2>11
<1>10. ASSUME NEW c \in Callers, ReadRaces(c) PROVE IndInv'
  BY <1>10 DEF ReadRaces
<1>11. CASE UNCHANGED vars
  BY <1>11 DEF vars
<1>12. QED
  BY <1>1, <1>2, <1>3, <1>4, <1>5, <1>6, <1>7, <1>8, <1>9, <1>10, <1>11
  DEF Next, Step, Quiet

\* The invariant holds in every reachable state.
LEMMA IndInvHolds ==
  ASSUME GatewayAssumption
  PROVE  Spec => []IndInv
<1>1. Init => IndInv
  BY InitInv
<1>2. IndInv /\ [Next]_vars => IndInv'
  BY StepInv
<1>3. QED
  BY <1>1, <1>2, PTL DEF Spec

\* The maps, the callers and their answers stay within their types.
THEOREM TypeCorrect ==
  ASSUME GatewayAssumption
  PROVE  Spec => []TypeOK
<1>1. IndInv => TypeOK
  BY DEF IndInv
<1>2. QED
  BY <1>1, IndInvHolds, PTL

\* Nobody is answered with the response of a flight that landed before its call.
THEOREM AnswersAreNotEarlier ==
  ASSUME GatewayAssumption
  PROVE  Spec => []NotFromEarlierFlight
<1>1. IndInv => NotFromEarlierFlight
  BY DEF IndInv
<1>2. QED
  BY <1>1, IndInvHolds, PTL
==================================================================================
