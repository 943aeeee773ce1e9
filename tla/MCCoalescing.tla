------------------------------ MODULE MCCoalescing ------------------------------
(***************************************************************************)
(* Coalescing alone and as the layer inside the pods of                     *)
(* DistributedCoalescing, for one run of TLC: a behaviour is one of the one *)
(* that running says.                                                       *)
(*                                                                          *)
(* Alone there are three callers in one pod: enough for every role, the     *)
(* fetcher, a waiter, and a late caller that starts the next flight while   *)
(* the first one lands.  With Redis two callers are in one pod and one is   *)
(* in another.  Whoever is left over does not call.                         *)
(***************************************************************************)
EXTENDS DistributedCoalescing

CONSTANTS c1, c2, c3, c4, p1, p2

VARIABLE running

MCCallers == {c1, c2, c3, c4}
MCPods == {p1, p2}
Pod == [c \in MCCallers |-> IF c = c4 THEN p2 ELSE p1]

redis == <<lock, result, step, ret, polls, faults, history>>
allVars == <<running, dvars>>

MCInit == running \in {"alone", "pods"} /\ DInit

\* Who does not call in this behaviour.
Absent == IF running = "alone" THEN {c4} ELSE {c3}
Called == \A c \in Absent : joined'[c] = NONE /\ c \notin cancelled'

Alone(A) == running = "alone" /\ A /\ UNCHANGED <<running, redis>>
Pods(A) == running = "pods" /\ A /\ UNCHANGED running

MCNext == (Alone(Next) \/ Pods(DNext)) /\ Called

\* The fairness of both.
MCSpec ==
  /\ MCInit /\ [][MCNext]_allVars
  /\ WF_allVars(Alone(\E c \in Callers : Proceed(c)))
  /\ WF_allVars(Pods(\E c \in Callers : DProceed(c)))
=================================================================================
