----------------------------- MODULE MCWaitingRoom -----------------------------
(***************************************************************************)
(* Three sessions, admitted one or two at a time, and two requests that     *)
(* carry the same session_id.                                               *)
(***************************************************************************)
EXTENDS WaitingRoom

CONSTANT s1

OneVisitor == [v \in Visits |-> s1]
=================================================================================
