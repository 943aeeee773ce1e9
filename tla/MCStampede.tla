------------------------------ MODULE MCStampede ------------------------------
(***************************************************************************)
(* Instances of StampedeCache: three calls, in three processes (or one with *)
(* singleflight bypassed) or two of them in one process.                    *)
(***************************************************************************)
EXTENDS StampedeCache, TLC

CONSTANTS c1, c2, c3, P1, P2, P3

Apart == c1 :> P1 @@ c2 :> P2 @@ c3 :> P3
Paired == c1 :> P1 @@ c2 :> P1 @@ c3 :> P2

\* Calls in processes of their own are interchangeable.
Symmetric == {f \in Permutations(Calls \cup {P1, P2, P3}) :
                \A p \in Calls : f[p] \in Calls /\ f[Process[p]] = Process[f[p]]}
===============================================================================
