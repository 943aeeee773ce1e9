------------------------------- MODULE RecencyList -------------------------------
(***************************************************************************)
(* What a least-recently-used cache promises: it holds the Capacity entries *)
(* used last, and Get answers the value put last under a key it holds.      *)
(***************************************************************************)
EXTENDS Naturals, Sequences, SequencesExt

CONSTANTS
  Keys,      \* keys
  Values,    \* values
  Capacity,  \* most entries held
  MISSING    \* the answer to Get for a key that is not held

VARIABLES
  entries,   \* the entries held, the one used last first
  answer     \* what the last Get answered

vars == <<entries, answer>>

Init == entries = <<>> /\ answer = MISSING

Absent(k) == \A i \in DOMAIN entries : entries[i].key # k

Get(k) ==
  \/ Absent(k) /\ answer' = MISSING /\ UNCHANGED entries
  \/ \E i \in DOMAIN entries :
       /\ entries[i].key = k
       /\ answer' = entries[i].value
       /\ entries' = <<entries[i]>> \o RemoveAt(entries, i)

Put(k, v) ==
  /\ \/ /\ Absent(k)
        /\ LET all == <<[key |-> k, value |-> v]>> \o entries
           IN  entries' = IF Len(all) > Capacity THEN Front(all) ELSE all
     \/ \E i \in DOMAIN entries :
          /\ entries[i].key = k
          /\ entries' = <<[key |-> k, value |-> v]>> \o RemoveAt(entries, i)
  /\ UNCHANGED answer

Next == \E k \in Keys : Get(k) \/ \E v \in Values : Put(k, v)

Spec == Init /\ [][Next]_vars
==================================================================================
