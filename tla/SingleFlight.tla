------------------------------ MODULE SingleFlight ------------------------------
(***************************************************************************)
(* What request coalescing promises: at any time a key has at most one      *)
(* flight, whoever asks for the key while it is up shares the flight, and   *)
(* all who wait for it get the one outcome it lands with.  A caller may     *)
(* give up; its flight goes on.                                             *)
(*                                                                          *)
(* A flight is named by the caller that started it.                         *)
(***************************************************************************)
CONSTANTS
  Callers,   \* callers, each asking once
  Keys,      \* keys
  Key,       \* Key[c]: the key c asks for
  NONE,      \* no flight, no outcome or no reply yet
  Outcomes,  \* what a flight may land with
  GaveUp     \* the reply of a caller that gave up

VARIABLES
  flight,    \* flight[k]: the flight of key k that is up
  joined,    \* joined[c]: the flight c is in
  outcome,   \* outcome[f]: what flight f landed with
  reply      \* reply[c]: what c was answered

vars == <<flight, joined, outcome, reply>>

Init ==
  /\ flight = [k \in Keys |-> NONE]
  /\ joined = [c \in Callers |-> NONE]
  /\ outcome = [c \in Callers |-> NONE]
  /\ reply = [c \in Callers |-> NONE]

Start(c) ==
  /\ joined[c] = NONE
  /\ flight[Key[c]] = NONE
  /\ flight' = [flight EXCEPT ![Key[c]] = c]
  /\ joined' = [joined EXCEPT ![c] = c]
  /\ UNCHANGED <<outcome, reply>>

Join(c) ==
  /\ joined[c] = NONE
  /\ flight[Key[c]] # NONE
  /\ joined' = [joined EXCEPT ![c] = flight[Key[c]]]
  /\ UNCHANGED <<flight, outcome, reply>>

Land(c, o) ==
  /\ flight[Key[c]] = c
  /\ flight' = [flight EXCEPT ![Key[c]] = NONE]
  /\ outcome' = [outcome EXCEPT ![c] = o]
  /\ UNCHANGED <<joined, reply>>

Waits(c) == joined[c] # NONE /\ reply[c] = NONE

Answer(c) ==
  /\ Waits(c)
  /\ outcome[joined[c]] # NONE
  /\ reply' = [reply EXCEPT ![c] = outcome[joined[c]]]
  /\ UNCHANGED <<flight, joined, outcome>>

GiveUp(c) ==
  /\ Waits(c)
  /\ reply' = [reply EXCEPT ![c] = GaveUp]
  /\ UNCHANGED <<flight, joined, outcome>>

Next ==
  \E c \in Callers :
    Start(c) \/ Join(c) \/ (\E o \in Outcomes : Land(c, o)) \/ Answer(c) \/ GiveUp(c)

Spec == Init /\ [][Next]_vars

\* Flights land, and who waits for one that landed is answered: as long as there
\* is one of either, something of it happens.  A flight lands once and a caller is
\* answered once, so that all of it does.
FairSpec ==
  /\ Spec
  /\ WF_vars(\E c \in Callers :
               (\E o \in Outcomes : Land(c, o)) \/ Answer(c) \/ GiveUp(c))
=================================================================================
