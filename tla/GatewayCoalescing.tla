---------------------------- MODULE GatewayCoalescing ----------------------------
(***************************************************************************)
(* gateway-caching/request_coalescing.go: Get of CoalescingCache.            *)
(*                                                                          *)
(* A caller calls Get once, for the key Key[c]; the WaitGroup it makes when *)
(* it is the first carries its name.  A response is named by the call whose *)
(* fetch returned it; NONE is nil.                                          *)
(*                                                                          *)
(* A waiter reads the map results after it has let go of c.mu.  While       *)
(* another goroutine assigns to the map (a step of its own here, under      *)
(* c.mu) that is a data race: the read returns what was there before or     *)
(* after, or the runtime ends the process with "concurrent map read and map *)
(* write".                                                                  *)
(***************************************************************************)
EXTENDS Naturals

CONSTANTS
  Callers,  \* goroutines that call Get
  Keys,     \* keys
  Key,      \* Key[c]: the key c asks for
  NONE      \* nil

GatewayAssumption == NONE \notin Callers /\ Key \in [Callers -> Keys]

VARIABLES
  inflight, \* inflight[k]: whose WaitGroup the map holds for k
  results,  \* results[k]: the last response stored for k
  pc,       \* pc[c]: next statement of c
  resp,     \* resp[c]: the response c fetched
  joined,   \* joined[c]: the WaitGroup c waits for
  released, \* WaitGroups that are done
  reply,    \* reply[c]: response and error c was returned
  fatal,    \* the runtime has ended the process
  earlier   \* history: earlier[c]: the flights that had landed when c called

vars == <<inflight, results, pc, resp, joined, released, reply, fatal, earlier>>

Init ==
  /\ inflight = [k \in Keys |-> NONE]
  /\ results = [k \in Keys |-> NONE]
  /\ pc = [c \in Callers |-> "idle"]
  /\ resp = [c \in Callers |-> NONE]
  /\ joined = [c \in Callers |-> NONE]
  /\ released = {}
  /\ reply = [c \in Callers |-> [resp |-> NONE, err |-> FALSE]]
  /\ fatal = FALSE
  /\ earlier = [c \in Callers |-> {}]

Goto(c, from, to) == ~fatal /\ pc[c] = from /\ pc' = [pc EXCEPT ![c] = to]

\* Nobody is in the only section under c.mu that takes more than one step.
MuFree == \A d \in Callers : pc[d] # "assign"

Landed == {d \in Callers : pc[d] \in {"done", "end"} /\ joined[d] = NONE}

-----------------------------------------------------------------------------
Call(c) ==
  /\ MuFree
  /\ earlier' = [earlier EXCEPT ![c] = Landed]

\* A request for the key is in flight.
Join(c) ==
  /\ Goto(c, "idle", "wait") /\ Call(c)
  /\ inflight[Key[c]] # NONE
  /\ joined' = [joined EXCEPT ![c] = inflight[Key[c]]]
  /\ UNCHANGED <<inflight, results, resp, released, reply, fatal>>

\* First request: mark as in flight.
Register(c) ==
  /\ Goto(c, "idle", "fetch") /\ Call(c)
  /\ inflight[Key[c]] = NONE
  /\ inflight' = [inflight EXCEPT ![Key[c]] = c]
  /\ UNCHANGED <<results, resp, joined, released, reply, fatal>>

Fetch(c) ==
  /\ Goto(c, "fetch", "store")
  /\ resp' = [resp EXCEPT ![c] = c]
  /\ UNCHANGED <<inflight, results, joined, released, reply, fatal, earlier>>

\* A nil response, which is stored like any other.
FetchError(c) ==
  /\ Goto(c, "fetch", "store")
  /\ reply' = [reply EXCEPT ![c].err = TRUE]
  /\ UNCHANGED <<inflight, results, resp, joined, released, fatal, earlier>>

\* Mutant: the waiters are let go before the result is stored.
LockAndRelease(c) ==
  /\ MuFree
  /\ Goto(c, "store", "assign")
  /\ released' = released \cup {c}
  /\ UNCHANGED <<inflight, results, resp, joined, reply, fatal, earlier>>

\* c.mu.Lock, and the assignment to the map begins.
Lock(c) ==
  /\ MuFree
  /\ Goto(c, "store", "assign")
  /\ UNCHANGED <<inflight, results, resp, joined, released, reply, fatal, earlier>>

\* It is over; delete and c.mu.Unlock.
Store(c) ==
  /\ Goto(c, "assign", "done")
  /\ results' = [results EXCEPT ![Key[c]] = resp[c]]
  /\ inflight' = [inflight EXCEPT ![Key[c]] = NONE]
  /\ UNCHANGED <<resp, joined, released, reply, fatal, earlier>>

\* Mutant: no wg.Done after a failed fetch.
DoneOnSuccess(c) ==
  /\ Goto(c, "done", "end")
  /\ released' = IF reply[c].err THEN released ELSE released \cup {c}
  /\ reply' = [reply EXCEPT ![c].resp = resp[c]]
  /\ UNCHANGED <<inflight, results, resp, joined, fatal, earlier>>

\* wg.Done, and return.
Done(c) ==
  /\ Goto(c, "done", "end")
  /\ released' = released \cup {c}
  /\ reply' = [reply EXCEPT ![c].resp = resp[c]]
  /\ UNCHANGED <<inflight, results, resp, joined, fatal, earlier>>

\* wg.Wait returns.
Wake(c) ==
  /\ Goto(c, "wait", "read")
  /\ joined[c] \in released
  /\ UNCHANGED <<inflight, results, resp, joined, released, reply, fatal, earlier>>

\* What an assignment to the same map element, if one is going on, leaves there.
Assigned(k) == {resp[d] : d \in {e \in Callers : pc[e] = "assign" /\ Key[e] = k}}

\* c.results[key], without c.mu; the error is nil whatever the flight's was.
Read(c) ==
  /\ Goto(c, "read", "end")
  /\ \E x \in {results[Key[c]]} \cup Assigned(Key[c]) :
       reply' = [reply EXCEPT ![c].resp = x]
  /\ UNCHANGED <<inflight, results, resp, joined, released, fatal, earlier>>

\* The same read, when the runtime notices the race, on whatever key it is.
ReadRaces(c) ==
  /\ ~MuFree
  /\ Goto(c, "read", "end")
  /\ fatal' = TRUE
  /\ UNCHANGED <<inflight, results, resp, joined, released, reply, earlier>>

-----------------------------------------------------------------------------
Step(c) ==
  \/ Fetch(c) \/ FetchError(c) \/ Lock(c) \/ Store(c) \/ Done(c)
  \/ Wake(c) \/ Read(c) \/ ReadRaces(c)

\* Everybody has returned, or the process is gone.
Quiet == (fatal \/ \A c \in Callers : pc[c] = "end") /\ UNCHANGED vars

Next == (\E c \in Callers : Join(c) \/ Register(c) \/ Step(c)) \/ Quiet

Spec == Init /\ [][Next]_vars

\* fetch returns and Go runs goroutines on, one of those that can run at a time;
\* nobody is obliged to call.
FairSpec == Spec /\ WF_vars(\E c \in Callers : Step(c))

-----------------------------------------------------------------------------
\* A nil entry stands for a key that is not in the map.
TypeOK ==
  /\ inflight \in [Keys -> Callers \cup {NONE}]
  /\ results \in [Keys -> Callers \cup {NONE}]
  /\ pc \in [Callers -> {"idle", "fetch", "store", "assign", "done", "wait", "read", "end"}]
  /\ resp \in [Callers -> Callers \cup {NONE}]
  /\ joined \in [Callers -> Callers \cup {NONE}]
  /\ released \subseteq Callers
  /\ reply \in [Callers -> [resp : Callers \cup {NONE}, err : BOOLEAN]]
  /\ fatal \in BOOLEAN
  /\ earlier \in [Callers -> SUBSET Callers]

\* Though results keeps old responses forever and a waiter may read it long
\* after its flight, nobody is answered with the response of a flight that had
\* landed before its own call: it is the flight it joined, or a later one.
NotFromEarlierFlight ==
  \A c \in Callers : reply[c].resp # NONE => reply[c].resp \notin earlier[c]

\* Every call returns, whatever its flight's fetch returned, unless the race ends
\* them all.  (Get is called once, so from some point on no call is under way.)
CallsReturn == <>[](fatal \/ \A c \in Callers : pc[c] \in {"idle", "end"})
==================================================================================
