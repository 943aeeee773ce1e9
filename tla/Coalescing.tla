------------------------------- MODULE Coalescing -------------------------------
(***************************************************************************)
(* cache-stampede/coalescing/singleflight.go: Get of CoalescingCache.       *)
(*                                                                          *)
(* A caller calls Get once, for the key Key[c], with a context of its own.  *)
(* The call object and the goroutine it makes when it becomes the fetcher   *)
(* carry its name.  The code that holds c.mu touches nothing but inflight,  *)
(* so each section under c.mu is one step; everything between two sections  *)
(* interleaves.  A value is named by the call whose fetchFn returned it.    *)
(***************************************************************************)
EXTENDS Naturals

CONSTANTS
  Callers,  \* goroutines that call Get
  Keys,     \* keys
  Key,      \* Key[c]: the key c asks for
  NONE      \* nil

VARIABLES
  inflight,  \* inflight[k]: the call object the map holds for k
  call,      \* call[c]: val and err of the call object c made
  done,      \* call objects whose done channel is closed
  worker,    \* worker[c]: next statement of the goroutine c started
  joined,    \* joined[c]: the call object c waits for
  cancelled, \* callers whose ctx is cancelled
  reply      \* reply[c]: what Get returned to c

vars == <<inflight, call, done, worker, joined, cancelled, reply>>

\* A result of Get or fetchFn: a value, or an error of the origin ("fetch") or of
\* the ctx next to Go's zero value or to some other value.
Value(c) == [val |-> c, err |-> "nil"]
Failed(e) == [val |-> NONE, err |-> e]
Outcomes == {Value(c) : c \in Callers} \cup [val : Callers \cup {NONE}, err : {"fetch", "ctx"}]

ASSUME CoalescingAssumption ==
  /\ NONE \notin Callers \cup Outcomes
  /\ Key \in [Callers -> Keys]

Init ==
  /\ inflight = [k \in Keys |-> NONE]
  /\ call = [c \in Callers |-> NONE]
  /\ done = {}
  /\ worker = [c \in Callers |-> "none"]
  /\ joined = [c \in Callers |-> NONE]
  /\ cancelled = {}
  /\ reply = [c \in Callers |-> NONE]

-----------------------------------------------------------------------------
\* Case 1: a request for the key is in flight, wait for it.
Join(c) ==
  /\ joined[c] = NONE
  /\ inflight[Key[c]] # NONE
  /\ joined' = [joined EXCEPT ![c] = inflight[Key[c]]]
  /\ UNCHANGED <<inflight, call, done, worker, cancelled, reply>>

\* Mutant: the map is not looked at.
RegisterAnyway(c) ==
  /\ joined[c] = NONE
  /\ inflight' = [inflight EXCEPT ![Key[c]] = c]
  /\ joined' = [joined EXCEPT ![c] = c]
  /\ worker' = [worker EXCEPT ![c] = "fetch"]
  /\ UNCHANGED <<call, done, cancelled, reply>>

\* Case 2: become the fetcher, and wait for one's own goroutine.
Register(c) ==
  /\ joined[c] = NONE
  /\ inflight[Key[c]] = NONE
  /\ inflight' = [inflight EXCEPT ![Key[c]] = c]
  /\ joined' = [joined EXCEPT ![c] = c]
  /\ worker' = [worker EXCEPT ![c] = "fetch"]
  /\ UNCHANGED <<call, done, cancelled, reply>>

\* The two arms of select: when both are ready Go takes either.
Waits(c) == joined[c] # NONE /\ reply[c] = NONE

Receive(c) ==
  /\ Waits(c)
  /\ joined[c] \in done
  /\ reply' = [reply EXCEPT ![c] = call[joined[c]]]
  /\ UNCHANGED <<inflight, call, done, worker, joined, cancelled>>

GiveUp(c) ==
  /\ Waits(c)
  /\ c \in cancelled
  /\ reply' = [reply EXCEPT ![c] = Failed("ctx")]
  /\ UNCHANGED <<inflight, call, done, worker, joined, cancelled>>

\* The caller's own doing, before or during Get.
Cancel(c) ==
  /\ c \notin cancelled /\ reply[c] = NONE
  /\ cancelled' = cancelled \cup {c}
  /\ UNCHANGED <<inflight, call, done, worker, joined, reply>>

-----------------------------------------------------------------------------
\* The fetcher's goroutine.  fetchFn runs with the ctx of the caller that
\* registered, whoever else waits; it may return a value next to its error.
Returned(c) ==
  {Value(c)} \cup [val : {c, NONE}, err : {"fetch"} \cup (IF c \in cancelled THEN {"ctx"} ELSE {})]

\* Mutant: val and err stay unwritten when fetchFn fails.
FetchUnwritten(c) ==
  /\ worker[c] = "fetch"
  /\ \E r \in Returned(c) : call' = [call EXCEPT ![c] = IF r.err = "nil" THEN r ELSE NONE]
  /\ worker' = [worker EXCEPT ![c] = "delete"]
  /\ UNCHANGED <<inflight, done, joined, cancelled, reply>>

\* val and err are stored as they are, both.
Fetch(c) ==
  /\ worker[c] = "fetch"
  /\ \E r \in Returned(c) : call' = [call EXCEPT ![c] = r]
  /\ worker' = [worker EXCEPT ![c] = "delete"]
  /\ UNCHANGED <<inflight, done, joined, cancelled, reply>>

\* Deferred, step 1.
Delete(c) ==
  /\ worker[c] = "delete"
  /\ inflight' = [inflight EXCEPT ![Key[c]] = NONE]
  /\ worker' = [worker EXCEPT ![c] = "close"]
  /\ UNCHANGED <<call, done, joined, cancelled, reply>>

\* Mutant: done may be closed before the delete.
CloseFirst(c) ==
  /\ worker[c] \in {"delete", "close"} /\ c \notin done
  /\ done' = done \cup {c}
  /\ UNCHANGED <<inflight, call, worker, joined, cancelled, reply>>

\* Mutant: done is closed only after a success.
CloseOnSuccess(c) ==
  /\ worker[c] = "close" /\ call[c].err = "nil"
  /\ done' = done \cup {c}
  /\ worker' = [worker EXCEPT ![c] = "end"]
  /\ UNCHANGED <<inflight, call, joined, cancelled, reply>>

\* Deferred, step 2: wakes every waiter at once.
Close(c) ==
  /\ worker[c] = "close"
  /\ done' = done \cup {c}
  /\ worker' = [worker EXCEPT ![c] = "end"]
  /\ UNCHANGED <<inflight, call, joined, cancelled, reply>>

-----------------------------------------------------------------------------
Work(c) == Fetch(c) \/ Delete(c) \/ Close(c)

\* Whoever has called has its reply and every goroutine has ended.
Quiet ==
  /\ \A c \in Callers : ~Waits(c) /\ worker[c] \in {"none", "end"}
  /\ UNCHANGED vars

Next ==
  \/ \E c \in Callers :
       Join(c) \/ Register(c) \/ Receive(c) \/ GiveUp(c) \/ Cancel(c) \/ Work(c)
  \/ Quiet

Spec == Init /\ [][Next]_vars

\* Go runs the fetcher's goroutine to its end (fetchFn returns) and a goroutine
\* whose select has a ready arm; nobody is obliged to call or to cancel.  Every
\* caller makes a bounded number of steps, so it is enough that one of those that
\* can take a step does.
Proceed(c) == Work(c) \/ Receive(c) \/ GiveUp(c)
FairSpec == Spec /\ WF_vars(\E c \in Callers : Proceed(c))

-----------------------------------------------------------------------------
\* The map, the call objects and the goroutines stay within their types.
TypeOK ==
  /\ inflight \in [Keys -> Callers \cup {NONE}]
  /\ call \in [Callers -> Outcomes \cup {NONE}]
  /\ done \subseteq Callers
  /\ worker \in [Callers -> {"none", "fetch", "delete", "close", "end"}]
  /\ joined \in [Callers -> Callers \cup {NONE}]
  /\ cancelled \subseteq Callers
  /\ reply \in [Callers -> Outcomes \cup {NONE}]

\* singleflight.go:48 "calling fetchFn at most once per concurrent group of
\* callers": two fetchFn calls for one key never overlap, also when the caller
\* that started the first gave up long ago.
OneFetchPerKey ==
  \A c, d \in Callers :
    worker[c] = "fetch" /\ worker[d] = "fetch" /\ Key[c] = Key[d] => c = d

\* singleflight.go:107: a late caller does not find a call that is already
\* completed, so it never gets a result older than its own request's flight.
NoLateJoin == \A k \in Keys : inflight[k] \notin done

\* singleflight.go:113: val and err are written before anyone reads them.
WrittenBeforeRead ==
  \A c \in Callers : Waits(c) /\ joined[c] \in done => call[joined[c]] # NONE

\* Coalescing implements SingleFlight: a flight lands when its entry leaves the
\* map, with the result its goroutine has written by then.
SF == INSTANCE SingleFlight WITH
        flight <- inflight,
        outcome <- [c \in Callers |-> IF worker[c] \in {"close", "end"} THEN call[c] ELSE NONE],
        GaveUp <- Failed("ctx")

\* Every behaviour is one SingleFlight allows: callers are answered with the
\* outcome of the one flight they joined.  Its liveness included: whoever calls
\* gets an answer, whatever fetchFn returns and whoever else gives up, and no key
\* stays in the map for good.
ImplementsSingleFlight == SF!FairSpec
=================================================================================
