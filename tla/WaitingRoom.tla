------------------------------ MODULE WaitingRoom ------------------------------
(***************************************************************************)
(* waiting-room: the Redis queue (internal/queue), the admission loop       *)
(* (internal/admission) and the HTTP handlers (internal/handler).           *)
(*                                                                          *)
(* Every Redis command is a step; handlers, the admitter, TTLs and crashes  *)
(* interleave.  A Redis error and a crash spend one of MaxFaults faults.    *)
(* Of a queue position only its being one is modelled.                      *)
(***************************************************************************)
EXTENDS Naturals, FiniteSets

CONSTANTS
  Sessions,  \* the uuids Join makes, one per POST /queue/join
  Visits,    \* GET /resource and GET /queue/status requests
  Session,   \* Session[v]: the session_id request v carries
  Rate,      \* sessions admitted per tick
  Grain,     \* distance of float64 neighbours at UnixNano's magnitude
  MaxTime,   \* bound: the clock
  MaxFaults  \* bound: errors and crashes

ASSUME WaitingRoomAssumption ==
  /\ Session \in [Visits -> Sessions] /\ IsFiniteSet(Sessions)
  /\ Rate \in Nat \ {0} /\ Grain \in Nat \ {0}
  /\ MaxTime \in Nat /\ MaxFaults \in Nat

VARIABLES
  time,    \* the server's clock
  score,   \* score[s]: the score s is queued with
  join,    \* join[s]: how far the Join of s is
  queue,   \* members of waiting-room:queue
  batch,   \* ids admitBatch popped and has not granted yet
  token,   \* sessions with a waiting-room:admitted: key
  visit,   \* visit[v]: how far request v is
  faults,  \* faults so far
  gone,    \* history: sessions whose token was consumed or expired
  lost,    \* history: sessions popped that never got a token
  ahead,   \* history: <<s, t>> with Join of s answered before Join of t began
  late     \* history: visits that began after one of their session was served

session == <<time, score, join, ahead>>
vars == <<session, queue, batch, token, visit, faults, gone, lost, late>>

Init ==
  /\ time = 0
  /\ score = [s \in Sessions |-> 0]
  /\ join = [s \in Sessions |-> "new"]
  /\ queue = {} /\ batch = {} /\ token = {}
  /\ visit = [v \in Visits |-> "new"]
  /\ faults = 0
  /\ gone = {} /\ lost = {} /\ ahead = {} /\ late = {}

Fault == faults < MaxFaults /\ faults' = faults + 1

Tick ==
  /\ time < MaxTime
  /\ time' = time + 1
  /\ UNCHANGED <<score, join, ahead, queue, batch, token, visit, faults, gone, lost, late>>

-----------------------------------------------------------------------------
\* Join: Enqueue reads the clock, then sends ZADD NX.

\* Mutant: the score is a deadline.
TakeDeadline(s) ==
  /\ join[s] = "new"
  /\ join' = [join EXCEPT ![s] = "stamped"]
  /\ score' = [score EXCEPT ![s] = time + Grain]
  /\ ahead' = ahead \cup {<<t, s>> : t \in {u \in Sessions : join[u] = "joined"}}
  /\ UNCHANGED <<time, queue, batch, token, visit, faults, gone, lost, late>>

\* float64(time.Now().UnixNano()): instants of one grain get one score.
TakeScore(s) ==
  /\ join[s] = "new"
  /\ join' = [join EXCEPT ![s] = "stamped"]
  /\ score' = [score EXCEPT ![s] = time \div Grain]
  /\ ahead' = ahead \cup {<<t, s>> : t \in {u \in Sessions : join[u] = "joined"}}
  /\ UNCHANGED <<time, queue, batch, token, visit, faults, gone, lost, late>>

Enqueue(s) ==
  /\ join[s] = "stamped"
  /\ join' = [join EXCEPT ![s] = "joined"]
  /\ queue' = queue \cup {s}
  /\ UNCHANGED <<time, score, ahead, batch, token, visit, faults, gone, lost, late>>

\* ZADD fails, before or after Redis ran it: 500, but the member may be queued.
EnqueueError(s) ==
  /\ join[s] = "stamped"
  /\ Fault
  /\ join' = [join EXCEPT ![s] = "failed"]
  /\ queue' \in {queue, queue \cup {s}}
  /\ UNCHANGED <<time, score, ahead, batch, token, visit, gone, lost, late>>

-----------------------------------------------------------------------------
\* admitBatch

\* What ZPOPMIN may pop: Rate members, or all, with the lowest scores; members
\* of one score come in the order of their uuids, which says nothing.
Oldest ==
  {B \in SUBSET queue :
     /\ Cardinality(B) = Rate \/ (B = queue /\ Cardinality(B) < Rate)
     /\ \A b \in B, q \in queue \ B : score[b] <= score[q]}

\* Mutant: the newest come first.
PopNewest ==
  /\ batch = {} /\ queue # {}
  /\ \E B \in SUBSET queue :
       /\ Cardinality(B) = 1
       /\ \A b \in B, q \in queue \ B : score[b] >= score[q]
       /\ batch' = B
  /\ queue' = queue \ batch'
  /\ UNCHANGED <<session, token, visit, faults, gone, lost, late>>

\* Mutant: the members are read, not popped.
PeekBatch ==
  /\ batch = {} /\ queue # {}
  /\ batch' \in Oldest
  /\ UNCHANGED <<session, queue, token, visit, faults, gone, lost, late>>

\* Mutant: a tick waits for a full batch.
PopFullBatch ==
  /\ batch = {} /\ Cardinality(queue) >= Rate
  /\ batch' \in Oldest
  /\ queue' = queue \ batch'
  /\ UNCHANGED <<session, token, visit, faults, gone, lost, late>>

PopBatch ==
  /\ batch = {} /\ queue # {}
  /\ batch' \in Oldest
  /\ queue' = queue \ batch'
  /\ UNCHANGED <<session, token, visit, faults, gone, lost, late>>

\* One SET of the pipeline, which is no transaction.
Grant(s) ==
  /\ s \in batch
  /\ batch' = batch \ {s}
  /\ token' = token \cup {s}
  /\ UNCHANGED <<session, queue, visit, faults, gone, lost, late>>

\* The pipeline's error (also of a ctx cancelled by SIGTERM) is not looked at:
\* what is not set by then never will be.
GrantError ==
  /\ batch # {}
  /\ Fault
  /\ batch' = {}
  /\ lost' = lost \cup batch
  /\ UNCHANGED <<session, queue, token, visit, gone, late>>

-----------------------------------------------------------------------------
\* Resource: GET the token, DEL it, welcome.

Served(s) == \E v \in Visits : Session[v] = s /\ visit[v] = "served"

Check(v) ==
  /\ visit[v] = "new"
  /\ visit' = [visit EXCEPT ![v] = IF Session[v] \in token THEN "admitted" ELSE "refused"]
  /\ late' = IF Served(Session[v]) THEN late \cup {v} ELSE late
  /\ UNCHANGED <<session, queue, batch, token, faults, gone, lost>>

CheckError(v) ==
  /\ visit[v] = "new"
  /\ Fault
  /\ visit' = [visit EXCEPT ![v] = "refused"]
  /\ UNCHANGED <<session, queue, batch, token, gone, lost, late>>

\* Mutant: the token is left to its TTL.
ServeWithoutConsume(v) ==
  /\ visit[v] = "admitted"
  /\ visit' = [visit EXCEPT ![v] = "served"]
  /\ UNCHANGED <<session, queue, batch, token, faults, gone, lost, late>>

\* DEL, whose error is not looked at.
Consume(v) ==
  /\ visit[v] = "admitted"
  /\ visit' = [visit EXCEPT ![v] = "served"]
  /\ \/ /\ token' = token \ {Session[v]}
        /\ gone' = gone \cup (token \cap {Session[v]})
        /\ UNCHANGED faults
     \/ Fault /\ UNCHANGED <<token, gone>>
  /\ UNCHANGED <<session, queue, batch, lost, late>>

-----------------------------------------------------------------------------
\* Status, asked by a client that was told its session_id: GET the token, then
\* ZRANK.

\* An error of the GET counts as "not admitted".
AskToken(v) ==
  /\ visit[v] = "new" /\ join[Session[v]] = "joined"
  /\ \/ /\ visit' = [visit EXCEPT ![v] = IF Session[v] \in token THEN "told_admitted" ELSE "asking"]
        /\ UNCHANGED faults
     \/ Fault /\ visit' = [visit EXCEPT ![v] = "asking"]
  /\ late' = IF Served(Session[v]) THEN late \cup {v} ELSE late
  /\ UNCHANGED <<session, queue, batch, token, gone, lost>>

\* Position takes every error but redis.Nil for the rank 0, the first in line.
AskPosition(v) ==
  /\ visit[v] = "asking"
  /\ \/ /\ visit' = [visit EXCEPT ![v] = IF Session[v] \in queue THEN "told_position" ELSE "not_found"]
        /\ UNCHANGED faults
     \/ Fault /\ visit' = [visit EXCEPT ![v] = "told_position"]
  /\ UNCHANGED <<session, queue, batch, token, gone, lost, late>>

-----------------------------------------------------------------------------
\* The TTL of a token (5 minutes) passes.
TokenExpires(s) ==
  /\ s \in token
  /\ token' = token \ {s}
  /\ gone' = gone \cup {s}
  /\ UNCHANGED <<session, queue, batch, visit, faults, lost, late>>

\* The server dies and is started again: what is not in Redis is gone.
Crash ==
  /\ Fault
  /\ batch' = {}
  /\ lost' = lost \cup batch
  /\ join' = [s \in Sessions |-> IF join[s] = "stamped" THEN "failed" ELSE join[s]]
  /\ visit' = [v \in Visits |-> IF visit[v] \in {"admitted", "asking"} THEN "refused" ELSE visit[v]]
  /\ UNCHANGED <<time, score, ahead, queue, token, gone, late>>

Next ==
  \/ Tick \/ PopBatch \/ GrantError \/ Crash
  \/ \E s \in Sessions :
       TakeScore(s) \/ Enqueue(s) \/ EnqueueError(s) \/ Grant(s) \/ TokenExpires(s)
  \/ \E v \in Visits : Check(v) \/ CheckError(v) \/ Consume(v) \/ AskToken(v) \/ AskPosition(v)

Spec == Init /\ [][Next]_vars

\* The ticker fires and the admission loop goes on.
FairSpec ==
  /\ Spec
  /\ WF_vars(PopBatch)
  /\ WF_vars(\E s \in Sessions : Grant(s))

-----------------------------------------------------------------------------
\* Redis, the admitter and the requests stay within their types.
TypeOK ==
  /\ time \in 0..MaxTime
  /\ score \in [Sessions -> 0..MaxTime]
  /\ join \in [Sessions -> {"new", "stamped", "joined", "failed"}]
  /\ queue \subseteq Sessions /\ batch \subseteq Sessions /\ token \subseteq Sessions
  /\ visit \in [Visits -> {"new", "admitted", "served", "refused",
                         "asking", "told_admitted", "told_position", "not_found"}]
  /\ faults \in 0..MaxFaults
  /\ gone \subseteq Sessions /\ lost \subseteq Sessions
  /\ ahead \subseteq Sessions \X Sessions
  /\ late \subseteq Visits

\* A session that joined is in exactly one place: queued, popped, admitted, gone
\* after it was admitted, or lost to a fault; a fault loses one batch at most.
Accounted ==
  /\ \A s \in Sessions :
       /\ join[s] = "joined" => s \in queue \cup batch \cup token \cup gone \cup lost
       /\ s \in queue => s \notin batch \cup token \cup gone \cup lost
       /\ s \in batch => s \notin token \cup gone \cup lost
       /\ s \in token => s \notin gone \cup lost
       /\ s \in gone => s \notin lost
  /\ Cardinality(lost) <= Rate * faults

\* First come, first served (waiting-room/README.md:80), for those one of whom
\* was answered before the other asked: only equal scores may be overtaken.
JoinOrderKept ==
  \A s, t \in Sessions :
    <<s, t>> \in ahead /\ s \in queue /\ join[t] = "joined" /\ t \notin queue
      => score[s] = score[t]

\* A session that was let in is not let in again when it comes back later, nor
\* told that it is admitted or waiting, as long as Redis answers
\* (waiting-room/README.md:194).
ReplayRefused ==
  faults = 0 => \A v \in late : visit[v] \in {"refused", "asking", "not_found"}

\* What Status has told stays true: "admitted" is told to a session that has left
\* the queue for good, and so is 404, though that may come too early: between
\* the pop and the grant, and between the token's GET and the ZRANK.
StatusTruthful ==
  faults = 0 => \A v \in Visits :
    /\ visit[v] = "told_admitted" => Session[v] \in (token \cup gone) \ queue
    /\ visit[v] = "not_found" => Session[v] \in (batch \cup token \cup gone) \ queue

\* Everyone who joined is admitted sometime, or lost to a fault.
EveryoneAdmitted ==
  <>[](\A s \in Sessions : join[s] = "joined" => s \in token \cup gone \cup lost)

\* admitter.go:99 "removes the admitted token so the session can only enter
\* once": of all requests of one session, one is let in.
OneEntry ==
  \A v, w \in Visits :
    visit[v] = "served" /\ visit[w] = "served" /\ Session[v] = Session[w] => v = w
=================================================================================
