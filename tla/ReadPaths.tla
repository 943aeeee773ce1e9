-------------------------------- MODULE ReadPaths --------------------------------
(***************************************************************************)
(* The services that put a cache before a source with no lock in Redis:     *)
(*   aside     cache-strategies/cache-aside, UserService.GetUser            *)
(*   through   cache-strategies/read-through, UserService.GetUser           *)
(*   template  singleflight, TemplateService.GetTemplate                    *)
(*   gateway   gateway-caching, CacheMiddleware.Handle, for a GET           *)
(*   weather   cache-layering, Handler.GetWeather                           *)
(*   flags     cache-layering, Handler.GetFlags and SetFlags of one set      *)
(*   xfetch    cache-stampede/xfetch, GetWithXFetch                         *)
(* A behaviour is one process of one of them, chosen in Init, that answers  *)
(* requests for one key.  A value is the version of the source it was read  *)
(* from.  Lookup, load and store are a step each.  go-cache's tiers, which   *)
(* weather and flags use, are one copy.  What flags falls back to are the   *)
(* defaults that New preloads into the same go-cache, version 1; what a PUT *)
(* stores are the others.  An error of the cache or of the source (its      *)
(* deadline and a cancelled request included) is one of MaxFaults faults.   *)
(***************************************************************************)
EXTENDS Naturals

CONSTANTS
  Requests,    \* requests for the key
  MaxVersion,  \* bound: versions of the source
  MaxFaults    \* bound: errors in a behaviour

ASSUME ReadPathsAssumption == MaxVersion \in Nat \ {0} /\ MaxFaults \in Nat

VARIABLES
  service,  \* which of the services this is
  cached,   \* the cached copy
  db,       \* the current version of the source; the defaults in flags' L1, or NONE
  at,       \* at[r]: next statement of r's goroutine
  val,      \* val[r]: what it loaded
  flight,   \* flight[r]: the request whose group.Do r shares
  reply,    \* reply[r]: what r was answered
  faults,   \* faults so far
  begin,    \* history: begin[r]: the newest version answered before r began
  failed    \* history: <<r, "load">>, or <<r, "lookup">> if that ends r, for what failed

history == <<begin, failed>>
vars == <<service, cached, db, at, val, flight, reply, faults, history>>

NONE == 0
ERROR == MaxVersion + 1  \* an error, or a response that is not a 200
Versions == 1..MaxVersion

\* What sets the services apart: which errors of the lookup end a request (any
\* but redis.Nil, or none), whether equal loads share a group.Do, whether a hit
\* may start a refresh in the background, and whether a request that finds nothing
\* loads from a source and fills the cache, or looks up the defaults.
Aside    == [strict |-> FALSE, group |-> FALSE, refresh |-> FALSE, fills |-> TRUE]
Through  == [strict |-> TRUE,  group |-> FALSE, refresh |-> FALSE, fills |-> TRUE]
Template == [strict |-> TRUE,  group |-> TRUE,  refresh |-> FALSE, fills |-> TRUE]
Gateway  == [strict |-> FALSE, group |-> FALSE, refresh |-> FALSE, fills |-> TRUE]
Weather  == [strict |-> FALSE, group |-> FALSE, refresh |-> FALSE, fills |-> TRUE]
XFetch   == [strict |-> FALSE, group |-> FALSE, refresh |-> TRUE,  fills |-> TRUE]
Flags    == [strict |-> FALSE, group |-> FALSE, refresh |-> FALSE, fills |-> FALSE]

Services == [aside |-> Aside, through |-> Through, template |-> Template,
             gateway |-> Gateway, weather |-> Weather, flags |-> Flags, xfetch |-> XFetch]

Init ==
  /\ service \in DOMAIN Services
  /\ cached = NONE /\ db = 1
  /\ at = [r \in Requests |-> "idle"]
  /\ val = [r \in Requests |-> NONE]
  /\ flight = [r \in Requests |-> r]
  /\ reply = [r \in Requests |-> NONE]
  /\ faults = 0
  /\ begin = [r \in Requests |-> NONE]
  /\ failed = {}

Is == Services[service]
Goto(r, from, to) == at[r] = from /\ at' = [at EXCEPT ![r] = to]
Fault == faults < MaxFaults /\ faults' = faults + 1

\* Only the first answer counts: xfetch's refresh goes on without its request.
Answer(r, x) == reply' = [reply EXCEPT ![r] = IF @ = NONE THEN x ELSE @]

Answered == {reply[r] : r \in Requests} \cap Versions

Request(r) ==
  /\ Goto(r, "idle", "get")
  /\ begin' = [begin EXCEPT ![r] = CHOOSE v \in Answered \cup {NONE} :
                                     \A w \in Answered : w <= v]
  /\ UNCHANGED <<service, cached, db, val, flight, reply, faults, failed>>

-----------------------------------------------------------------------------
\* The lookup

\* A hit is the answer; xfetch may throw its dice for a background refresh,
\* which runs on as r.
Hit(r) ==
  /\ cached # NONE
  /\ Answer(r, cached)
  /\ Goto(r, "get", "done") \/ (Is.refresh /\ Goto(r, "get", "load"))
  /\ UNCHANGED <<service, cached, db, val, flight, faults, history>>

Uncached(r) == Goto(r, "get", IF Is.group THEN "do" ELSE "load")

Miss(r) ==
  /\ cached = NONE
  /\ Uncached(r)
  /\ UNCHANGED <<service, cached, db, val, flight, reply, faults, history>>

\* Mutant: every service treats an error as the strict ones do.
AlwaysStrict(r) ==
  /\ Fault
  /\ failed' = failed \cup {<<r, "lookup">>}
  /\ Goto(r, "get", "done") /\ Answer(r, ERROR)
  /\ UNCHANGED <<service, cached, db, val, flight, begin>>

LookupError(r) ==
  /\ Fault
  /\ IF Is.strict
     THEN /\ Goto(r, "get", "done") /\ Answer(r, ERROR)
          /\ failed' = failed \cup {<<r, "lookup">>}
     ELSE Uncached(r) /\ UNCHANGED <<reply, failed>>
  /\ UNCHANGED <<service, cached, db, val, flight, begin>>

-----------------------------------------------------------------------------
\* group.Do of template

\* Mutant: the flight is over before its value is cached.
LoadsOnly == {q \in Requests : at[q] = "load"}

Flights == {q \in Requests : at[q] \in {"load", "store"}}

\* Mutant: no group.
DoAlone(r) ==
  /\ Goto(r, "do", "load")
  /\ UNCHANGED <<service, cached, db, val, flight, reply, faults, history>>

Do(r) ==
  /\ \/ Flights = {} /\ Goto(r, "do", "load") /\ UNCHANGED flight
     \/ /\ Goto(r, "do", "follow")
        /\ \E q \in Flights : flight' = [flight EXCEPT ![r] = q]
  /\ UNCHANGED <<service, cached, db, val, reply, faults, history>>

\* Mutant: an error is not passed on.
FollowValues(r) ==
  /\ Goto(r, "follow", "done")
  /\ reply[flight[r]] \in Versions
  /\ Answer(r, reply[flight[r]])
  /\ UNCHANGED <<service, cached, db, val, flight, faults, history>>

Follow(r) ==
  /\ Goto(r, "follow", "done")
  /\ at[flight[r]] = "done"
  /\ Answer(r, reply[flight[r]])
  /\ UNCHANGED <<service, cached, db, val, flight, faults, history>>

-----------------------------------------------------------------------------
\* The load and the store

Load(r) ==
  /\ Is.fills
  /\ Goto(r, "load", "store")
  /\ val' = [val EXCEPT ![r] = db]
  /\ UNCHANGED <<service, cached, db, flight, reply, faults, history>>

\* The error goes to the caller; nothing is cached.
LoadError(r) ==
  /\ Is.fills
  /\ Fault
  /\ Goto(r, "load", "done")
  /\ Answer(r, ERROR)
  /\ failed' = failed \cup {<<r, "load">>}
  /\ UNCHANGED <<service, cached, db, val, flight, begin>>

\* The Set's error is ignored by all; the cache may have obeyed nonetheless.
Store(r) ==
  /\ Goto(r, "store", "done")
  /\ \/ cached' = val[r] /\ UNCHANGED faults
     \/ Fault /\ cached' \in {cached, val[r]}
  /\ Answer(r, val[r])
  /\ UNCHANGED <<service, db, val, flight, history>>

-----------------------------------------------------------------------------
\* Flags: GetDefaultFlags is a second lookup in the cache, of another key.

\* The answer, which is not stored under the name asked for: from L1 or, as long
\* as it is there, from the stale copy when Redis fails.
Default(r) ==
  /\ ~Is.fills
  /\ (db # NONE /\ UNCHANGED faults) \/ Fault
  /\ Goto(r, "load", "done")
  /\ Answer(r, 1)
  /\ UNCHANGED <<service, cached, db, val, flight, history>>

\* Redis has no defaults, or fails when the stale copy is gone too: "flags
\* unavailable".
DefaultError(r) ==
  /\ ~Is.fills
  /\ (db = NONE /\ UNCHANGED faults) \/ Fault
  /\ Goto(r, "load", "done")
  /\ Answer(r, ERROR)
  /\ UNCHANGED <<service, cached, db, val, flight, history>>

\* The defaults are preloaded into L1 and the stale copy, not into Redis.  L1's TTL
\* passes, a healthy Redis then answers redis.Nil, for which the stale copy is not
\* looked at, and nothing writes them again: a PUT of them is refused.
DefaultsExpire ==
  /\ ~Is.fills /\ db # NONE
  /\ db' = NONE
  /\ UNCHANGED <<service, cached, at, val, flight, reply, faults, history>>

\* A PUT of another set of flags.  When it fails, it has stored it or it has not.
SetFlags ==
  /\ ~Is.fills
  /\ cached' \in Versions \ {1}
  /\ UNCHANGED <<service, db, at, val, flight, reply, faults, history>>

-----------------------------------------------------------------------------
\* The TTL, and the owner of the source.
Expire ==
  /\ cached # NONE
  /\ cached' = NONE
  /\ UNCHANGED <<service, db, at, val, flight, reply, faults, history>>

SourceChanges ==
  /\ Is.fills /\ db < MaxVersion
  /\ db' = db + 1
  /\ UNCHANGED <<service, cached, at, val, flight, reply, faults, history>>

Step(r) ==
  \/ Hit(r) \/ Miss(r) \/ LookupError(r) \/ Do(r) \/ Follow(r)
  \/ Load(r) \/ LoadError(r) \/ Store(r) \/ Default(r) \/ DefaultError(r)

\* Every request was made and every goroutine is over.
Quiet == (\A r \in Requests : at[r] = "done") /\ UNCHANGED vars

Next ==
  \/ \E r \in Requests : Request(r) \/ Step(r)
  \/ DefaultsExpire \/ SetFlags \/ Expire \/ SourceChanges \/ Quiet

Spec == Init /\ [][Next]_vars

\* Go runs goroutines on, and the cache and the source answer or fail.  A
\* request makes a bounded number of steps, so it is enough that one of those
\* that can take a step does.
FairSpec == Spec /\ WF_vars(\E r \in Requests : Step(r))

-----------------------------------------------------------------------------
\* The cached copy is a version of the source, never an error's body, and the
\* requests stay within their types.
TypeOK ==
  /\ service \in DOMAIN Services
  /\ cached \in Versions \cup {NONE} /\ db \in Versions \cup {NONE}
  /\ at \in [Requests -> {"idle", "get", "do", "follow", "load", "store", "done"}]
  /\ val \in [Requests -> Versions \cup {NONE}]
  /\ flight \in [Requests -> Requests]
  /\ reply \in [Requests -> Versions \cup {NONE, ERROR}]
  /\ faults \in 0..MaxFaults
  /\ begin \in [Requests -> Versions \cup {NONE}]
  /\ failed \subseteq Requests \X {"lookup", "load"}

\* A cache that is down fails no request of a service that has a source, but for
\* through and template, which give up when their own lookup fails.  All other
\* errors are of the load: the request's own or, of a follower in template's
\* group, that of the flight it shares, never the failed lookup of another
\* request.  (flags has no source; see DefaultsAnswer.)
OutageIsNoError ==
  Is.fills =>
    \A r \in Requests :
      reply[r] = ERROR =>
        <<flight[r], "load">> \in failed \/ (Is.strict /\ <<r, "lookup">> \in failed)

\* The group of template keeps load and store of one flight together, so no
\* late load brings an older version back into the cache.
CopyNeverGoesBack ==
  [][service = "template" /\ cached # NONE /\ cached' # NONE => cached' >= cached]_vars

\* Hence, as long as no store fails, a request of template never gets an older
\* version than one that was answered before it was made.
MonotonicReads ==
  service = "template" /\ faults = 0 =>
    \A r \in Requests : reply[r] # NONE => reply[r] >= begin[r]

\* Every request is answered, also one that waits for a flight that fails.  (A
\* request is made once, so from some point on none is left without an answer.)
RequestsAnswered == <>[](\A r \in Requests : at[r] # "idle" => reply[r] # NONE)

-----------------------------------------------------------------------------
\* cache-layering, handler.go:110 "Fall back to preloaded defaults (always in
\* L1/stale - never a cache miss)": no request for flags is answered an error.
DefaultsAnswer == service = "flags" => \A r \in Requests : reply[r] # ERROR
==================================================================================
