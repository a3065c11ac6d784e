---------------------------- MODULE HttpRequests ----------------------------
(***************************************************************************)
(* HTTP requests of one replica: MetricsMiddleware, JwtAuthGuard, the      *)
(* validation pipe, the health, redis and hello controllers, RedisService  *)
(* and the in-flight gauge and request counter of MetricsService.          *)
(*                                                                         *)
(* Requests interleave wherever a handler awaits Redis or DynamoDB.  Keys  *)
(* of Redis do not interact: one is kept.  Redis and DynamoDB are external *)
(* and answer or fail; a command that fails may have been executed.  Node  *)
(* emits finish once the answer is handed over and close when the          *)
(* connection ends, in either order, or only one of them.                  *)
(***************************************************************************)
EXTENDS Integers, FiniteSets

CONSTANTS
  Reqs,      \* the requests that ever arrive
  Inputs,    \* what clients send
  PemKeys,   \* public keys the key file can hold
  None,      \* no entry, no key, no token
  Outside,   \* the writer of the entry that is there before the first request
  Faults     \* faults that happen: a subset of {"fail", "key"}

Routes == {"live", "ready", "hello", "get", "set", "unknown"}

\* length is the Content-Length, None where the header is absent (Node answers
\* one that is no natural number itself); valid is the verdict of the DTO
\* decorators, which pass an expiration of null: @IsOptional skips it.
Request == [route : Routes, token : PemKeys \cup {None}, valid : BOOLEAN,
            expiration : {"absent", "null", "given"},
            condition : {"absent", "NX", "XX"}, length : Nat \cup {None}]

Lives == {"persistent", "default", "given"}

\* An entry is known by who wrote it.
Entry == [value : Reqs \cup {Outside}, life : Lives]

ASSUME HttpAssumption ==
  /\ IsFiniteSet(Reqs)
  /\ Inputs \subseteq Request
  /\ None \notin PemKeys \cup Reqs \cup Entry \cup Request
  /\ Outside \notin Reqs

Deps == {"redis", "dynamo"}

Phases == {"new", "guard", "handler", "get", "ttl", "set", "ping", "answered"}

Statuses == {200, 201, 400, 401, 404, 500, 503}

VARIABLES
  req,        \* req[r]: what r is, None until it arrives
  phase,      \* phase[r]: where it is
  status,     \* status[r]: the status of its answer, 0 before
  answer,     \* answer[r]: the entry getEntry put together
  ping,       \* ping[r]: the settlements of ready's two pings
  events,     \* events[r]: finish and close, as far as emitted
  released,   \* released[r]: the flag of its trackInFlight callback
  gauge,      \* http_in_flight_requests
  total,      \* total[l]: http_requests_total of route label l
  config,     \* JwtVerifierService.config: the key it holds
  keyFile,    \* the key at JWT_PUBLIC_KEY_PATH, None when unusable
  entry,      \* the entry of the key in Redis, or None
  seen,       \* history: seen[r], the entries there were while GET r ran
  winners     \* history: the NX writers since the entry was last absent

redisVars == <<entry, seen, winners>>
metricVars == <<events, released, gauge, total>>
vars == <<req, phase, status, answer, ping, events, released, gauge, total,
          config, keyFile, entry, seen, winners>>

-----------------------------------------------------------------------------
(* Routing, labels and options.                                             *)

\* Probes only: bare /health is not one.
IsHealthRequest(route) == route \in {"live", "ready"}

\* @Public() handlers.
IsPublic(route) == route \in {"live", "ready"}

Template == [hello |-> "/", get |-> "/redis", set |-> "/redis"]

Labels == {"/", "/redis", "unknown"}

ResolveRouteLabel(route) ==
  IF route \in DOMAIN Template THEN Template[route] ELSE "unknown"

\* Mutant of ParseByteLength: an absent header is not told apart, which makes
\* the size NaN.
ParseUnchecked(value) == value

ParseByteLength(value) == IF value \in Nat /\ value > 0 THEN value ELSE 0

\* Mutant of ToSetOptions: the expiration of the body is copied as it is.
ToSetOptionsVerbatim(q) == [expiration |-> q.expiration, condition |-> q.condition]

\* Mutant of ToSetOptions: no default when the expiration is omitted.
ToSetOptionsNoDefault(q) ==
  [expiration |-> IF q.expiration = "given" THEN "given" ELSE "persistent",
   condition |-> q.condition]

\* Mutant of ToSetOptions: the condition is not copied.
ToSetOptionsNoCondition(q) ==
  [expiration |-> IF q.expiration = "given" THEN "given" ELSE "default",
   condition |-> "absent"]

ToSetOptions(q) ==
  [expiration |-> IF q.expiration = "given" THEN "given" ELSE "default",
   condition |-> q.condition]

\* dto.expiration is compared with undefined, then read.
ToSetOptionsThrows(q) == q.expiration = "null"

-----------------------------------------------------------------------------
(* State.                                                                   *)

Tracked(r) == req[r] # None /\ ~IsHealthRequest(req[r].route)

\* Values keep their ranges; only arrived requests have a phase.
TypeOK ==
  /\ req \in [Reqs -> Inputs \cup {None}]
  /\ phase \in [Reqs -> Phases]
  /\ status \in [Reqs -> Statuses \cup {0}]
  /\ answer \in [Reqs -> Entry \cup {None}]
  /\ ping \in [Reqs -> [Deps -> {"pending", "up", "down"}]]
  /\ events \in [Reqs -> SUBSET {"finish", "close"}]
  /\ released \in [Reqs -> BOOLEAN]
  /\ gauge \in Int
  /\ total \in [Labels -> Nat]
  /\ config \in PemKeys \cup {None}
  /\ keyFile \in PemKeys \cup {None}
  /\ entry \in Entry \cup {None}
  /\ seen \in [Reqs -> SUBSET (Entry \cup {None})]
  /\ winners \subseteq Reqs
  /\ \A r \in Reqs : (req[r] = None <=> phase[r] = "new")

\* A replica that has just started listening: the key file may be unusable,
\* and Redis may hold an entry without a lifetime.
Init ==
  /\ req = [r \in Reqs |-> None]
  /\ phase = [r \in Reqs |-> "new"]
  /\ status = [r \in Reqs |-> 0]
  /\ answer = [r \in Reqs |-> None]
  /\ ping = [r \in Reqs |-> [d \in Deps |-> "pending"]]
  /\ events = [r \in Reqs |-> {}]
  /\ released = [r \in Reqs |-> FALSE]
  /\ gauge = 0
  /\ total = [l \in Labels |-> 0]
  /\ config = None
  /\ keyFile \in PemKeys \cup {None}
  /\ entry \in {None, [value |-> Outside, life |-> "persistent"]}
  /\ seen = [r \in Reqs |-> {}]
  /\ winners = {}

-----------------------------------------------------------------------------
(* The way to the handler.                                                  *)

Reading(r) == phase[r] \notin {"new", "answered"} /\ req[r].route = "get"

Answer(r, code) ==
  /\ phase' = [phase EXCEPT ![r] = "answered"]
  /\ status' = [status EXCEPT ![r] = code]

Advance(r, to) ==
  /\ phase' = [phase EXCEPT ![r] = to]
  /\ UNCHANGED status

\* MetricsMiddleware.use: probes are not tracked.
Arrive(r, q) ==
  /\ phase[r] = "new"
  /\ req' = [req EXCEPT ![r] = q]
  /\ Advance(r, "guard")
  /\ gauge' = IF IsHealthRequest(q.route) THEN gauge ELSE gauge + 1
  /\ seen' = [seen EXCEPT ![r] = IF q.route = "get" THEN {entry} ELSE {}]
  /\ UNCHANGED <<answer, ping, events, released, total, config, keyFile, entry, winners>>

\* Mutant of GetConfig: the key is read for every request.
GetConfigUncached == keyFile

\* None where readPublicKey or the PEM check throws.
GetJwtConfig == keyFile

\* The config is read on first use; one that throws is not cached.
GetConfig == IF config # None THEN config ELSE GetJwtConfig

\* JwtAuthGuard.canActivate and verifyHeader; without a route no guard runs.
Authenticate(r) ==
  /\ phase[r] = "guard"
  /\ \/ /\ req[r].route = "unknown"
        /\ Answer(r, 404)
        /\ UNCHANGED config
     \/ /\ IsPublic(req[r].route)
        /\ Advance(r, "handler")
        /\ UNCHANGED config
     \/ /\ req[r].route # "unknown" /\ ~IsPublic(req[r].route)
        /\ req[r].token = None
        /\ Answer(r, 401)
        /\ UNCHANGED config
     \/ /\ req[r].route # "unknown" /\ ~IsPublic(req[r].route)
        /\ req[r].token # None
        /\ config' = GetConfig
        /\ IF req[r].token = config' THEN Advance(r, "handler") ELSE Answer(r, 401)
  /\ UNCHANGED <<req, answer, ping, metricVars, keyFile, redisVars>>

\* The validation pipe and the handler up to its first await.
Handle(r) ==
  /\ phase[r] = "handler"
  /\ \/ req[r].route \in {"live", "hello"} /\ Answer(r, 200)
     \/ req[r].route = "ready" /\ Advance(r, "ping")
     \/ req[r].route \in {"get", "set"} /\ ~req[r].valid /\ Answer(r, 400)
     \/ req[r].route = "get" /\ req[r].valid /\ Advance(r, "get")
     \/ /\ req[r].route = "set" /\ req[r].valid
        /\ IF ToSetOptionsThrows(req[r]) THEN Answer(r, 500) ELSE Advance(r, "set")
  /\ UNCHANGED <<req, answer, ping, metricVars, config, keyFile, redisVars>>

-----------------------------------------------------------------------------
(* Redis.                                                                   *)

\* The running GETs see the entry that is there after this step.
Watch(new) ==
  seen' = [r \in Reqs |-> IF Reading(r) THEN seen[r] \cup {new} ELSE seen[r]]

\* client.get in getEntry.
RedisGet(r) ==
  /\ phase[r] = "get"
  /\ \/ entry = None /\ Answer(r, 404) /\ UNCHANGED answer
     \/ /\ entry # None
        /\ Advance(r, "ttl")
        /\ answer' = [answer EXCEPT ![r] = entry]
  /\ UNCHANGED <<req, ping, metricVars, config, keyFile, redisVars>>

\* Mutant of RedisTtl: the reply -2 is taken for a key without a lifetime.
RedisTtlIgnoresMiss(r) ==
  /\ phase[r] = "ttl"
  /\ Answer(r, 200)
  /\ answer' = [answer EXCEPT ![r].life = IF entry = None THEN "persistent" ELSE entry.life]
  /\ UNCHANGED <<req, ping, metricVars, config, keyFile, redisVars>>

\* client.ttl in getEntry: -2 is a miss, otherwise the value read before gets
\* the lifetime there is now.
RedisTtl(r) ==
  /\ phase[r] = "ttl"
  /\ \/ entry = None /\ Answer(r, 404) /\ UNCHANGED answer
     \/ /\ entry # None
        /\ Answer(r, 200)
        /\ answer' = [answer EXCEPT ![r].life = entry.life]
  /\ UNCHANGED <<req, ping, metricVars, config, keyFile, redisVars>>

\* SET with the options of toSetOptions.
Write(r) ==
  LET options == ToSetOptions(req[r])
      writes == CASE options.condition = "NX" -> entry = None
                  [] options.condition = "XX" -> entry # None
                  [] OTHER -> TRUE
      new == IF writes THEN [value |-> r, life |-> options.expiration] ELSE entry
  IN /\ entry' = new
     /\ winners' = IF writes /\ req[r].condition = "NX" THEN winners \cup {r} ELSE winners
     /\ Watch(new)

RedisSet(r) ==
  /\ phase[r] = "set"
  /\ Write(r)
  /\ Answer(r, 201)
  /\ UNCHANGED <<req, answer, ping, metricVars, config, keyFile>>

\* The client rejects a command, which may have reached Redis: 500.
RedisFails(r) ==
  /\ "fail" \in Faults
  /\ phase[r] \in {"get", "ttl", "set"}
  /\ Answer(r, 500)
  /\ \/ UNCHANGED redisVars
     \/ phase[r] = "set" /\ Write(r)
  /\ UNCHANGED <<req, answer, ping, metricVars, config, keyFile>>

\* The lifetime of the entry ends.
Expire ==
  /\ entry # None
  /\ entry.life # "persistent"
  /\ entry' = None
  /\ winners' = {}
  /\ Watch(None)
  /\ UNCHANGED <<req, phase, status, answer, ping, metricVars, config, keyFile>>

-----------------------------------------------------------------------------
(* Readiness.                                                               *)

\* Mutant of PingSettles: the first settlement answers.
PingRaces(r, d, outcome) ==
  /\ phase[r] = "ping"
  /\ ping[r][d] = "pending"
  /\ ping' = [ping EXCEPT ![r][d] = outcome]
  /\ Answer(r, IF outcome = "up" THEN 200 ELSE 503)
  /\ UNCHANGED <<req, answer, metricVars, config, keyFile, redisVars>>

\* One ping of Promise.allSettled; the second one answers.
PingSettles(r, d, outcome) ==
  /\ phase[r] = "ping"
  /\ ping[r][d] = "pending"
  /\ ping' = [ping EXCEPT ![r][d] = outcome]
  /\ IF \E e \in Deps : ping'[r][e] = "pending"
     THEN UNCHANGED <<phase, status>>
     ELSE Answer(r, IF \E e \in Deps : ping'[r][e] # "up" THEN 503 ELSE 200)
  /\ UNCHANGED <<req, answer, metricVars, config, keyFile, redisVars>>

\* The key file is replaced, removed or put there.
ReplaceKey(k) ==
  /\ "key" \in Faults
  /\ keyFile' = k
  /\ UNCHANGED <<req, phase, status, answer, ping, metricVars, config, redisVars>>

-----------------------------------------------------------------------------
(* The end of a request.                                                    *)

\* Mutant of Release: the callback is not idempotent.
ReleaseAlways(r) ==
  /\ released' = [released EXCEPT ![r] = TRUE]
  /\ gauge' = gauge - 1

\* The callback of trackInFlight.
Release(r) ==
  /\ released' = [released EXCEPT ![r] = TRUE]
  /\ gauge' = IF released[r] THEN gauge ELSE gauge - 1

\* observeHttp throws for a size that is not a finite number or below zero.
ObserveHttp(r) ==
  LET label == ResolveRouteLabel(req[r].route) IN
  total' = IF ParseByteLength(req[r].length) \in Nat
           THEN [total EXCEPT ![label] = @ + 1] ELSE total

\* The finish listener: the observation, and the release in any case.
Finish(r) ==
  /\ Tracked(r)
  /\ phase[r] = "answered"
  /\ "finish" \notin events[r]
  /\ events' = [events EXCEPT ![r] = @ \cup {"finish"}]
  /\ ObserveHttp(r)
  /\ Release(r)
  /\ UNCHANGED <<req, phase, status, answer, ping, config, keyFile, redisVars>>

\* The connection ends, which the handler does not notice.
Close(r) ==
  /\ Tracked(r)
  /\ "close" \notin events[r]
  /\ events' = [events EXCEPT ![r] = @ \cup {"close"}]
  /\ Release(r)
  /\ UNCHANGED <<req, phase, status, answer, ping, total, config, keyFile, redisVars>>

Next ==
  \/ \E r \in Reqs :
       \/ \E q \in Inputs : Arrive(r, q)
       \/ Authenticate(r) \/ Handle(r) \/ RedisGet(r) \/ RedisTtl(r) \/ RedisSet(r)
       \/ RedisFails(r) \/ Finish(r) \/ Close(r)
       \/ \E d \in Deps : \E o \in {"up", "down"} : PingSettles(r, d, o)
  \/ \E k \in PemKeys \cup {None} : ReplaceKey(k)
  \/ Expire

Spec == Init /\ [][Next]_vars

-----------------------------------------------------------------------------
(* Properties.                                                              *)

\* The in-flight gauge is the number of tracked requests that neither finished
\* nor closed, in whatever order the two events come.
GaugeExact == gauge = Cardinality({r \in Reqs : Tracked(r) /\ events[r] = {}})

\* Every tracked request that finished is counted once under its route label,
\* with a Content-Length or without: observeHttp never throws on it.
ObservedOnce ==
  \A l \in Labels : total[l] = Cardinality({r \in Reqs :
    Tracked(r) /\ "finish" \in events[r] /\ ResolveRouteLabel(req[r].route) = l})

\* GET /redis between writes and expiries: the value and the lifetime it gives
\* are of entries there were while it ran (perhaps of two), and it reports a
\* miss only if the key was absent at some time while it ran.
EntryPlausible ==
  \A r \in Reqs : phase[r] = "answered" /\ req[r].route = "get" =>
    /\ status[r] = 200 =>
         /\ \E e \in seen[r] \ {None} : e.value = answer[r].value
         /\ \E e \in seen[r] \ {None} : e.life = answer[r].life
    /\ status[r] = 404 => None \in seen[r]

\* What POST /redis writes has a lifetime: only an entry of someone else is
\* persistent.
WritesExpire == entry # None /\ entry.life = "persistent" => entry.value = Outside

\* Of the POST /redis requests with condition NX only one writes until the key
\* is absent again.
NxExclusive == Cardinality(winners) <= 1

\* GET /health/ready waits for both pings, in either order, and says ok exactly
\* if both dependencies answered: one that is down is never masked by the other.
ReadyTruthful ==
  \A r \in Reqs : phase[r] = "answered" /\ req[r].route = "ready" =>
    /\ status[r] = (IF \A d \in Deps : ping[r][d] = "up" THEN 200 ELSE 503)
    /\ \A d \in Deps : ping[r][d] # "pending"

\* Past the guard of a protected route.
Admitted(r) ==
  /\ req[r] # None /\ req[r].route # "unknown" /\ ~IsPublic(req[r].route)
  /\ phase[r] \notin {"new", "guard"} /\ status[r] # 401

\* A process admits requests with tokens of one key only, the first usable one
\* it read: replacing the key file changes nothing until a restart, and no
\* request is admitted while no key was ever read.
OneKey == \A r \in Reqs : Admitted(r) => req[r].token = config /\ config # None

-----------------------------------------------------------------------------
(* A statement of the source that does not hold.                            *)

\* "never throws, conflicts are unrepresentable in the DTO": with Redis in
\* order a POST /redis that passed the validation pipe is not answered 500.
SetNeverThrows == \A r \in Reqs : status[r] # 500
=============================================================================
