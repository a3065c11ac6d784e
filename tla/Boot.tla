-------------------------------- MODULE Boot --------------------------------
(***************************************************************************)
(* The start of a replica and the signals it gets (main.ts, tracing.ts,    *)
(* dynamo.service.ts and the onModuleInit hooks of RedisService,           *)
(* UserTopicService and MetricsService).                                   *)
(*                                                                         *)
(* Nest runs the hooks one module after the other, the deepest import      *)
(* first: DynamoDB, the Redis client, the user-topic subscriber, the       *)
(* scrape server; then the port is opened.  Replicas that start together   *)
(* share the tables of DynamoDB, which is external: a request settles once,*)
(* executed or not, and one that failed may have been executed.            *)
(***************************************************************************)
EXTENDS Naturals

CONSTANTS
  Replicas,
  Tables,      \* TABLE_DEFINITIONS.length; tables are their indexes
  TtlTables,   \* those with a ttlAttribute
  Attempts,    \* attempts of withBoundedRetry
  Signals      \* the signals tracing listens to

ASSUME BootAssumption ==
  /\ Tables \in Nat \ {0}
  /\ TtlTables \subseteq 1..Tables
  /\ Attempts \in Nat \ {0}

\* Where onModuleInit of DynamoService is inside ensureTablesExist.
Ensuring == {"describe", "create", "wait", "ttl", "update"}

Stages == Ensuring \cup
  {"down", "ping", "redis", "subscriber", "metrics", "listen", "serving"}

\* Of a table definition: whether it names a ttlAttribute.
HasTtl(i) == i \in TtlTables

\* "other" is an attribute of an earlier deployment.
TtlStates == {"off", "expiresAt", "other"}

VARIABLES
  pc,        \* pc[r]: the stage of replica r
  at,        \* at[r]: the table its loop is at
  attempt,   \* attempt[r]: the attempt of the withBoundedRetry it is in
  ensured,   \* ensured[r]: ensureTablesExist of this process returned
  started,   \* started[r]: tracing is on
  hooked,    \* hooked[r]: the signals whose one-time listener is still there
  table,     \* table[i]: TableStatus
  ttl,       \* ttl[i]: TimeToLiveDescription
  tried,     \* history: some replica went through the tables
  fault      \* history: a request of the loop failed other than for a race

replicaVars == <<pc, at, attempt, ensured, started, hooked>>
vars == <<pc, at, attempt, ensured, started, hooked, table, ttl, tried, fault>>

\* Stages, counters and tables keep their ranges; an absent table has no TTL.
TypeOK ==
  /\ pc \in [Replicas -> Stages]
  /\ at \in [Replicas -> 1..Tables]
  /\ attempt \in [Replicas -> 1..Attempts]
  /\ ensured \in [Replicas -> BOOLEAN]
  /\ started \in [Replicas -> BOOLEAN]
  /\ hooked \in [Replicas -> SUBSET Signals]
  /\ table \in [1..Tables -> {"absent", "creating", "active"}]
  /\ ttl \in [1..Tables -> TtlStates]
  /\ tried \in BOOLEAN /\ fault \in BOOLEAN
  /\ \A i \in 1..Tables : table[i] = "absent" => ttl[i] = "off"

\* No process runs; the tables are what earlier deployments left.
Init ==
  /\ pc = [r \in Replicas |-> "down"]
  /\ at = [r \in Replicas |-> 1]
  /\ attempt = [r \in Replicas |-> 1]
  /\ ensured = [r \in Replicas |-> FALSE]
  /\ started = [r \in Replicas |-> FALSE]
  /\ hooked = [r \in Replicas |-> {}]
  /\ table \in [1..Tables -> {"absent", "active"}]
  /\ ttl \in [1..Tables -> TtlStates]
  /\ \A i \in 1..Tables : (table[i] = "absent" \/ ~HasTtl(i)) => ttl[i] = "off"
  /\ tried = FALSE
  /\ fault = FALSE

-----------------------------------------------------------------------------
(* Flags of the environment, by the class parseEnvFlag puts a value in.     *)

FlagValues == {"missing", "enabled", "disabled", "unknown"}

ParseEnvFlag(value, defaultValue) ==
  IF value \in {"missing", "unknown"} THEN defaultValue ELSE value = "enabled"

\* isLocal: the endpoint's host is one of LOCAL_DYNAMO_HOSTNAMES.
ShouldBootstrap(isLocal, flag) == isLocal \/ ParseEnvFlag(flag, FALSE)

-----------------------------------------------------------------------------
(* Moves of the boot sequence.                                              *)

Goto(r, stage, i) ==
  /\ pc' = [pc EXCEPT ![r] = stage]
  /\ at' = [at EXCEPT ![r] = i]
  /\ attempt' = [attempt EXCEPT ![r] = 1]

Continue(r, stage) ==
  /\ Goto(r, stage, 1)
  /\ UNCHANGED <<ensured, started, hooked>>

\* The process ends.
Exit(r) ==
  /\ Goto(r, "down", 1)
  /\ ensured' = [ensured EXCEPT ![r] = FALSE]
  /\ started' = [started EXCEPT ![r] = FALSE]
  /\ hooked' = [hooked EXCEPT ![r] = {}]

\* Mutant of NextAttempt: the attempts are not counted.
NextAttemptUncounted(r) ==
  /\ attempt[r] < Attempts
  /\ UNCHANGED replicaVars

\* Mutant of NextAttempt: one attempt more than the budget.
NextAttemptOneMore(r) ==
  /\ attempt[r] <= Attempts
  /\ attempt' = [attempt EXCEPT ![r] = @ + 1]
  /\ UNCHANGED <<pc, at, ensured, started, hooked>>

\* One attempt of withBoundedRetry failed and it is not the last.
NextAttempt(r) ==
  /\ attempt[r] < Attempts
  /\ attempt' = [attempt EXCEPT ![r] = @ + 1]
  /\ UNCHANGED <<pc, at, ensured, started, hooked>>

\* The next table of the loop, or its end.
NextTable(r) ==
  \/ /\ at[r] < Tables
     /\ Goto(r, "describe", at[r] + 1)
     /\ UNCHANGED <<ensured, started, hooked>>
  \/ /\ at[r] = Tables
     /\ Goto(r, "redis", 1)
     /\ ensured' = [ensured EXCEPT ![r] = TRUE]
     /\ UNCHANGED <<started, hooked>>

\* The table is there: reconcile its TTL if it has one.
TableActive(r) ==
  \/ /\ HasTtl(at[r])
     /\ Goto(r, "ttl", at[r])
     /\ UNCHANGED <<ensured, started, hooked>>
  \/ /\ ~HasTtl(at[r])
     /\ NextTable(r)

-----------------------------------------------------------------------------
(* Start of the process.                                                    *)

\* Mutant of InitTracing: one of the process.once calls is missing.
InitTracingOneSignal(r) ==
  \E s \in Signals :
    \/ /\ started' = [started EXCEPT ![r] = TRUE]
       /\ hooked' = [hooked EXCEPT ![r] = {s}]
    \/ UNCHANGED <<started, hooked>>

\* initTracing: disabled, or started with its signal listeners, or failed to
\* start, which is logged.
InitTracing(r) ==
  \E flag \in FlagValues :
    \/ /\ ParseEnvFlag(flag, TRUE)
       /\ started' = [started EXCEPT ![r] = TRUE]
       /\ hooked' = [hooked EXCEPT ![r] = Signals]
    \/ UNCHANGED <<started, hooked>>

\* The application is created; an invalid DYNAMODB_ENDPOINT, AWS_REGION,
\* REDIS_PORT or WS_MAX_PAYLOAD ends the process here and leaves it down.
Start(r) ==
  /\ pc[r] = "down"
  /\ Goto(r, "ping", 1)
  /\ InitTracing(r)
  /\ UNCHANGED <<ensured, table, ttl, tried, fault>>

\* ListTables answers; getDynamoBootstrapConfig decides on the tables.
Ping(r) ==
  /\ pc[r] = "ping"
  /\ \E isLocal \in BOOLEAN, flag \in FlagValues :
       \/ /\ ShouldBootstrap(isLocal, flag)
          /\ Continue(r, "describe")
          /\ tried' = TRUE
       \/ /\ ~ShouldBootstrap(isLocal, flag)
          /\ Continue(r, "redis")
          /\ UNCHANGED tried
  /\ UNCHANGED <<table, ttl, fault>>

\* A failed attempt to reach DynamoDB or Redis; the last one ends the process.
ConnectFails(r) ==
  /\ pc[r] \in {"ping", "redis", "subscriber"}
  /\ NextAttempt(r) \/ (attempt[r] = Attempts /\ Exit(r))
  /\ UNCHANGED <<table, ttl, tried, fault>>

\* connect() of the shared client, then of the subscriber.
ConnectRedis(r) ==
  /\ pc[r] = "redis"
  /\ Continue(r, "subscriber")
  /\ UNCHANGED <<table, ttl, tried, fault>>

ConnectSubscriber(r) ==
  /\ pc[r] = "subscriber"
  /\ Continue(r, "metrics")
  /\ UNCHANGED <<table, ttl, tried, fault>>

\* The scrape server listens, is not enabled, or failed to bind, which is
\* logged; then the port of the API.
StartScrapeServer(r) ==
  /\ pc[r] = "metrics"
  /\ Continue(r, "listen")
  /\ UNCHANGED <<table, ttl, tried, fault>>

Listen(r) ==
  /\ pc[r] = "listen"
  /\ Continue(r, "serving") \/ Exit(r)
  /\ UNCHANGED <<table, ttl, tried, fault>>

-----------------------------------------------------------------------------
(* ensureTablesExist.                                                       *)

\* Mutant of Describe: any answer counts, a table that is being created too.
DescribeAny(r) ==
  /\ pc[r] = "describe"
  /\ \/ table[at[r]] # "absent" /\ TableActive(r)
     \/ /\ table[at[r]] = "absent"
        /\ Goto(r, "create", at[r])
        /\ UNCHANGED <<ensured, started, hooked>>
  /\ UNCHANGED <<table, ttl, tried, fault>>

Describe(r) ==
  /\ pc[r] = "describe"
  /\ \/ table[at[r]] = "active" /\ TableActive(r)
     \/ /\ table[at[r]] = "creating"
        /\ Goto(r, "wait", at[r])
        /\ UNCHANGED <<ensured, started, hooked>>
     \/ /\ table[at[r]] = "absent"
        /\ Goto(r, "create", at[r])
        /\ UNCHANGED <<ensured, started, hooked>>
  /\ UNCHANGED <<table, ttl, tried, fault>>

\* A table that another replica created meanwhile is a ResourceInUseException,
\* which isAwsError lets pass.
Create(r) ==
  /\ pc[r] = "create"
  /\ table' = [table EXCEPT ![at[r]] = IF @ = "absent" THEN "creating" ELSE @]
  /\ Goto(r, "wait", at[r])
  /\ UNCHANGED <<ensured, started, hooked, ttl, tried, fault>>

\* An error that leaves ensureTablesExist is logged and the boot goes on.
BootstrapFailed(r) == Continue(r, "redis")

\* Mutant of Wait: a table that stays CREATING is described anew.
WaitAnew(r) ==
  /\ pc[r] = "wait"
  /\ \/ table[at[r]] = "active" /\ TableActive(r)
     \/ NextAttempt(r)
     \/ /\ attempt[r] = Attempts
        /\ Goto(r, "describe", at[r])
        /\ UNCHANGED <<ensured, started, hooked>>
  /\ UNCHANGED <<table, ttl, tried, fault>>

\* One poll of waitUntilActive; a request that failed is polled again, too.
Wait(r) ==
  /\ pc[r] = "wait"
  /\ \/ /\ table[at[r]] = "active"
        /\ TableActive(r)
        /\ UNCHANGED fault
     \/ NextAttempt(r) /\ UNCHANGED fault
     \/ /\ attempt[r] = Attempts
        /\ BootstrapFailed(r)
        /\ fault' = TRUE
  /\ UNCHANGED <<table, ttl, tried>>

\* Mutant of DescribeTtl: its return leaves the loop over the tables.
DescribeTtlReturns(r) ==
  /\ pc[r] = "ttl"
  /\ \/ ttl[at[r]] = "expiresAt" /\ Continue(r, "redis")
     \/ /\ ttl[at[r]] # "expiresAt"
        /\ Goto(r, "update", at[r])
        /\ UNCHANGED <<ensured, started, hooked>>
  /\ UNCHANGED <<table, ttl, tried, fault>>

DescribeTtl(r) ==
  /\ pc[r] = "ttl"
  /\ \/ ttl[at[r]] = "expiresAt" /\ NextTable(r)
     \/ /\ ttl[at[r]] # "expiresAt"
        /\ Goto(r, "update", at[r])
        /\ UNCHANGED <<ensured, started, hooked>>
  /\ UNCHANGED <<table, ttl, tried, fault>>

\* UpdateTimeToLive; DynamoDB may refuse it for a table whose TTL is enabled.
UpdateTtl(r) ==
  /\ pc[r] = "update"
  /\ \/ ttl' = [ttl EXCEPT ![at[r]] = "expiresAt"] /\ NextTable(r)
     \/ ttl[at[r]] # "off" /\ BootstrapFailed(r) /\ UNCHANGED ttl
  /\ UNCHANGED <<table, tried, fault>>

\* A request of the loop fails, executed or not.
RequestFails(r) ==
  /\ pc[r] \in {"describe", "create", "ttl", "update"}
  /\ BootstrapFailed(r)
  /\ \/ UNCHANGED <<table, ttl>>
     \/ /\ pc[r] = "create" /\ table[at[r]] = "absent"
        /\ table' = [table EXCEPT ![at[r]] = "creating"]
        /\ UNCHANGED ttl
     \/ /\ pc[r] = "update"
        /\ ttl' = [ttl EXCEPT ![at[r]] = "expiresAt"]
        /\ UNCHANGED table
  /\ fault' = TRUE
  /\ UNCHANGED tried

\* DynamoDB activates a table it was asked to create.
Activate(i) ==
  /\ table[i] = "creating"
  /\ table' = [table EXCEPT ![i] = "active"]
  /\ UNCHANGED <<replicaVars, ttl, tried, fault>>

-----------------------------------------------------------------------------
(* Signals and crashes.                                                     *)

\* The listener: it runs once, calls shutdownTracing, which resets started and
\* flushes, and ends nothing else.
SignalHandled(r, s) ==
  /\ s \in hooked[r]
  /\ hooked' = [hooked EXCEPT ![r] = @ \ {s}]
  /\ started' = [started EXCEPT ![r] = FALSE]
  /\ UNCHANGED <<pc, at, attempt, ensured, table, ttl, tried, fault>>

\* Without a listener the signal ends the process.
SignalEnds(r, s) ==
  /\ pc[r] # "down"
  /\ s \notin hooked[r]
  /\ Exit(r)
  /\ fault' = (fault \/ pc[r] \in Ensuring)
  /\ UNCHANGED <<table, ttl, tried>>

\* The process is killed or crashes.
Kill(r) ==
  /\ pc[r] # "down"
  /\ Exit(r)
  /\ fault' = (fault \/ pc[r] \in Ensuring)
  /\ UNCHANGED <<table, ttl, tried>>

\* The steps that await DynamoDB.
DynamoInit(r) ==
  \/ Ping(r)
  \/ pc[r] = "ping" /\ ConnectFails(r)
  \/ Describe(r) \/ Create(r) \/ Wait(r) \/ DescribeTtl(r) \/ UpdateTtl(r)
  \/ RequestFails(r)

Next ==
  \/ \E r \in Replicas :
       \/ Start(r) \/ DynamoInit(r) \/ ConnectFails(r) \/ ConnectRedis(r)
       \/ ConnectSubscriber(r) \/ StartScrapeServer(r) \/ Listen(r) \/ Kill(r)
       \/ \E s \in Signals : SignalHandled(r, s) \/ SignalEnds(r, s)
  \/ \E i \in 1..Tables : Activate(i)

Spec == Init /\ [][Next]_vars

\* Requests to DynamoDB settle and local sockets open or fail.  Nothing is
\* assumed of Redis: with the reconnectStrategy of createRedisClient connect()
\* may stay pending as long as Redis is away.
Fairness ==
  \A r \in Replicas :
    WF_vars(DynamoInit(r)) /\ WF_vars(StartScrapeServer(r)) /\ WF_vars(Listen(r))

FairSpec == Spec /\ Fairness

-----------------------------------------------------------------------------
(* Properties.                                                              *)

Ready(i) == table[i] = "active" /\ (HasTtl(i) => ttl[i] = "expiresAt")

AllReady == \A i \in 1..Tables : Ready(i)

\* "Ensured DynamoDB tables": a replica whose loop returned has every table
\* active with its TTL attribute, whatever the replicas booting beside it did.
EnsuredReady == \A r \in Replicas : ensured[r] => AllReady

\* The loser of a race to enable TTL gives up the tables after it; the tables
\* are complete all the same once no replica is in its loop, if no request
\* failed, no replica died there and no table had another TTL attribute.
RaceHasWinner ==
  tried /\ ~fault /\ (\A i \in 1..Tables : ttl[i] # "other") =>
    AllReady \/ \E r \in Replicas : pc[r] \in Ensuring

\* A signal never ends a process whose spans nobody began to flush: while
\* tracing is on every signal has its listener, the second one ends the process.
NoSignalBeforeFlush ==
  [][\A r \in Replicas, s \in Signals : SignalEnds(r, s) => ~started[r]]_vars

\* A table that never becomes active, a refused request or a port in use does
\* not hang the boot: DynamoService.onModuleInit ends after a bounded number of
\* polls, and what follows the Redis connections ends too.
BootEnds ==
  \A r \in Replicas :
    /\ pc[r] \in Ensuring \cup {"ping"} ~> pc[r] \notin Ensuring \cup {"ping"}
    /\ pc[r] \in {"metrics", "listen"} ~> pc[r] \in {"serving", "down"}

\* How far the boot of r is: the hook, the table, the request for that table and
\* the attempt.
Hook(stage) ==
  CASE stage = "down" -> 0 [] stage = "ping" -> 1 [] stage \in Ensuring -> 2
    [] stage = "redis" -> 3 [] stage = "subscriber" -> 4 [] stage = "metrics" -> 5
    [] stage = "listen" -> 6 [] stage = "serving" -> 7

Request(stage) ==
  CASE stage = "describe" -> 1 [] stage = "create" -> 2 [] stage = "wait" -> 3
    [] stage = "ttl" -> 4 [] stage = "update" -> 5 [] stage \notin Ensuring -> 0

Position(r) == <<Hook(pc[r]), at[r], Request(pc[r]), attempt[r]>>

\* p comes before q in the lexicographic order.
Precedes(p, q) ==
  \E i \in 1..4 : p[i] < q[i] /\ \A j \in 1..(i - 1) : p[j] = q[j]

Advances(r) ==
  \/ pc[r] = "down" \/ pc'[r] = "down"
  \/ UNCHANGED Position(r)
  \/ Precedes(Position(r), Position(r)')

\* A process that boots never turns back: whatever the replicas beside it make
\* of the tables, each of its steps goes on to a later hook, table, request or
\* attempt, or ends it.  All four are bounded, and with them the boot.
BootAdvances == [][\A r \in Replicas : Advances(r)]_vars
=============================================================================
