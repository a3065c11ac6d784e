# TLA+ verification of the NestJS WebSocket backend

The repository is a NestJS server. Clients open WebSockets with a JWT and a
client id, and send messages to users. A message travels over a Redis pub/sub
channel per user to every replica that holds sessions of that user; DynamoDB
holds a presence row per session. A small HTTP API reads and writes Redis keys
and reports health and metrics. This directory holds TLA+ models of these
parts, the TLC configurations that check them, and TLAPS proofs about them.
`PROJECT.json` maps each definition to the lines it stands for and lists the
runs, the mutants, the hazards, the findings and the theorems.

Paths below are relative to the repository's own `src/` directory.

## Inventory

| Component | State | Operations | Talks to |
|---|---|---|---|
| Gateway admission (`ws/ws.gateway.ts`, `ws/session.interface.ts`, `auth/jwt-verifier.service.ts`) | none | parse the upgrade URL, verify the token, match its subject, refuse | registry |
| Session registry (`ws/ws.service.ts`) | `sessions` (client id → session), `userClients` (user → client ids), one expiry timer per session | register, refuse a duplicate, expire, release on close, stop timers at shutdown | trackers, by `fanOut`: topics and presence |
| User topics (`user-topics/user-topic.service.ts`, `common/retry.ts`) | `subscribed` (claims); retry loops in flight | subscribe on the first session, unsubscribe after the last, retry, give up | Redis subscriber connection |
| Presence (`presence/presence.service.ts`, `dynamo/ttl.ts`) | none locally; rows of the User and Clients tables | two puts on connect, a conditional delete on disconnect | DynamoDB |
| Message fan-out (`ws/ws.service.ts`, `user-topics/user-topic.message.ts`) | none of its own; publishes in flight | parse a frame, publish, deliver to local sessions, NACK | Redis, registry |
| DynamoDB bootstrap (`dynamo/*`) | the tables and their TTL, shared by the replicas | wait until ready, create tables, enable TTL | DynamoDB |
| Redis key-value API (`redis/*`) | keys in Redis | get with lifetime, set with expiration and condition | Redis |
| HTTP metrics (`metrics/*`) | in-flight gauge, counters, histograms; scrape server | track and observe a request | HTTP server |
| Health probes (`health/*`) | none | liveness; readiness from two pings | Redis, DynamoDB |
| HTTP authentication (`auth/*`) | the key configuration, once read | admit or answer 401 | every controller |
| Process lifecycle, tracing (`main.ts`, `tracing.ts`) | tracing on or off, signal listeners | boot order, signals | everything |

What is hard here, and what would make each part correct:

* **Registry.** Callbacks of one socket (message, close, timer) meet callbacks
  of a successor with the same client id. Tokens can outlive the longest delay
  of `setTimeout`. Correct: the index equals the map, trackers hear of each
  session once in each phase, with the count as it is then, every live session
  has a timer, a session is only released for its own close or expiry, and
  every session ends.
* **Topics.** Retry loops of successive sessions run side by side on one
  channel. Correct: claims follow sessions; when the loops have ended, the
  subscription is what the claim says.
* **Presence.** No write waits for another; writes land in any order, may be
  lost, repeated or cut off by a crash. Correct: the row of a live session
  survives deletes of earlier sessions, and orphaned rows disappear.
* **Fan-out.** Sessions and subscriptions change while a message is between a
  publish and its delivery, and a client id may be held by somebody else when
  the answer comes. Correct: the target's sessions and nobody else get it,
  once and in order; rejections go back to the client id they are for.
* **Boot.** Several replicas create the same tables and race to enable their
  TTL, and a request that fails may have been executed. Correct: a replica that
  reports its tables ensured has them all; the losers of a race do not leave a
  table incomplete; nothing but Redis can hold the boot; spans are flushed
  before a signal ends the process.
* **HTTP.** Value and lifetime of a key are read by two commands; `finish` and
  `close` both release a gauge, in either order; two pings settle in either
  order; the key file can change under a running process. Correct: gauge and
  counter are exact, a read gives what the key held, NX writers exclude each
  other, readiness is true, and one key admits.

## Modules

| Module | Models |
|---|---|
| `SessionLifecycle` | abstract: what the registry promises (one admission and one end per session, one live session per client id, counts that move by one) |
| `SessionRegistry` | admission and registry of one replica; implements `SessionLifecycle` |
| `SessionRegistryProofs` | theorems about it |
| `UserTopics`, `UserTopicsProofs` | claims, commands and retry loops |
| `Tracking`, `TrackingProofs` | composition: registry (as `SessionLifecycle`) and topics of one replica, coupled by `fanOut` |
| `Presence`, `PresenceProofs` | rows and writes in flight |
| `MessageDelivery` | abstract: what the gateway promises of a message (settled once and in order, handed over to the target's sessions, rejected to its origin) |
| `Fanout`, `FanoutProofs` | frames, publishes, envelopes and deliveries across replicas; implements `MessageDelivery`, and `SessionLifecycle` on each replica |
| `FanoutRefinementProofs` | the two refinements, and what follows from the first for a settled frame |
| `Boot`, `BootProofs` | module initialisation, table bootstrap and signals of several replicas |
| `HttpRequests`, `HttpRequestsProofs` | HTTP requests of one replica from middleware to answer |
| `MC...` | instances of these for TLC: model values, symmetry, identities |

### SessionRegistry

A connection stands for the socket, the `Session` object and the presence token
made for it; the code creates each of them once per connection and compares
them by identity. The process is single threaded, so a callback is one action.
`handleConnection` is the exception: it checks the token and, at its end, reads
the clock again in `scheduleExpiry`. It is `Register` and `FinishConnection`
with `turn` held in between, where only `Tick` can step in.

Actions: `Refuse` (every early return of the gateway), `RefuseDuplicate`,
`Register`, `FinishConnection`, `ExpiryTimer` (release, or arm again),
`PeerClose` (the socket starts to close, for the peer's reasons or an error),
`CloseEvent`, `OnModuleDestroy`, `Tick`. `told` and `reported` record what the
trackers were told. Tokens carry whether they verify, their subject and their
`exp`; JWT `exp` is in seconds and the clock in milliseconds, with the
conversion kept (`MsPerSec`).

### UserTopics

`HandleConnect` and `HandleDisconnect` run up to their first await in one step:
the claim moves and the client is called (`Call`). A command that is sent goes
onto `wire[u]`, the commands on a channel in the order they were sent. `Resolve`
and `Reject` answer the oldest; a failed attempt sleeps (`asleep`) and `Retry`
makes it again, behind whatever was sent meanwhile; `GiveUp` is the part of
`Reject` where the attempts run out.

The client library is not part of the repository. What the model takes as
node-redis's behaviour, given how the service calls it:

* each successful `subscribe` adds a listener, as the service passes a new
  closure each time;
* a `subscribe` on a channel that has a listener sends nothing and resolves at
  once (`AnsweredLocally`), also while an UNSUBSCRIBE is on its way: the service
  calls `unsubscribe(channel)` without a listener, and only an unsubscribe that
  names its listener keeps a later subscribe from being answered so;
* `unsubscribe(channel)` is always sent; the listeners stay until its answer,
  which removes all of them, those added in the meantime too.

`raced`, `leftover` and `gaveUp` are histories that the properties use. A user
has raced when a loop started beside one that had failed an attempt, when an
attempt failed beside another loop, or when the client answered a subscribe
while commands of other loops were on their way: in these cases loops do not take
effect in the order of the connects and disconnects. The race is over when an
unsubscribe succeeds that is alone, with the channel unclaimed (`EndsRace`).
`gaveUp` is set by any subscribe that runs out of attempts, also one that is older
than the claim it drops; the next connect clears it.

### Tracking

`UserTopics` lets sessions come and go as they like; `Tracking` takes them from
the registry. `fanOut` calls the trackers in the turn that registers or releases
a session, so `Admission` is `Admit` of `SessionLifecycle` with `Connect` of
`UserTopics`, and `Ending` is `End` with `Disconnect` of the owner; a `Refusal`
tells nobody, and `Answers` are the steps of the retry loops. The count that
`UserTopics` keeps is the one the registry announces. No run uses this module:
its two parts are checked in the runs `registry` (the refinement) and `topics`,
and what holds of the two together is proved.

### Presence

`Connect` sends the two puts and `Disconnect` the delete conditional on the
token. `inflight` is a set, since nothing orders the writes. `Apply` is a write
that lands, with its condition; `ApplyUnanswered` one that lands and is sent
again; `Fail` one that is sent again or given up. `Age` takes a token past its
day, `TtlSweep` removes an aged row, `Crash` ends all sessions and may lose what
is in flight. Replicas share the tables: a client id has a session per replica
at most, and may have one on each (the TODO at `ws/ws.service.ts:83`), but one
Clients row. `FreshRowSurvives` says what that costs: only another session's
later put, or the end of the day, takes the row of a live session. The second
case is real, as the lifetime is written at connect and never refreshed.

### Boot

`pc[r]` is the stage of replica r: Nest awaits the `onModuleInit` hooks one
after the other in the order of imports, DynamoDB, the Redis client, the
subscriber, the scrape server, and then the port is opened. Inside the first,
`at` is the table of the loop and `attempt` the count of the bounded retry it is
in. `Describe`, `Create`, `Wait`, `DescribeTtl` and `UpdateTtl` are one request
each, as other replicas may step in between; `RequestFails` is any of them
rejected, executed or not. `BootstrapFailed` is the catch of `onModuleInit`: it
gives up the remaining tables and the boot goes on. DynamoDB is external: it
activates a table some time after `CreateTable`, answers a second `CreateTable`
with `ResourceInUseException`, which the code lets pass, and may refuse
`UpdateTimeToLive` for a table whose TTL is enabled, which it does not.

`InitTracing` puts listeners on both signals. `SignalHandled` runs one: it takes
tracing down and ends nothing else, and since `main.ts` enables no shutdown
hooks, the first signal does not stop the process. A second one
of the same kind does (`SignalEnds`). For the same reason `onModuleDestroy` of the services runs in
tests only. `tried` and `fault` are histories for `RaceHasWinner`.

### HttpRequests

A request goes through `Arrive` (metrics middleware), `Authenticate` (guard),
`Handle` (validation pipe and the handler up to its first await), the commands
of its handler (`RedisGet` and `RedisTtl`, `RedisSet`, `PingSettles` twice), and
ends with `Finish` and `Close`, whose listeners release the gauge. `Close` can
come before the answer; the handler goes on then. `RedisFails` rejects a command
that may have been executed. The DTO decorators are the bit `valid` of a
request. `expiration` and `condition` are kept, as `toSetOptions` treats them by
case. A token is known by the key that signed it. One Redis key is kept,
with who wrote its entry and which kind of lifetime it has; `Expire` removes it.
`seen` and `winners` are histories.

`EntryPlausible` is deliberately weaker than "value and lifetime of one entry":
a SET between the two commands pairs the old value with the new lifetime.

### Fanout

`Receive` is `handleMessage` up to its await; a frame is ignored, rejected or
queued in `pubs[r]`, the PUBLISH commands the shared client of replica r has
sent. `Publish`, `PublishFails` and `PublishUnanswered` are the three ends of
it: executed, not executed and rejected, executed and rejected because the
answer was lost. `HandleTopicMessage` delivers from `inbox[r]`, the subscriber
connection, and `DropSubscriber` loses that connection with what is on it.
`owed` is a history on each frame: the sessions that were open behind a
subscribed channel when it was published. `sendToLocalUser` skips the sender's
client id wherever the message arrives, so that sessions with that id are not
owed it, a successor of the sender or a session on another replica alike; the
code and its e2e test mean it so, and no property counts it as a loss.

Of the registry `Fanout` keeps the map from client ids to sessions; the index is
the map seen by user, which is `IndexAgrees` of `SessionRegistry`, proved there.
Of `UserTopics` it keeps that a replica may listen on the channel of a user who
has connected to it (`Listening`): any of these replicas may be the ones that
listen when a message is published, which includes everything `UserTopics` can do
(a deaf channel, a leaked one) short of the second listener of the finding
`topics_double_listener`: with two listeners every message arrives twice, and
neither `InOrder` nor `ImplementsDelivery` would hold.

`MessageDelivery` has no queues, sockets or envelopes. A frame is submitted or
refused, waits, is settled (sent to some replicas, answered to its origin, or
both), and from then on flies to a replica until it is delivered or lost there.
The mapping reads all of this off the concrete state: a frame waits while it is
in the `pubs` of its replica, flies while it is in an `inbox`, and is received
or rejected by what a socket `got`.

## Runs

| Run | Instance | Shows |
|---|---|---|
| `registry` | 2 connections, 2 client ids, 2 users, tokens of 1–3 s at 2 ticks a second, longest delay 3, clock to 6 | `IndexAgrees`, `LedgerBalanced`, `ReportedCurrent`, `TimersArmed`, `ReleasedForCause`, `SessionsEnd`, and `ImplementsLifecycle` (refinement) |
| `topics` | 1 user, 2 sessions, 3 loops at a time, 3 attempts | `ClaimOnlyWithSessions`, `UnclaimedGaveUp`, `QuietAgreement`, `PipelineAlternates`, `LoopsEnd` |
| `fanout` | 2 replicas with a session of one user each, and on one of them a session of another user with the client id of the first; 2 frames, sent by the first user | `OnlyToTarget`, `InOrder`, `OwedDelivered` across replicas, `NackAnswers`, `FramesSettle`, and `ImplementsDelivery` (refinement) |
| `presence` | 2 replicas, 1 user, 1 client id, 2 tokens, 2 sends, every fault | `FreshRowSurvives`, `PresentUserKnown`, `GoneForGood`, `OrphansReaped` |
| `boot` | 2 replicas, 2 tables, the first with a TTL, 2 attempts, 2 signals | `EnsuredReady`, `RaceHasWinner`, `NoSignalBeforeFlush`, `BootAdvances`, `BootEnds` |
| `http` | 2 requests out of 10 kinds, 2 keys, every fault; symmetry | `GaugeExact`, `ObservedOnce`, `EntryPlausible`, `WritesExpire`, `NxExclusive`, `ReadyTruthful`, `OneKey` |
| `topics_deaf_channel`, `topics_leaked_channel`, `topics_double_listener` | as `topics`, smaller | the three findings about topics |
| `presence_late_put`, `presence_early_delete` | as `presence`, one replica and no fault | the two findings about presence |
| `http_null_expiration` | 1 POST /redis, no fault | the finding about the key-value API |

Each passing run also checks its module's `TypeOK`. Each property of a passing
run has a mutant: a plausible slip in the code (a dropped condition, a missing
reset, a stale count) under which TLC finds the property violated.

**Why the bounds are enough.** Two connections with a free choice of client id
and user are a session and the successor that takes its client id, or two
sessions of a user. A longest delay of 3 with an expiry of up to 6 takes a timer
through a re-arming. The number of attempts matters only as first, middle and
last, hence 3 in `topics`; with three slots a sleeping loop meets a younger pair
of loops. Users of `UserTopics` share only the slots, so one user is checked.
Two tokens are a session and its successor, or two sessions of a client id on
two replicas. Two frames are the least that can be out of order. The three
connections of `fanout` are a sender, a session of its user behind another
replica, and a session of somebody else, which must not get what is for the
first user and which can take the sender's client id while its frames are on
their way (a NACK then reaches it). `Senders` leaves out frames of that third
session, which would be those of the first two from another user. Two tables are
the least with which the loser of a race leaves one behind; the first has a TTL
and the second has none, as Clients and LastSeen. Two requests meet in every pair of
handlers. The safety properties are proved for all values of the constants, so
that TLC's bounds matter for liveness and the findings.

**Deadlock.** `Presence` stops when its tokens are used up, `SessionRegistry`
when its connections are and the clock reaches its bound, `Fanout` when its
sockets are closed and its frames at rest, `HttpRequests` when its requests are
answered and closed; their configurations turn the deadlock check off.
`UserTopics` and `Boot` never stop, and are checked for it.

**Fairness.** *Registry*: the clock advances, the call on the stack returns, due
timers fire and closing sockets deliver their close event, which is the event
loop and the `ws` close timeout; peers and new connections owe nothing.
*Topics*: every command is answered, if only with an error when the connection
is lost, and every sleep ends. *Presence*: the SDK settles each write (its retry
budget is finite), a day passes, the TTL sweep runs. *Fan-out*: every PUBLISH is
answered in one of three ways and a received message is handled; nothing says
that a publish succeeds. *Boot*: requests to DynamoDB settle, sleeps end, local
sockets open or fail. The first is an assumption about the network more than about
the SDK, whose retries are finite but which by default sets a request no time
limit. Nothing is
assumed of Redis: the `reconnectStrategy` of `createRedisClient`
(`redis/redis.constants.ts:56`) never gives up, so `connect()` may stay pending
while Redis is away and `BootEnds` says nothing of that stage. No fairness is
assumed of HTTP requests, and no liveness is claimed.

## Findings

Each is a run that ends in a violation of what the source says of itself.

1. `topics_deaf_channel` (`user-topics/user-topic.service.ts:145`): the user
   reconnects before the answer to the UNSUBSCRIBE of its last session. The
   client answers the subscribe itself, as the channel still has a listener, and
   the answer to UNSUBSCRIBE removes the new listener with the old one. Nothing
   failed; the channel is claimed, so nobody subscribes it again, and it has no
   listener. A sleeping unsubscribe that is sent after the subscribe of a
   reconnect ends the same way. This rests on the behaviour of node-redis
   listed under UserTopics.
2. `topics_leaked_channel` (`:119`): a sleeping subscribe is sent after the
   unsubscribe of the last session; the channel stays subscribed.
3. `topics_double_listener` (`:120`, against the log text at `:175`): the
   subscribe after an exhausted unsubscribe adds a second listener.
4. `presence_late_put` (`presence/presence.service.ts:101`): the put of an
   earlier session lands last, and the delete of that session then removes the
   row of the live one.
5. `presence_early_delete` (`:145`): a delete that overtakes its own put leaves
   the row until its lifetime ends.
6. `http_null_expiration` (`redis/redis.controller.ts:100`, against the comment
   at `:91`): an expiration of `null` passes `@IsOptional`, is not `undefined`,
   and reading its `type` throws; the request is answered 500.

Four behaviours are facts of the model rather than findings, as
nothing in the source says otherwise: the first signal stops tracing and not the
process (`SignalHandled`); a NACK may reach a session that took the
client id after the sender left (`NackAnswers` is stated for client ids for this
reason); a message whose PUBLISH was executed but not answered is both delivered
and NACKed; the row of a session older than a day is swept although the session
is live (the exception in `FreshRowSurvives`).

## Proofs

Each component's `...Proofs` module begins with the inductive invariant `IInv`
and the conjuncts that only the proof needs, proves `Spec => []IInv`
(`InvariantHolds` or `Invariance`), with one step per action, and derives its
other theorems from it. `FanoutRefinementProofs` and `TrackingProofs` build on
the invariants of `FanoutProofs` and `UserTopicsProofs`.
They assume what the modules assume of their constants: finitely many client ids
or requests, positive bounds, and `Undefined` or `None` distinct from the real
values. The numbers of replicas, users, clients, connections, loops, attempts,
tokens, sends, tables, frames, requests and keys are arbitrary.

* **Registry.** `IndexAgrees`, `LedgerBalanced` and `TimersArmed` are not
  inductive alone: `release` deletes by client id, so one has to know that the
  map files each session under its own client id (`MapFiled`); a registration
  must find a connection without history (`Upgraded`); the second half of
  `handleConnection` must find its session live and without a timer
  (`TurnFresh`). `Counted` ties the announced count to the index and gives
  `ReportedCurrent` by a bijection between a user's client ids and its live
  connections. `ReleasedForCause` is an action property from the same
  invariant. `LifecycleTheorem` is the refinement: each action is a `Refuse`,
  `Admit`, `End` or a stutter of `SessionLifecycle`.
* **Topics.** `QuietAgreement` speaks of a channel whose loops have ended. To
  get there one has to know what the loops on their way will do: the wire holds
  exactly the loops that are awake (`WireFaithful`); without a race a loop that
  failed is alone (`RetryAlone`); commands alternate (`PipelineAlternates`); the
  oldest finds the channel as its predecessors were to leave it
  (`OldestFitsChannel`). A subscribe that the client answers itself is harmless
  only where it is the user's one loop and the channel has its listener from an
  unsubscribe that ran out (`LocalKeeps`); in any other case it is a race, and
  all of these but `WireFaithful` say nothing until an unsubscribe has ended it.
  `ClaimOnlyWithSessions` and `UnclaimedGaveUp` hold with races too. `AdvanceTheorem` is the safety half of `LoopsEnd`: each step of a
  loop lowers its `StepsLeft` or ends it, and touches no other loop
  (`LoopsAdvance`, which is proved only, by no run).
* **Registry and topics.** `CompositionTheorem` shows that a behaviour of
  `Tracking` is one of `SessionLifecycle` and one of `UserTopics`, so that what is
  proved of either holds of the two together, and that the count which decides
  about the subscription is the number of live sessions (`CountsLive`, the
  cardinality of a finite set, inductive by itself; it is why a disconnect never
  finds a count of zero). With `UnclaimedGaveUp`, `ClaimOnlyWithSessions` and
  `QuietAgreement` this gives what the source says of itself, "Subscribes while a
  user has local sessions; unsubscribes after the last", under the
  conditions the findings leave: no race of loops, which excludes a reconnect
  before the answer to UNSUBSCRIBE, and no loop that ran out of attempts
  (`LiveSessionsReachable`, `NobodyLeftListening`; proved only).
* **Presence.** `FreshRowSurvives` needs that tokens in rows and writes were
  minted (`Minted`) and belong to one session, whose delete is sent after it
  has ended (`OneSessionPerToken`). `PresentUserKnown` follows from
  `UserWriteKept`: every session's User put has landed, failed or is in flight.
  `GoneTheorem` completes `OrphansReaped`: a row that is gone, with its put
  settled, stays gone (`GoneForGood`). A write in flight may be sent again, but
  only a session that starts sends a put, and it has a token of its own.
* **Fan-out.** The properties speak of what a socket got; the invariant has to
  follow a frame through queue and inbox. Envelopes are those of frames that were
  sent (`QueuesFaithful`); frames of one replica wait and travel in order
  (`QueuesOrdered`), and what was received or rejected is older than what is
  still on its way (`GotOlder`), which gives `InOrder` and the "once" of
  `NackAnswers`. `NotEchoed` is `OnlyToTarget` by client id, which is what the
  code compares; the connection follows from it. `SessionsFiled` says that an
  open socket has its session, without which `OwedDelivered` is not kept by a
  delivery. `DeliveryTheorem` is the refinement of `MessageDelivery`: `Receive`
  is a `Submit`, a `Refuse` or a stutter, each end of a publish is a `Settle`,
  `HandleTopicMessage` a `Deliver`, `DropSubscriber` a `Lose`. It rests on
  `QueuesOrdered` (a frame is in a queue once, so that the step that removes it
  from the queue removes it from the mapped set; the head of a queue is the
  oldest of its replica) and on `GotOlder` (a session gets nothing older than
  what it has). `SettledTheorem` reads off the abstract steps what the queues
  hide: a frame whose publish has ended is never queued or rejected again, and a
  replica it is not on its way to never hands it over later (`SettledForGood`,
  proved only). `RegistriesTheorem` shows that the sessions of `Fanout` come and
  go as `SessionLifecycle` allows, with users and client ids taken per replica;
  with `LifecycleTheorem` the full registry and the brief one implement the same
  abstract specification. It needs one more invariant, `SessionsBounded`: only a
  socket that was opened and is not closed has a session, and a user's sessions on
  a replica are finitely many, as counts are cardinalities. This refinement is
  proved only, by no run.
* **Boot.** `EnsuredReady` needs `LoopProgress`: the tables before the current
  one are complete, and stay so whatever other replicas do, as no action takes a
  table or its TTL back. `RaceHasWinner` needs a replica that is not about to
  lose (`WinnerInLoop`): a refused update presupposes that some other replica's
  update of that table was executed, and that replica is still in its loop or
  has completed it. `NoSignalBeforeFlush` follows from `ListenersKept`.
  `BootNeverTurnsBack` is the safety half of `BootEnds`: hook, table, request and
  attempt of a replica (`Position`) grow lexicographically with each step it
  takes, whatever the other replicas do (`BootAdvances`).
* **HTTP.** `GaugeExact` and `ObservedOnce` are inductive together with the fact
  that the flag of the release callback says whether an event came
  (`ReleasedOnEvent`); their steps are lemmas about the cardinality of a set that
  gains or loses one request. `EntryPlausible` needs `ReadSeen`: a running GET
  has seen the current entry, and one that read a value has seen it.
  `NxExclusive` needs that the winner's entry is still there (`WinnerHolds`).

Every safety property of a passing run, invariant, action property or refinement,
is stated by a theorem. Only model-checked: the liveness properties
`SessionsEnd`, `LoopsEnd`, `OrphansReaped`, `FramesSettle` and `BootEnds`
(liveness under fairness is beyond the prover; `AdvanceTheorem`, `GoneTheorem` and
`BootNeverTurnsBack` prove the part of it that needs none), and the findings, which are counterexamples.

## Not modelled

* Content: JWT signatures (one bit or the key of a token), JSON text, the rules
  of the DTO decorators, key schemas of the tables, histogram buckets, spans,
  logging, the lengths of the back-off delays.
* Malformed envelopes and foreign channels: this server publishes neither, and
  the handler drops them without touching state.
* Destruction hooks other than the registry's: `quit()` of the two Redis
  clients, `destroy()` of the DynamoDB client, the close of the scrape server.
  Without shutdown hooks production never runs them.
* The scrape handler reads the registry only. `getSession`, `getSessionCount`
  and `isReady` only read too.
* Configuration of the `ws` adapter (payload limit, error logging), dependency
  wiring, the probe scripts and the manifests have no state of their own; an
  oversize frame is the `PeerClose` of `SessionRegistry`.

`PROJECT.json` gives a reason for each component.

## Plan

Done, in the order of importance: registry, topics, presence, fan-out, boot,
HTTP requests, the proofs of all their safety properties, and the composition of
registry and topics. Left:

1. Composition of `Tracking` and `Fanout` on one channel. `Fanout` lets any
   replica a user has connected to listen or not, with one listener; composed, the second
   listener of `topics_double_listener` would deliver twice, and what is lost
   between a connect and its SUBSCRIBE could be bounded.
2. Composition of `Boot` with the registry, for what a client sees of a replica
   that restarts between two of its sessions.
