----------------------------- MODULE UserTopics -----------------------------
(***************************************************************************)
(* UserTopicService: one Redis pub/sub subscription per user that has      *)
(* local sessions (user-topic.service.ts), kept by retry loops that run    *)
(* independently of each other (common/retry.ts).                          *)
(*                                                                         *)
(* handleConnect and handleDisconnect run synchronously up to their first  *)
(* await: the claim moves and the client is called in one step.  Commands  *)
(* on a channel are answered in the order they were sent, each with        *)
(* success or an error; a failed attempt sleeps and is made again,         *)
(* possibly after commands of a younger loop.                              *)
(*                                                                         *)
(* The subscriber client is external, node-redis as the service uses it.   *)
(* A subscribe on a channel that has a listener sends nothing: it adds the *)
(* listener (handleConnect passes a new closure each time) and resolves at *)
(* once.  On any other channel it sends SUBSCRIBE, and the listener is     *)
(* there when the answer is.  The service unsubscribes without naming a    *)
(* listener: UNSUBSCRIBE is always sent, the channel's listeners stay in   *)
(* the meantime, and its answer removes all of them, those added while it  *)
(* was on its way included.                                                *)
(***************************************************************************)
EXTENDS Naturals, Sequences

CONSTANTS
  Users,
  Ops,          \* bound: retry loops outstanding at the same time
  Attempts,     \* TOPIC_RETRY.attempts, 5 in the code
  MaxSessions,  \* bound: local sessions of a user
  None          \* no retry loop

ASSUME TopicAssumption ==
  /\ Attempts \in Nat \ {0}
  /\ MaxSessions \in Nat

Loop == [user : Users, kind : {"subscribe", "unsubscribe"},
         attempt : 1..Attempts, asleep : BOOLEAN]

ASSUME NoneAssumption == None \notin Loop

VARIABLES
  sessions,    \* sessions[u]: the count the session registry reports
  subscribed,  \* UserTopicService.subscribed: the users whose channel is claimed
  loop,        \* loop[o]: the withTopicOp call in slot o, or None
  wire,        \* wire[u]: commands on u's channel that await their answer
  listeners,   \* listeners[u]: listeners on u's channel, at most 2 counted
  raced,       \* history: users two of whose loops overtook each other
  leftover,    \* history: users with an exhausted unsubscribe and none since
  gaveUp       \* history: users with an exhausted subscribe and no claim since

vars == <<sessions, subscribed, loop, wire, listeners, raced, leftover, gaveUp>>

\* Each loop has at most one command on the wire, so no more than one per slot.
TypeOK ==
  /\ sessions \in [Users -> 0..MaxSessions]
  /\ subscribed \subseteq Users
  /\ loop \in [Ops -> Loop \cup {None}]
  /\ wire \in [Users -> Seq(Ops)]
  /\ listeners \in [Users -> 0..2]
  /\ raced \subseteq Users
  /\ leftover \subseteq Users
  /\ gaveUp \subseteq Users

Init ==
  /\ sessions = [u \in Users |-> 0]
  /\ subscribed = {}
  /\ loop = [o \in Ops |-> None]
  /\ wire = [u \in Users |-> << >>]
  /\ listeners = [u \in Users |-> 0]
  /\ raced = {}
  /\ leftover = {}
  /\ gaveUp = {}

-----------------------------------------------------------------------------
LoopsOf(u) == {o \in Ops : loop[o] # None /\ loop[o].user = u}

Quiet(u) == LoopsOf(u) = {}

\* The client answers a call itself: a subscribe on a channel with a listener.
AnsweredLocally(u, kind) == kind = "subscribe" /\ listeners[u] > 0

\* A loop that starts beside one that already failed an attempt, an attempt that
\* fails beside another loop, and a subscribe that is answered locally while the
\* commands of other loops are on their way, are races: the loops no longer take
\* effect in the order of the lifecycle events.
StartRaces(u, kind) ==
  \/ \E o \in LoopsOf(u) : loop[o].asleep \/ loop[o].attempt > 1
  \/ AnsweredLocally(u, kind) /\ ~Quiet(u)

FailureRaces(o) == LoopsOf(loop[o].user) # {o}

MarkRace(u, races) == raced' = IF races THEN raced \cup {u} ELSE raced

\* What the subscriber client does for a call that succeeds.
Listeners(kind, n) ==
  IF kind = "unsubscribe" THEN 0 ELSE IF n = 2 THEN 2 ELSE n + 1

\* Loop o, in the state l, calls the client: the call succeeds at once, and the
\* loop with it, or its command is on the wire.
Call(o, l) ==
  IF AnsweredLocally(l.user, l.kind)
  THEN /\ listeners' = [listeners EXCEPT ![l.user] = Listeners("subscribe", @)]
       /\ loop' = [loop EXCEPT ![o] = None]
       /\ UNCHANGED wire
  ELSE /\ loop' = [loop EXCEPT ![o] = l]
       /\ wire' = [wire EXCEPT ![l.user] = Append(@, o)]
       /\ UNCHANGED listeners

\* withTopicOp up to its first await: the first attempt.
StartLoop(u, kind) ==
  \E o \in Ops :
    /\ loop[o] = None
    /\ Call(o, [user |-> u, kind |-> kind, attempt |-> 1, asleep |-> FALSE])
    /\ MarkRace(u, StartRaces(u, kind))

NoLoop == UNCHANGED <<loop, wire, listeners, raced>>

\* Mutant of HandleConnect: the claim is taken only once SUBSCRIBE succeeds.
HandleConnectUnclaimed(u) ==
  IF u \in subscribed
  THEN NoLoop /\ UNCHANGED <<subscribed, gaveUp>>
  ELSE /\ StartLoop(u, "subscribe")
       /\ gaveUp' = gaveUp \ {u}
       /\ UNCHANGED subscribed

\* handleConnect: claim the channel and subscribe, unless it is claimed.
HandleConnect(u) ==
  IF u \in subscribed
  THEN NoLoop /\ UNCHANGED <<subscribed, gaveUp>>
  ELSE /\ subscribed' = subscribed \cup {u}
       /\ StartLoop(u, "subscribe")
       /\ gaveUp' = gaveUp \ {u}

\* Mutant of HandleDisconnect: the count is taken before the session left.
HandleDisconnectEarly(u, count) ==
  IF count > 1 \/ u \notin subscribed
  THEN NoLoop /\ UNCHANGED subscribed
  ELSE /\ subscribed' = subscribed \ {u}
       /\ StartLoop(u, "unsubscribe")

\* Mutant of HandleDisconnect: the claim is kept.
HandleDisconnectClaimed(u, count) ==
  IF count > 0 \/ u \notin subscribed
  THEN NoLoop /\ UNCHANGED subscribed
  ELSE StartLoop(u, "unsubscribe") /\ UNCHANGED subscribed

\* handleDisconnect: drop the claim and unsubscribe after the last session.
HandleDisconnect(u, count) ==
  IF count > 0 \/ u \notin subscribed
  THEN NoLoop /\ UNCHANGED subscribed
  ELSE /\ subscribed' = subscribed \ {u}
       /\ StartLoop(u, "unsubscribe")

-----------------------------------------------------------------------------
(* Actions.                                                                 *)

\* The registry registers a session of u and fans its connect out.
Connect(u) ==
  /\ sessions[u] < MaxSessions
  /\ sessions' = [sessions EXCEPT ![u] = @ + 1]
  /\ HandleConnect(u)
  /\ UNCHANGED leftover

\* The registry releases a session of u and fans its disconnect out.
Disconnect(u) ==
  /\ sessions[u] > 0
  /\ sessions' = [sessions EXCEPT ![u] = @ - 1]
  /\ HandleDisconnect(u, sessions[u] - 1)
  /\ UNCHANGED <<leftover, gaveUp>>

\* An unsubscribe that nothing overtakes any more ends a race: the channel is
\* neither claimed nor listened on, as it was at first.
EndsRace(o) ==
  /\ loop[o].kind = "unsubscribe"
  /\ loop[o].user \notin subscribed
  /\ LoopsOf(loop[o].user) = {o}

\* The oldest command on u's channel succeeds, and so does its loop.
Resolve(u) ==
  /\ wire[u] # << >>
  /\ LET o == Head(wire[u]) IN
       /\ listeners' = [listeners EXCEPT ![u] = Listeners(loop[o].kind, @)]
       /\ leftover' = IF loop[o].kind = "unsubscribe" THEN leftover \ {u} ELSE leftover
       /\ loop' = [loop EXCEPT ![o] = None]
       /\ raced' = IF EndsRace(o) THEN raced \ {u} ELSE raced
  /\ wire' = [wire EXCEPT ![u] = Tail(@)]
  /\ UNCHANGED <<sessions, subscribed, gaveUp>>

\* Mutant of Exhausted: the budget is never used up.
ExhaustedNever(l) == FALSE

\* withBoundedRetry has no attempt left.
Exhausted(l) == l.attempt = Attempts

\* Mutant of GiveUp: an exhausted subscribe keeps its claim.
GiveUpClaimed(u, kind) ==
  /\ UNCHANGED subscribed
  /\ IF kind = "subscribe"
     THEN gaveUp' = gaveUp \cup {u} /\ UNCHANGED leftover
     ELSE leftover' = leftover \cup {u} /\ UNCHANGED gaveUp

\* The catch block of withTopicOp: only a failed subscribe changes the claim.
GiveUp(u, kind) ==
  IF kind = "subscribe"
  THEN /\ subscribed' = subscribed \ {u}
       /\ gaveUp' = gaveUp \cup {u}
       /\ UNCHANGED leftover
  ELSE leftover' = leftover \cup {u} /\ UNCHANGED <<subscribed, gaveUp>>

\* The oldest command on u's channel fails: its loop sleeps or gives up.
Reject(u) ==
  /\ wire[u] # << >>
  /\ LET o == Head(wire[u]) IN
       /\ MarkRace(u, FailureRaces(o))
       /\ IF Exhausted(loop[o])
          THEN loop' = [loop EXCEPT ![o] = None] /\ GiveUp(u, loop[o].kind)
          ELSE /\ loop' = [loop EXCEPT ![o].asleep = TRUE]
               /\ UNCHANGED <<subscribed, leftover, gaveUp>>
  /\ wire' = [wire EXCEPT ![u] = Tail(@)]
  /\ UNCHANGED <<sessions, listeners>>

\* Mutant of Retry: the attempt is not counted.
RetryUncounted(o) ==
  /\ loop[o] # None
  /\ loop[o].asleep
  /\ Call(o, [loop[o] EXCEPT !.asleep = FALSE])
  /\ UNCHANGED <<sessions, subscribed, raced, leftover, gaveUp>>

\* The sleep of a loop ends and it calls the client again.
Retry(o) ==
  /\ loop[o] # None
  /\ loop[o].asleep
  /\ Call(o, [loop[o] EXCEPT !.asleep = FALSE, !.attempt = loop[o].attempt + 1])
  /\ UNCHANGED <<sessions, subscribed, raced, leftover, gaveUp>>

Next ==
  \/ \E u \in Users : Connect(u) \/ Disconnect(u) \/ Resolve(u) \/ Reject(u)
  \/ \E o \in Ops : Retry(o)

Spec == Init /\ [][Next]_vars

\* Every command is answered, with success or an error, and every sleep ends.
Fairness ==
  /\ \A u \in Users : WF_vars(Resolve(u) \/ Reject(u))
  /\ \A o \in Ops : WF_vars(Retry(o))

FairSpec == Spec /\ Fairness

-----------------------------------------------------------------------------
(* Properties that hold.                                                    *)

\* A channel is claimed only for a user with local sessions, whatever order
\* the retry loops of its earlier sessions end in.
ClaimOnlyWithSessions == \A u \in subscribed : sessions[u] > 0

\* A user with sessions and no claim is one for whom a subscribe ran out of
\* attempts and who has not connected since ("a connect arriving after an
\* exhausted subscribe finds no claim and retries it").  The subscribe may be an
\* older one than the one that made the claim.
UnclaimedGaveUp ==
  \A u \in Users : sessions[u] > 0 /\ u \notin subscribed => u \in gaveUp

\* When all of a user's loops have ended, and none raced since the last
\* unsubscribe that ended the user's loops for good, the channel has a listener
\* if it is claimed; if it is not, it has none or its last unsubscribe ran out of
\* attempts; and it has one listener at most, unless an unsubscribe ran out.
\* Races, a reconnect before the answer to UNSUBSCRIBE among them, are the cases
\* SubscribedWhileSessions and UnsubscribedAfterLast are about.
QuietAgreement ==
  \A u \in Users : Quiet(u) /\ u \notin raced =>
    /\ u \in subscribed => listeners[u] > 0
    /\ u \notin leftover =>
         listeners[u] = IF u \in subscribed THEN 1 ELSE 0

\* The claim keeps concurrent connects from subscribing twice: commands on the
\* wire of a channel that did not race alternate between SUBSCRIBE and
\* UNSUBSCRIBE, and the claim is what the last of them will make.
PipelineAlternates ==
  \A u \in Users \ raced :
    /\ \A i \in 1..(Len(wire[u]) - 1) :
         loop[wire[u][i]].kind # loop[wire[u][i + 1]].kind
    /\ wire[u] # << >> =>
         (u \in subscribed <=> loop[wire[u][Len(wire[u])]].kind = "subscribe")

\* Every retry loop ends: with success, or by giving up ("Bounded retry
\* budget").
LoopsEnd == \A o \in Ops : loop[o] # None ~> loop[o] = None

-----------------------------------------------------------------------------
(* Statements of the source that do not hold.                               *)

\* "Subscribes while a user has local sessions": once every loop of a claimed
\* channel has succeeded or given up, the channel is subscribed.
SubscribedWhileSessions ==
  \A u \in Users : Quiet(u) /\ u \in subscribed => listeners[u] > 0

\* "unsubscribes after the last": once every loop of a user without sessions
\* has ended, and its last unsubscribe did not run out of attempts, the channel
\* has no listener.
UnsubscribedAfterLast ==
  \A u \in Users :
    Quiet(u) /\ sessions[u] = 0 /\ u \notin leftover => listeners[u] = 0

\* "the next subscribe heals it": a subscribe that follows an exhausted
\* unsubscribe, with no race, leaves the channel with its one listener.
NextSubscribeHeals ==
  \A u \in Users : Quiet(u) /\ u \notin raced /\ u \in subscribed => listeners[u] = 1
=============================================================================
