-------------------------- MODULE SessionRegistry --------------------------
(***************************************************************************)
(* The WebSocket session registry of one replica: the gateway's admission  *)
(* of a connection (ws.gateway.ts, session.interface.ts) and WsService's   *)
(* session map, user index, token-expiry timers and tracker fan-out        *)
(* (ws.service.ts).                                                        *)
(*                                                                         *)
(* A connection c stands for one accepted socket, for the Session object   *)
(* built around it, and for the presenceToken minted for it: each is       *)
(* created once per connection and compared by identity.                   *)
(*                                                                         *)
(* The process is single threaded, so a JavaScript callback is one action. *)
(* The one exception is handleConnection, which reads the clock twice (in  *)
(* the token check and, last, in scheduleExpiry): it is two actions with   *)
(* turn held in between, during which only the clock can move.             *)
(***************************************************************************)
EXTENDS Integers, FiniteSets

CONSTANTS
  Users, Clients,    \* validated, non-blank user and client ids
  Conns,             \* connections the server ever accepts
  Undefined,         \* JavaScript's undefined
  MsPerSec,          \* milliseconds in a second, 1000 in the code
  MAX_TIMER_DELAY,   \* MAX_TIMER_DELAY_MS: the longest delay setTimeout takes
  MaxExp,            \* bound: the latest token expiry, in seconds
  MaxNow             \* bound: the last instant of the clock, in milliseconds

ASSUME ConstantsAssumption ==
  /\ IsFiniteSet(Clients)
  /\ MsPerSec \in Nat \ {0}
  /\ MAX_TIMER_DELAY \in Nat \ {0}
  /\ MaxExp \in Nat \ {0}
  /\ MaxNow \in Nat

Session == [userId : Users, clientId : Clients, expiresAt : Nat]

ASSUME UndefinedAssumption ==
  Undefined \notin Users \cup Clients \cup Conns \cup Session \cup Nat

VARIABLES
  now,          \* Date.now()
  sock,         \* sock[c]: the socket's readyState; "idle" before the upgrade
  session,      \* session[c]: the Session object its socket listeners hold
  timer,        \* timer[c]: when its expiryTimer is due, or Undefined
  sessions,     \* WsService.sessions: client id -> connection
  userClients,  \* WsService.userClients: user id -> set of client ids
  turn,         \* the connection whose handleConnection is still running
  destroyed,    \* onModuleDestroy has run
  told,         \* told[ph][c]: how often trackers were told of c, by phase
  reported      \* reported[u]: the userSessionCount of u's last fan-out

vars == <<now, sock, session, timer, sessions, userClients, turn, destroyed,
          told, reported>>

\* The value a Map lookup yields is a connection or undefined; an absent
\* userClients entry is the empty set, which the code never stores.
TypeOK ==
  /\ now \in Nat
  /\ sock \in [Conns -> {"idle", "open", "closing", "closed"}]
  /\ session \in [Conns -> Session \cup {Undefined}]
  /\ timer \in [Conns -> Nat \cup {Undefined}]
  /\ sessions \in [Clients -> Conns \cup {Undefined}]
  /\ userClients \in [Users -> SUBSET Clients]
  /\ turn \in Conns \cup {Undefined}
  /\ destroyed \in BOOLEAN
  /\ told \in [{"connect", "disconnect"} -> [Conns -> 0..1]]
  /\ reported \in [Users -> Nat]

Init ==
  /\ now = 0
  /\ sock = [c \in Conns |-> "idle"]
  /\ session = [c \in Conns |-> Undefined]
  /\ timer = [c \in Conns |-> Undefined]
  /\ sessions = [k \in Clients |-> Undefined]
  /\ userClients = [u \in Users |-> {}]
  /\ turn = Undefined
  /\ destroyed = FALSE
  /\ told = [ph \in {"connect", "disconnect"} |-> [c \in Conns |-> 0]]
  /\ reported = [u \in Users |-> 0]

-----------------------------------------------------------------------------
(* The gateway: identity from the upgrade request, checked against a token. *)

\* valid: the signature, algorithm, issuer, audience and claim types are good.
Token == [valid : BOOLEAN, sub : Users \cup {Undefined}, exp : 1..MaxExp]

\* extractGatewayIdentity: each query parameter is usable or undefined.
Request == [userId : Users \cup {Undefined}, clientId : Clients \cup {Undefined},
            token : Token \cup {Undefined}]

\* jsonwebtoken compares exp, in seconds, with the clock rounded down.
Verify(token) == token.valid /\ now \div MsPerSec < token.exp

ResolveGatewayIdentity(req) ==
  IF /\ req.token # Undefined
     /\ Verify(req.token)
     /\ req.token.sub # Undefined
     /\ req.userId # Undefined
     /\ req.clientId # Undefined
     /\ req.token.sub = req.userId
  THEN [userId |-> req.userId, clientId |-> req.clientId,
        expiresAt |-> req.token.exp * MsPerSec]
  ELSE Undefined

-----------------------------------------------------------------------------
(* The registry's helpers, each the part of an action its name stands for.  *)

\* Mutant of Live: release looks the client id up and forgets the identity.
LiveByClientId(c) ==
  session[c] # Undefined /\ sessions[session[c].clientId] # Undefined

\* The identity check of release: the entry of its client id is this session.
Live(c) == session[c] # Undefined /\ sessions[session[c].clientId] = c

Expired(c) == now >= session[c].expiresAt

MathMin(a, b) == IF a <= b THEN a ELSE b

TrackMembership(s) == [userClients EXCEPT ![s.userId] = @ \cup {s.clientId}]

UntrackMembership(s) == [userClients EXCEPT ![s.userId] = @ \ {s.clientId}]

CountUserSessions(index, u) == Cardinality(index[u])

\* Mutant of FanOut: the count is read before the index changes.
FanOutStaleCount(c, s, ph) ==
  /\ told' = [told EXCEPT ![ph][c] = @ + 1]
  /\ reported' = [reported EXCEPT ![s.userId] = CountUserSessions(userClients, s.userId)]

\* fanOut: the count is the size of the index after the step that calls it.
FanOut(c, s, ph) ==
  /\ told' = [told EXCEPT ![ph][c] = @ + 1]
  /\ reported' = [reported EXCEPT ![s.userId] = CountUserSessions(userClients', s.userId)]

\* Mutant of Release: untrackMembership is forgotten.
ReleaseKeepingIndex(c) ==
  LET s == session[c] IN
    /\ sessions' = [sessions EXCEPT ![s.clientId] = Undefined]
    /\ timer' = [timer EXCEPT ![c] = Undefined]
    /\ UNCHANGED userClients
    /\ FanOut(c, s, "disconnect")

\* Mutant of Release: clearExpiryTimer is forgotten.
ReleaseKeepingTimer(c) ==
  LET s == session[c] IN
    /\ sessions' = [sessions EXCEPT ![s.clientId] = Undefined]
    /\ userClients' = UntrackMembership(s)
    /\ UNCHANGED timer
    /\ FanOut(c, s, "disconnect")

\* release, once its identity check has passed; the session stays readable
\* by the socket's listeners.
Release(c) ==
  LET s == session[c] IN
    /\ sessions' = [sessions EXCEPT ![s.clientId] = Undefined]
    /\ userClients' = UntrackMembership(s)
    /\ timer' = [timer EXCEPT ![c] = Undefined]
    /\ FanOut(c, s, "disconnect")

NoRelease == UNCHANGED <<sessions, userClients, timer, told, reported>>

\* handleExpiry: release and, when it removed the session, terminate.  The
\* timer that led here, if one did, is spent either way.
HandleExpiry(c) ==
  IF Live(c)
  THEN Release(c) /\ sock' = [sock EXCEPT ![c] = "closing"]
  ELSE /\ timer' = [timer EXCEPT ![c] = Undefined]
       /\ UNCHANGED <<sock, sessions, userClients, told, reported>>

\* Mutant of ScheduleExpiry: a due timer is taken for an expired token.
ScheduleExpiryEarly(c) ==
  IF timer[c] # Undefined \/ Expired(c)
  THEN HandleExpiry(c)
  ELSE /\ timer' = [timer EXCEPT
              ![c] = now + MathMin(session[c].expiresAt - now, MAX_TIMER_DELAY)]
       /\ UNCHANGED <<sock, sessions, userClients, told, reported>>

\* scheduleExpiry: expire now, or arm a timer capped at the longest delay.
ScheduleExpiry(c) ==
  IF Expired(c)
  THEN HandleExpiry(c)
  ELSE /\ timer' = [timer EXCEPT
              ![c] = now + MathMin(session[c].expiresAt - now, MAX_TIMER_DELAY)]
       /\ UNCHANGED <<sock, sessions, userClients, told, reported>>

\* A callback starts only when no other JavaScript is on the stack.
Idle == turn = Undefined
-----------------------------------------------------------------------------
(* Actions.                                                                 *)

\* WsGateway.handleConnection closes a connection it cannot authorize.  Only
\* authorized identities reach WsService, whose own check for undefined ids
\* therefore closes nothing more.
Refuse(c, req) ==
  /\ Idle /\ sock[c] = "idle"
  /\ ResolveGatewayIdentity(req) = Undefined
  /\ sock' = [sock EXCEPT ![c] = "closing"]
  /\ UNCHANGED <<now, session, turn, destroyed>> /\ NoRelease

\* Mutant of Register: a new connection of a client id replaces the old one.
RegisterReplacing(c, req) ==
  LET s == ResolveGatewayIdentity(req) IN
    /\ Idle /\ sock[c] = "idle"
    /\ s # Undefined
    /\ sock' = [sock EXCEPT ![c] = "open"]
    /\ session' = [session EXCEPT ![c] = s]
    /\ sessions' = [sessions EXCEPT ![s.clientId] = c]
    /\ userClients' = TrackMembership(s)
    /\ FanOut(c, s, "connect")
    /\ turn' = c
    /\ UNCHANGED <<now, timer, destroyed>>

\* WsService.handleConnection closes a second connection of a client id.
RefuseDuplicate(c, req) ==
  LET s == ResolveGatewayIdentity(req) IN
    /\ Idle /\ sock[c] = "idle"
    /\ s # Undefined
    /\ sessions[s.clientId] # Undefined
    /\ sock' = [sock EXCEPT ![c] = "closing"]
    /\ UNCHANGED <<now, session, turn, destroyed>> /\ NoRelease

\* WsService.handleConnection up to its call of scheduleExpiry.
Register(c, req) ==
  LET s == ResolveGatewayIdentity(req) IN
    /\ Idle /\ sock[c] = "idle"
    /\ s # Undefined
    /\ sessions[s.clientId] = Undefined
    /\ sock' = [sock EXCEPT ![c] = "open"]
    /\ session' = [session EXCEPT ![c] = s]
    /\ sessions' = [sessions EXCEPT ![s.clientId] = c]
    /\ userClients' = TrackMembership(s)
    /\ FanOut(c, s, "connect")
    /\ turn' = c
    /\ UNCHANGED <<now, timer, destroyed>>

\* The last call of WsService.handleConnection.
FinishConnection(c) ==
  /\ turn = c
  /\ ScheduleExpiry(c)
  /\ turn' = Undefined
  /\ UNCHANGED <<now, session, destroyed>>

\* Mutant of ExpiryTimer: a timer that comes early is not armed again.
ExpiryTimerOnce(c) ==
  /\ Idle
  /\ timer[c] # Undefined
  /\ now >= timer[c]
  /\ IF Expired(c)
     THEN HandleExpiry(c)
     ELSE /\ timer' = [timer EXCEPT ![c] = Undefined]
          /\ UNCHANGED <<sock, sessions, userClients, told, reported>>
  /\ UNCHANGED <<now, session, turn, destroyed>>

\* handleExpiryTimer: the timer is due; re-arm it when the token still lives.
ExpiryTimer(c) ==
  /\ Idle
  /\ timer[c] # Undefined
  /\ now >= timer[c]
  /\ ScheduleExpiry(c)
  /\ UNCHANGED <<now, session, turn, destroyed>>

\* The peer closes, fails, or sends an oversize frame: readyState changes,
\* handleError only logs, and the close event follows later.
PeerClose(c) ==
  /\ Idle /\ sock[c] = "open"
  /\ sock' = [sock EXCEPT ![c] = "closing"]
  /\ UNCHANGED <<now, session, turn, destroyed>> /\ NoRelease

\* The socket's close event; a refused connection has no listener for it.
CloseEvent(c) ==
  /\ Idle /\ sock[c] = "closing"
  /\ sock' = [sock EXCEPT ![c] = "closed"]
  /\ IF Live(c) THEN Release(c) ELSE NoRelease
  /\ UNCHANGED <<now, session, turn, destroyed>>

OnModuleDestroy ==
  /\ Idle /\ ~destroyed
  /\ destroyed' = TRUE
  /\ timer' = [c \in Conns |-> IF Live(c) THEN Undefined ELSE timer[c]]
  /\ UNCHANGED <<now, sock, session, sessions, userClients, turn, told, reported>>

Tick ==
  /\ now < MaxNow
  /\ now' = now + 1
  /\ UNCHANGED <<sock, session, timer, sessions, userClients, turn, destroyed,
                 told, reported>>

Next ==
  \/ \E c \in Conns :
       \/ \E req \in Request :
            Refuse(c, req) \/ RefuseDuplicate(c, req) \/ Register(c, req)
       \/ FinishConnection(c)
       \/ ExpiryTimer(c)
       \/ PeerClose(c)
       \/ CloseEvent(c)
  \/ OnModuleDestroy
  \/ Tick

Spec == Init /\ [][Next]_vars

\* The event loop runs a due timer, the call on its stack and the close event
\* of a closing socket; the clock advances.  Peers owe nothing.
Fairness ==
  /\ WF_vars(Tick)
  /\ \A c \in Conns : /\ WF_vars(FinishConnection(c))
                      /\ WF_vars(ExpiryTimer(c))
                      /\ WF_vars(CloseEvent(c))

FairSpec == Spec /\ Fairness

-----------------------------------------------------------------------------
(* Properties.                                                              *)

\* The user index (trackMembership, untrackMembership) holds for each user
\* exactly the client ids the session map gives to that user, so a message to
\* a user reaches all of its sessions and no one else's.
IndexAgrees ==
  \A u \in Users :
    userClients[u] = {k \in Clients : /\ sessions[k] # Undefined
                                     /\ session[sessions[k]].userId = u}

\* Trackers hear of a session's connect once, and of its disconnect once and
\* only when release has removed it ("notifies trackers once"), however often
\* its close event, its timer and a successor of its client id interleave.
LedgerBalanced ==
  \A c \in Conns :
    /\ told.connect[c] = 1 <=> session[c] # Undefined
    /\ told.disconnect[c] = 1 <=> session[c] # Undefined /\ ~Live(c)

\* The count that trackers were last given for a user is its number of live
\* sessions: UserTopicService unsubscribes on a count of zero and on no other.
ReportedCurrent ==
  \A u \in Users :
    reported[u] = Cardinality({c \in Conns : Live(c) /\ session[c].userId = u})

\* Until shutdown a live session always has a timer that is due no later than
\* its token expires, however far off the expiry is; and no timer outlives
\* its session.
TimersArmed ==
  \A c \in Conns :
    /\ Live(c) /\ turn # c /\ ~destroyed =>
         timer[c] # Undefined /\ timer[c] <= session[c].expiresAt
    /\ ~Live(c) => timer[c] = Undefined

\* A session leaves the registry because its own socket is closing or its own
\* token has expired: neither the late close of a predecessor with the same
\* client id nor a timer that fires early at its longest delay removes it.
ReleasedForCause ==
  [][\A c \in Conns :
       Live(c) /\ ~Live(c)' => sock[c] = "closing" \/ Expired(c)]_vars

\* Before shutdown every session ends, even if its peer never closes: the
\* chain of re-armed timers reaches the expiry of the token.
SessionsEnd == \A c \in Conns : Live(c) ~> ~Live(c) \/ destroyed

\* The registry implements SessionLifecycle: one admission and one end per
\* session, one live session per client id, counts that move by one.
Phase(c) ==
  IF session[c] = Undefined
  THEN IF sock[c] = "idle" THEN "new" ELSE "refused"
  ELSE IF Live(c) THEN "live" ELSE "ended"

Owner(c) ==
  IF session[c] = Undefined THEN Undefined
  ELSE <<session[c].userId, session[c].clientId>>

Lifecycle == INSTANCE SessionLifecycle WITH
  phase <- [c \in Conns |-> Phase(c)],
  owner <- [c \in Conns |-> Owner(c)],
  announced <- reported

\* Every behaviour of the registry is one of SessionLifecycle.
ImplementsLifecycle == Lifecycle!Spec
=============================================================================
