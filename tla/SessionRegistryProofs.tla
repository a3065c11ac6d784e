----------------------- MODULE SessionRegistryProofs -----------------------
(***************************************************************************)
(* Proofs about SessionRegistry, for every set of users, clients and       *)
(* connections and every choice of the clock's constants.                  *)
(***************************************************************************)
EXTENDS SessionRegistry, FiniteSetTheorems, TLAPS

-----------------------------------------------------------------------------
(* The inductive invariant.                                                 *)

\* The session map files a session under its own client id.
MapFiled ==
  \A k \in Clients : sessions[k] # Undefined =>
    session[sessions[k]] # Undefined /\ session[sessions[k]].clientId = k

\* A connection with a session has had its upgrade.
Upgraded == \A c \in Conns : session[c] # Undefined => sock[c] # "idle"

\* The connection whose handler runs is live and has no timer yet.
TurnFresh == \A c \in Conns : turn = c => Live(c) /\ timer[c] = Undefined

\* The announced count of a user is the size of its entry in the index.
Counted == \A u \in Users : reported[u] = Cardinality(userClients[u])

IInv ==
  /\ TypeOK /\ MapFiled /\ Upgraded /\ TurnFresh
  /\ IndexAgrees /\ LedgerBalanced /\ TimersArmed /\ Counted

-----------------------------------------------------------------------------
(* The proofs.                                                              *)

\* An authorized identity is a session; the token check itself is not opened.
LEMMA ResolveType ==
  ASSUME NEW req \in Request, ResolveGatewayIdentity(req) # Undefined
  PROVE  ResolveGatewayIdentity(req) \in Session
<1>1. /\ req.userId \in Users /\ req.clientId \in Clients
      /\ req.token \in Token
      /\ ResolveGatewayIdentity(req) =
           [userId |-> req.userId, clientId |-> req.clientId,
            expiresAt |-> req.token.exp * MsPerSec]
  BY DEF Request, ResolveGatewayIdentity
<1>2. req.token.exp \in Nat
  BY <1>1, ConstantsAssumption DEF Token
<1>3. req.token.exp * MsPerSec \in Nat
  BY <1>2, ConstantsAssumption
<1> QED
  BY <1>1, <1>3 DEF Session

\* Sessions are records of their type, and never undefined.
LEMMA SessionFields ==
  ASSUME NEW s \in Session
  PROVE  /\ s # Undefined /\ s.userId \in Users /\ s.clientId \in Clients
         /\ s.expiresAt \in Nat
BY UndefinedAssumption DEF Session

\* Initially there are no sessions.
LEMMA InitIInv == Init => IInv
<1> SUFFICES ASSUME Init PROVE IInv
  OBVIOUS
<1>1. TypeOK
  <2>1. told \in [{"connect", "disconnect"} -> [Conns -> 0..1]]
    <3>1. [c \in Conns |-> 0] \in [Conns -> 0..1]
      OBVIOUS
    <3> QED
      BY <3>1 DEF Init
  <2> QED
    BY <2>1 DEF Init, TypeOK
<1>4. MapFiled /\ Upgraded /\ TurnFresh
  BY UndefinedAssumption DEF Init, MapFiled, Upgraded, TurnFresh
<1>2. IndexAgrees /\ LedgerBalanced /\ TimersArmed
  BY UndefinedAssumption DEF Init, IndexAgrees, LedgerBalanced, TimersArmed, Live
<1>3. Counted
  BY FS_EmptySet DEF Init, Counted
<1> QED
  BY <1>1, <1>2, <1>3, <1>4 DEF IInv

\* The registry's state when release removes a live session: it alone stops
\* being live, and every part of the invariant is kept.  The caller keeps or
\* closes the socket and ends its turn.
LEMMA ReleaseKeeps ==
  ASSUME IInv, NEW c \in Conns, Live(c), Release(c),
         UNCHANGED <<now, session, destroyed>>,
         sock' \in [Conns -> {"idle", "open", "closing", "closed"}],
         \A d \in Conns : sock'[d] = "idle" => sock[d] = "idle",
         turn \in {c, Undefined}, turn' = Undefined
  PROVE  IInv' /\ \A d \in Conns : Live(d)' <=> Live(d) /\ d # c
<1> DEFINE s == session[c]
<1> USE UndefinedAssumption
<1>1. s \in Session /\ s # Undefined /\ sessions[s.clientId] = c
  BY DEF IInv, TypeOK, Live
<1>2. s.userId \in Users /\ s.clientId \in Clients
  BY <1>1, SessionFields
<1>3. /\ sessions' = [sessions EXCEPT ![s.clientId] = Undefined]
      /\ userClients' = [userClients EXCEPT ![s.userId] = @ \ {s.clientId}]
      /\ timer' = [timer EXCEPT ![c] = Undefined]
      /\ told' = [told EXCEPT !["disconnect"][c] = @ + 1]
      /\ reported' = [reported EXCEPT ![s.userId] = Cardinality(userClients'[s.userId])]
  BY DEF Release, FanOut, UntrackMembership, CountUserSessions
<1>4. told.disconnect[c] = 0
  BY <1>1 DEF IInv, LedgerBalanced, TypeOK
<1>5. session' = session
  OBVIOUS
<1> HIDE DEF s
<1>6. \A d \in Conns : session[d] # Undefined => session[d].clientId \in Clients
  BY SessionFields DEF IInv, TypeOK
<1>7. \A d \in Conns : Live(d)' <=> Live(d) /\ d # c
  BY <1>1, <1>2, <1>3, <1>5, <1>6 DEF IInv, TypeOK, Live, s
<1>8. TypeOK'
  <2>1. userClients' \in [Users -> SUBSET Clients]
    BY <1>2, <1>3 DEF IInv, TypeOK
  <2>2. Cardinality(userClients'[s.userId]) \in Nat
    <3>1. userClients'[s.userId] \in SUBSET Clients
      BY <2>1, <1>2
    <3> QED
      BY <3>1, ConstantsAssumption, FS_Subset, FS_CardinalityType
  <2>3. reported' \in [Users -> Nat]
    BY <2>2, <1>2, <1>3 DEF IInv, TypeOK
  <2>4. told' \in [{"connect", "disconnect"} -> [Conns -> 0..1]]
    BY <1>3, <1>4 DEF IInv, TypeOK
  <2> QED
    BY <2>1, <2>3, <2>4, <1>2, <1>3 DEF IInv, TypeOK
<1>9. MapFiled' /\ Upgraded' /\ TurnFresh'
  BY <1>2, <1>3, <1>5 DEF IInv, TypeOK, MapFiled, Upgraded, TurnFresh
<1>10. IndexAgrees'
  BY <1>1, <1>2, <1>3, <1>5 DEF IInv, TypeOK, MapFiled, IndexAgrees, s
<1>11. LedgerBalanced'
  BY <1>1, <1>3, <1>4, <1>5, <1>7 DEF IInv, TypeOK, LedgerBalanced, s
<1>12. TimersArmed'
  BY <1>3, <1>5, <1>7 DEF IInv, TypeOK, TimersArmed, TurnFresh
<1>13. Counted'
  BY <1>2, <1>3 DEF IInv, TypeOK, Counted
<1> QED
  BY <1>7, <1>8, <1>9, <1>10, <1>11, <1>12, <1>13 DEF IInv

\* A step that neither registers nor releases keeps the registry's part of
\* the invariant.
LEMMA QuietStepKeeps ==
  ASSUME IInv, NoRelease, UNCHANGED <<session, turn, destroyed>>,
         now' \in Nat,
         sock' \in [Conns -> {"idle", "open", "closing", "closed"}],
         \A d \in Conns : sock'[d] = "idle" => sock[d] = "idle"
  PROVE  IInv' /\ \A d \in Conns : Live(d)' <=> Live(d)
BY DEF IInv, NoRelease, TypeOK, MapFiled, Upgraded, TurnFresh, IndexAgrees,
       LedgerBalanced, TimersArmed, Counted, Live

\* scheduleExpiry of a live session, called by its own handler or its timer:
\* it arms a timer that comes no later than the expiry, or releases.
LEMMA ScheduleKeeps ==
  ASSUME IInv, NEW c \in Conns, Live(c), ScheduleExpiry(c),
         UNCHANGED <<now, session, destroyed>>,
         turn' = Undefined,
         turn \in {c, Undefined}
  PROVE  /\ IInv'
         /\ \A d \in Conns : Live(d)' <=> Live(d) /\ ~(d = c /\ Expired(c))
         /\ Expired(c) => Release(c)
         /\ ~Expired(c) => UNCHANGED <<sock, sessions, userClients, told, reported>>
<1> USE UndefinedAssumption
<1>1. CASE Expired(c)
  <2>1. Release(c) /\ sock' = [sock EXCEPT ![c] = "closing"]
    BY <1>1 DEF ScheduleExpiry, HandleExpiry
  <2>2. /\ sock' \in [Conns -> {"idle", "open", "closing", "closed"}]
        /\ \A d \in Conns : sock'[d] = "idle" => sock[d] = "idle"
    BY <2>1 DEF IInv, TypeOK
  <2> QED
    BY <1>1, <2>1, <2>2, ReleaseKeeps
<1>2. CASE ~Expired(c)
  <2> DEFINE due == now + MathMin(session[c].expiresAt - now, MAX_TIMER_DELAY)
  <2>1. /\ timer' = [timer EXCEPT ![c] = due]
        /\ UNCHANGED <<sock, sessions, userClients, told, reported>>
    BY <1>2 DEF ScheduleExpiry
  <2>2. session[c] \in Session /\ session[c].expiresAt \in Nat
    BY SessionFields DEF IInv, TypeOK, Live
  <2>3. due \in Nat /\ due <= session[c].expiresAt
    BY <1>2, <2>2, ConstantsAssumption DEF IInv, TypeOK, Expired, MathMin
  <2>4. due # Undefined
    BY <2>3
  <2> HIDE DEF due
  <2>5. \A d \in Conns : Live(d)' <=> Live(d)
    BY <2>1 DEF Live
  <2>6. TypeOK' /\ MapFiled' /\ Upgraded' /\ TurnFresh'
    BY <2>1, <2>3 DEF IInv, TypeOK, MapFiled, Upgraded, TurnFresh
  <2>7. IndexAgrees' /\ Counted'
    BY <2>1 DEF IInv, IndexAgrees, Counted
  <2>8. LedgerBalanced'
    BY <2>1, <2>5 DEF IInv, LedgerBalanced
  <2>9. TimersArmed'
    BY <2>1, <2>3, <2>4, <2>5 DEF IInv, TypeOK, TimersArmed
  <2> QED
    BY <1>2, <2>1, <2>5, <2>6, <2>7, <2>8, <2>9 DEF IInv
<1> QED
  BY <1>1, <1>2

\* A connection is registered: it alone becomes live.
LEMMA RegisterKeeps ==
  ASSUME IInv, NEW c \in Conns, NEW req \in Request, Register(c, req)
  PROVE  /\ IInv'
         /\ ~Live(c)
         /\ \A d \in Conns : Live(d)' <=> Live(d) \/ d = c
<1> DEFINE s == ResolveGatewayIdentity(req)
<1> USE UndefinedAssumption
<1>1. s \in Session /\ s # Undefined
  BY ResolveType, SessionFields DEF Register
<1>2. s.userId \in Users /\ s.clientId \in Clients
  BY <1>1, SessionFields
<1>3. /\ turn = Undefined /\ sock[c] = "idle" /\ sessions[s.clientId] = Undefined
      /\ sock' = [sock EXCEPT ![c] = "open"]
      /\ session' = [session EXCEPT ![c] = s]
      /\ sessions' = [sessions EXCEPT ![s.clientId] = c]
      /\ userClients' = [userClients EXCEPT ![s.userId] = @ \cup {s.clientId}]
      /\ told' = [told EXCEPT !["connect"][c] = @ + 1]
      /\ reported' = [reported EXCEPT ![s.userId] = Cardinality(userClients'[s.userId])]
      /\ turn' = c
      /\ UNCHANGED <<now, timer, destroyed>>
  BY DEF Register, FanOut, Idle, TrackMembership, CountUserSessions
<1> HIDE DEF s
<1>4. session[c] = Undefined
  BY <1>3 DEF IInv, Upgraded
<1>5. ~Live(c) /\ told.connect[c] = 0 /\ told.disconnect[c] = 0 /\ timer[c] = Undefined
  BY <1>4 DEF IInv, TypeOK, LedgerBalanced, TimersArmed, Live
<1>6. \A d \in Conns : session[d] # Undefined => session[d].clientId \in Clients
  BY SessionFields DEF IInv, TypeOK
<1>7. \A d \in Conns : Live(d)' <=> Live(d) \/ d = c
  BY <1>1, <1>2, <1>3, <1>4, <1>6 DEF IInv, TypeOK, Live
<1>8. TypeOK'
  <2>1. userClients' \in [Users -> SUBSET Clients]
    BY <1>2, <1>3 DEF IInv, TypeOK
  <2>2. Cardinality(userClients'[s.userId]) \in Nat
    <3>1. userClients'[s.userId] \in SUBSET Clients
      BY <2>1, <1>2
    <3> QED
      BY <3>1, ConstantsAssumption, FS_Subset, FS_CardinalityType
  <2>3. reported' \in [Users -> Nat]
    BY <2>2, <1>2, <1>3 DEF IInv, TypeOK
  <2>4. told' \in [{"connect", "disconnect"} -> [Conns -> 0..1]]
    BY <1>3, <1>5 DEF IInv, TypeOK
  <2> QED
    BY <2>1, <2>3, <2>4, <1>1, <1>2, <1>3 DEF IInv, TypeOK
<1>9. MapFiled'
  BY <1>1, <1>2, <1>3, <1>4 DEF IInv, TypeOK, MapFiled
<1>10. Upgraded' /\ TurnFresh'
  BY <1>1, <1>3, <1>5, <1>7 DEF IInv, TypeOK, Upgraded, TurnFresh
<1>11. IndexAgrees'
  BY <1>1, <1>2, <1>3, <1>4 DEF IInv, TypeOK, MapFiled, IndexAgrees
<1>12. LedgerBalanced'
  BY <1>1, <1>3, <1>4, <1>5, <1>7 DEF IInv, TypeOK, LedgerBalanced
<1>13. TimersArmed'
  BY <1>1, <1>3, <1>4, <1>5, <1>7 DEF IInv, TypeOK, TimersArmed
<1>14. Counted'
  BY <1>2, <1>3 DEF IInv, TypeOK, Counted
<1> QED
  BY <1>5, <1>7, <1>8, <1>9, <1>10, <1>11, <1>12, <1>13, <1>14 DEF IInv

\* Only a session's own timer is armed, and only the running handler's
\* connection has none: whoever calls scheduleExpiry calls it of a live session.
LEMMA SchedulerLive ==
  ASSUME IInv, NEW c \in Conns, FinishConnection(c) \/ ExpiryTimer(c)
  PROVE  /\ Live(c) /\ ScheduleExpiry(c)
         /\ UNCHANGED <<now, session, destroyed>>
         /\ turn \in {c, Undefined} /\ turn' = Undefined
BY UndefinedAssumption
DEF IInv, TurnFresh, TimersArmed, FinishConnection, ExpiryTimer, Idle

\* The steps that neither register nor release a session.
LEMMA QuietActions ==
  ASSUME IInv,
         \/ \E c \in Conns, req \in Request : Refuse(c, req) \/ RefuseDuplicate(c, req)
         \/ \E c \in Conns : PeerClose(c)
         \/ OnModuleDestroy
         \/ Tick
  PROVE  /\ IInv'
         /\ session' = session /\ reported' = reported
         /\ \A d \in Conns : Live(d)' <=> Live(d)
<1> USE UndefinedAssumption
<1>1. CASE \/ \E c \in Conns, req \in Request : Refuse(c, req) \/ RefuseDuplicate(c, req)
           \/ \E c \in Conns : PeerClose(c)
  <2>1. PICK c \in Conns : /\ sock' = [sock EXCEPT ![c] = "closing"]
                           /\ UNCHANGED <<now, session, turn, destroyed>>
                           /\ NoRelease
    BY <1>1 DEF Refuse, RefuseDuplicate, PeerClose
  <2>2. /\ sock' \in [Conns -> {"idle", "open", "closing", "closed"}]
        /\ \A d \in Conns : sock'[d] = "idle" => sock[d] = "idle"
        /\ now' \in Nat
    BY <2>1 DEF IInv, TypeOK
  <2>3. IInv' /\ \A d \in Conns : Live(d)' <=> Live(d)
    BY <2>1, <2>2, QuietStepKeeps
  <2> QED
    BY <2>1, <2>3 DEF NoRelease
<1>2. CASE OnModuleDestroy
  BY <1>2 DEF OnModuleDestroy, Idle, IInv, TypeOK, MapFiled, Upgraded, TurnFresh,
              IndexAgrees, LedgerBalanced, TimersArmed, Counted, Live
<1>3. CASE Tick
  <2>1. now' \in Nat /\ NoRelease /\ UNCHANGED <<sock, session, turn, destroyed>>
    BY <1>3 DEF Tick, NoRelease, IInv, TypeOK
  <2>2. IInv' /\ \A d \in Conns : Live(d)' <=> Live(d)
    BY <2>1, QuietStepKeeps DEF IInv, TypeOK
  <2> QED
    BY <2>1, <2>2 DEF NoRelease
<1> QED
  BY <1>1, <1>2, <1>3

\* The close event releases its session if the session is still the one filed
\* under its client id, and does nothing otherwise.
LEMMA CloseKeeps ==
  ASSUME IInv, NEW c \in Conns, CloseEvent(c)
  PROVE  /\ IInv'
         /\ session' = session
         /\ sock[c] = "closing"
         /\ \A d \in Conns : sock'[d] = "idle" <=> sock[d] = "idle"
         /\ \A d \in Conns : Live(d)' <=> Live(d) /\ d # c
         /\ Live(c) => Release(c)
         /\ ~Live(c) => reported' = reported
<1>1. /\ sock[c] = "closing"
      /\ sock' = [sock EXCEPT ![c] = "closed"]
      /\ UNCHANGED <<now, session, turn, destroyed>>
      /\ turn = Undefined
  BY DEF CloseEvent, Idle
<1>2. /\ sock' \in [Conns -> {"idle", "open", "closing", "closed"}]
      /\ \A d \in Conns : sock'[d] = "idle" <=> sock[d] = "idle"
      /\ now' \in Nat
  BY <1>1 DEF IInv, TypeOK
<1>3. CASE Live(c)
  BY <1>1, <1>2, <1>3, ReleaseKeeps DEF CloseEvent
<1>4. CASE ~Live(c)
  <2>1. NoRelease
    BY <1>4 DEF CloseEvent
  <2>2. IInv' /\ \A d \in Conns : Live(d)' <=> Live(d)
    BY <1>1, <1>2, <2>1, QuietStepKeeps
  <2> QED
    BY <1>1, <1>2, <1>4, <2>1, <2>2 DEF NoRelease
<1> QED
  BY <1>3, <1>4

\* Every step preserves the inductive invariant.
LEMMA NextIInv == IInv /\ [Next]_vars => IInv'
<1> SUFFICES ASSUME IInv, [Next]_vars PROVE IInv'
  OBVIOUS
<1>1. CASE UNCHANGED vars
  BY <1>1 DEF vars, IInv, TypeOK, MapFiled, Upgraded, TurnFresh, IndexAgrees,
              LedgerBalanced, TimersArmed, Counted, Live
<1>2. ASSUME NEW c \in Conns, NEW req \in Request, Register(c, req) PROVE IInv'
  BY <1>2, RegisterKeeps
<1>3. ASSUME NEW c \in Conns, FinishConnection(c) \/ ExpiryTimer(c) PROVE IInv'
  BY <1>3, SchedulerLive, ScheduleKeeps
<1>4. ASSUME NEW c \in Conns, CloseEvent(c) PROVE IInv'
  BY <1>4, CloseKeeps
<1> QED
  BY <1>1, <1>2, <1>3, <1>4, QuietActions DEF Next

\* The inductive invariant holds in every reachable state.
THEOREM InvariantHolds == Spec => []IInv
BY InitIInv, NextIInv, PTL DEF Spec

\* No step of the registry leaves the types, whatever the instance's size.
THEOREM TypeTheorem == Spec => []TypeOK
<1>1. IInv => TypeOK
  BY DEF IInv
<1> QED
  BY <1>1, InvariantHolds, PTL

\* WsService's two maps agree in every reachable state.
THEOREM IndexTheorem == Spec => []IndexAgrees
<1>1. IInv => IndexAgrees
  BY DEF IInv
<1> QED
  BY <1>1, InvariantHolds, PTL

\* Trackers hear once of every connect and once of every disconnect.
THEOREM LedgerTheorem == Spec => []LedgerBalanced
<1>1. IInv => LedgerBalanced
  BY DEF IInv
<1> QED
  BY <1>1, InvariantHolds, PTL

\* Until shutdown every live session has a timer due by its expiry, and no
\* timer outlives its session.
THEOREM TimersTheorem == Spec => []TimersArmed
<1>1. IInv => TimersArmed
  BY DEF IInv
<1> QED
  BY <1>1, InvariantHolds, PTL

\* The client ids the index gives a user and the user's live connections are
\* equally many: the session map is a bijection between them.
LEMMA CountedLive == IInv => ReportedCurrent
<1> SUFFICES ASSUME IInv, NEW u \in Users
             PROVE  reported[u] =
                      Cardinality({c \in Conns : Live(c) /\ session[c].userId = u})
  BY DEF ReportedCurrent
<1> DEFINE K == userClients[u]
           L == {c \in Conns : Live(c) /\ session[c].userId = u}
           f == [k \in K |-> sessions[k]]
<1> USE UndefinedAssumption
<1>1. K \subseteq Clients /\ IsFiniteSet(K)
  <2>1. K \in SUBSET Clients
    BY DEF IInv, TypeOK
  <2> QED
    BY <2>1, ConstantsAssumption, FS_Subset
<1>2. \A k \in K : /\ sessions[k] \in Conns /\ session[sessions[k]] # Undefined
                   /\ session[sessions[k]].clientId = k
                   /\ session[sessions[k]].userId = u
  BY <1>1 DEF IInv, TypeOK, MapFiled, IndexAgrees
<1>3. f \in [K -> L]
  BY <1>2 DEF Live
<1>4. \A j, k \in K : f[j] = f[k] => j = k
  BY <1>2
<1>5. \A c \in L : \E k \in K : f[k] = c
  <2> SUFFICES ASSUME NEW c \in L PROVE \E k \in K : f[k] = c
    OBVIOUS
  <2>1. /\ session[c].clientId \in Clients
        /\ sessions[session[c].clientId] = c /\ session[c].userId = u
    BY SessionFields DEF Live, IInv, TypeOK
  <2>2. session[c].clientId \in K
    BY <2>1 DEF IInv, IndexAgrees
  <2> QED
    BY <2>1, <2>2
<1>6. f \in Bijection(K, L)
  BY <1>3, <1>4, <1>5 DEF Bijection, Injection, Surjection, IsInjective
<1>7. ExistsBijection(K, L)
  BY <1>6 DEF ExistsBijection
<1>8. Cardinality(L) = Cardinality(K)
  BY <1>1, <1>7, FS_Bijection
<1> QED
  BY <1>8 DEF IInv, Counted

\* The count fanOut last gave trackers for a user is its number of live
\* sessions.
THEOREM ReportedTheorem == Spec => []ReportedCurrent
BY CountedLive, InvariantHolds, PTL

\* A session is released because its own socket is closing or its own token
\* has expired, never by a predecessor's close event or an early timer.
THEOREM ReleasedTheorem == Spec => ReleasedForCause
<1>1. IInv /\ [Next]_vars =>
        [\A c \in Conns : Live(c) /\ ~Live(c)' => sock[c] = "closing" \/ Expired(c)]_vars
  <2> SUFFICES ASSUME IInv, Next, NEW c \in Conns, Live(c), ~Live(c)'
               PROVE  sock[c] = "closing" \/ Expired(c)
    OBVIOUS
  <2>1. ASSUME NEW d \in Conns, NEW req \in Request, Register(d, req)
        PROVE  FALSE
    BY <2>1, RegisterKeeps
  <2>2. ASSUME NEW d \in Conns, FinishConnection(d) \/ ExpiryTimer(d)
        PROVE  Expired(c)
    BY <2>2, SchedulerLive, ScheduleKeeps
  <2>3. ASSUME NEW d \in Conns, CloseEvent(d)
        PROVE  sock[c] = "closing"
    BY <2>3, CloseKeeps
  <2> QED
    BY <2>1, <2>2, <2>3, QuietActions DEF Next
<1> QED
  BY <1>1, InvariantHolds, PTL DEF Spec, ReleasedForCause

-----------------------------------------------------------------------------
(* The registry implements SessionLifecycle.                                *)

\* A step that ends no session, admits none and refuses none stutters.
LEMMA Stutter ==
  ASSUME session' = session, reported' = reported,
         \A d \in Conns : Live(d)' <=> Live(d),
         \A d \in Conns : sock'[d] = "idle" <=> sock[d] = "idle"
  PROVE  UNCHANGED Lifecycle!lifecycleVars
<1>1. \A d \in Conns : Phase(d)' = Phase(d) /\ Owner(d)' = Owner(d)
  BY DEF Phase, Owner
<1> QED
  BY <1>1 DEF Lifecycle!lifecycleVars

\* release is the End of its session.
LEMMA ReleaseEnds ==
  ASSUME IInv, NEW c \in Conns, Live(c), Release(c), session' = session,
         \A d \in Conns : Live(d)' <=> Live(d) /\ d # c,
         \A d \in Conns : sock'[d] = "idle" <=> sock[d] = "idle"
  PROVE  Lifecycle!End(c)
<1> DEFINE s == session[c]
<1> USE UndefinedAssumption
<1>1. s \in Session /\ s # Undefined /\ sessions[s.clientId] = c
  BY DEF IInv, TypeOK, Live
<1>2. s.userId \in Users /\ s.clientId \in Clients
  BY <1>1, SessionFields
<1>3. /\ userClients' = [userClients EXCEPT ![s.userId] = @ \ {s.clientId}]
      /\ reported' = [reported EXCEPT ![s.userId] = Cardinality(userClients'[s.userId])]
  BY DEF Release, FanOut, UntrackMembership, CountUserSessions
<1> HIDE DEF s
<1>4. s.clientId \in userClients[s.userId]
  BY <1>1, <1>2 DEF IInv, IndexAgrees, s
<1>5. Cardinality(userClients'[s.userId]) = reported[s.userId] - 1
  <2>1. userClients[s.userId] \in SUBSET Clients
    BY <1>2 DEF IInv, TypeOK
  <2>2. IsFiniteSet(userClients[s.userId])
    BY <2>1, ConstantsAssumption, FS_Subset
  <2>3. userClients'[s.userId] = userClients[s.userId] \ {s.clientId}
    BY <1>2, <1>3 DEF IInv, TypeOK
  <2>4. reported[s.userId] = Cardinality(userClients[s.userId])
    BY <1>2 DEF IInv, Counted
  <2>5. Cardinality(userClients[s.userId] \ {s.clientId}) =
          Cardinality(userClients[s.userId]) - 1
    BY <1>4, <2>2, FS_RemoveElement
  <2> QED
    BY <2>3, <2>4, <2>5
<1>6. reported' = [reported EXCEPT ![s.userId] = @ - 1]
  BY <1>2, <1>3, <1>5
<1>7. /\ Phase(c) = "live" /\ Phase(c)' = "ended"
      /\ Owner(c)[1] = s.userId
  BY <1>1 DEF Phase, Owner, s
<1>8. \A d \in Conns : /\ d # c => Phase(d)' = Phase(d)
                       /\ Owner(d)' = Owner(d)
  BY DEF Phase, Owner
<1> QED
  BY <1>6, <1>7, <1>8 DEF Lifecycle!End

\* A registration is an Admit of its user and client id.
LEMMA RegisterAdmits ==
  ASSUME IInv, NEW c \in Conns, NEW req \in Request, Register(c, req)
  PROVE  \E u \in Users, k \in Clients : Lifecycle!Admit(c, u, k)
<1> DEFINE s == ResolveGatewayIdentity(req)
<1> USE UndefinedAssumption
<1>1. s \in Session /\ s # Undefined
  BY ResolveType, SessionFields DEF Register
<1>2. s.userId \in Users /\ s.clientId \in Clients
  BY <1>1, SessionFields
<1>3. /\ sock[c] = "idle" /\ sessions[s.clientId] = Undefined
      /\ sock' = [sock EXCEPT ![c] = "open"]
      /\ session' = [session EXCEPT ![c] = s]
      /\ userClients' = [userClients EXCEPT ![s.userId] = @ \cup {s.clientId}]
      /\ reported' = [reported EXCEPT ![s.userId] = Cardinality(userClients'[s.userId])]
  BY DEF Register, FanOut, TrackMembership, CountUserSessions
<1>4. \A d \in Conns : Live(d)' <=> Live(d) \/ d = c
  BY RegisterKeeps
<1> HIDE DEF s
<1>5. session[c] = Undefined
  BY <1>3 DEF IInv, Upgraded
<1>6. Cardinality(userClients'[s.userId]) = reported[s.userId] + 1
  <2>1. userClients[s.userId] \in SUBSET Clients
    BY <1>2 DEF IInv, TypeOK
  <2>2. IsFiniteSet(userClients[s.userId])
    BY <2>1, ConstantsAssumption, FS_Subset
  <2>3. userClients'[s.userId] = userClients[s.userId] \cup {s.clientId}
    BY <1>2, <1>3 DEF IInv, TypeOK
  <2>4. reported[s.userId] = Cardinality(userClients[s.userId])
    BY <1>2 DEF IInv, Counted
  <2>5. s.clientId \notin userClients[s.userId]
    BY <1>2, <1>3 DEF IInv, IndexAgrees
  <2> QED
    BY <2>2, <2>3, <2>4, <2>5, FS_AddElement
<1>7. reported' = [reported EXCEPT ![s.userId] = @ + 1]
  BY <1>2, <1>3, <1>6
<1>8. /\ Phase(c) = "new" /\ Phase(c)' = "live"
      /\ Owner(c)' = <<s.userId, s.clientId>>
  BY <1>1, <1>3, <1>4, <1>5 DEF Phase, Owner, IInv, TypeOK
<1>9. \A d \in Conns : d # c => Phase(d)' = Phase(d) /\ Owner(d)' = Owner(d)
  BY <1>3, <1>4 DEF Phase, Owner, IInv, TypeOK
<1>10. \A d \in Conns : Phase(d) = "live" => Owner(d)[2] # s.clientId
  <2> SUFFICES ASSUME NEW d \in Conns, Phase(d) = "live"
               PROVE  Owner(d)[2] # s.clientId
    OBVIOUS
  <2>1. session[d] # Undefined /\ sessions[session[d].clientId] = d
    BY DEF Phase, Live
  <2>2. Owner(d)[2] = session[d].clientId
    BY <2>1 DEF Owner
  <2> QED
    BY <2>1, <2>2, <1>3
<1>11. Lifecycle!Admit(c, s.userId, s.clientId)
  BY <1>7, <1>8, <1>9, <1>10 DEF Lifecycle!Admit
<1> QED
  BY <1>2, <1>11

\* A connection the gateway or the registry closes at once is a Refuse.
LEMMA RefusalRefuses ==
  ASSUME IInv, NEW c \in Conns, NEW req \in Request,
         Refuse(c, req) \/ RefuseDuplicate(c, req)
  PROVE  Lifecycle!Refuse(c)
<1>1. /\ sock[c] = "idle" /\ sock' = [sock EXCEPT ![c] = "closing"]
      /\ session' = session /\ reported' = reported /\ sessions' = sessions
  BY DEF Refuse, RefuseDuplicate, NoRelease
<1>2. session[c] = Undefined
  BY <1>1 DEF IInv, Upgraded
<1>3. Phase(c) = "new" /\ Phase(c)' = "refused"
  BY <1>1, <1>2 DEF Phase, IInv, TypeOK
<1>4. \A d \in Conns : /\ d # c => Phase(d)' = Phase(d)
                       /\ Owner(d)' = Owner(d)
  BY <1>1 DEF Phase, Owner, Live, IInv, TypeOK
<1> QED
  BY <1>1, <1>3, <1>4 DEF Lifecycle!Refuse

\* Every behaviour of the registry is one of SessionLifecycle: a connection is
\* refused or admitted once, a session ends once, no two live sessions share a
\* client id, and the announced count moves by one.
THEOREM LifecycleTheorem == Spec => ImplementsLifecycle
<1> USE UndefinedAssumption
<1>1. Init => Lifecycle!Init
  BY DEF Init, Lifecycle!Init, Phase, Owner
<1>2. IInv /\ [Next]_vars => [Lifecycle!Next]_(Lifecycle!lifecycleVars)
  <2> SUFFICES ASSUME IInv, [Next]_vars
               PROVE  Lifecycle!Next \/ UNCHANGED Lifecycle!lifecycleVars
    OBVIOUS
  <2>1. CASE UNCHANGED vars
    BY <2>1, Stutter DEF vars, Live
  <2>2. ASSUME NEW c \in Conns, NEW req \in Request,
               Refuse(c, req) \/ RefuseDuplicate(c, req)
        PROVE  Lifecycle!Next
    BY <2>2, RefusalRefuses DEF Lifecycle!Next
  <2>3. ASSUME NEW c \in Conns, NEW req \in Request, Register(c, req)
        PROVE  Lifecycle!Next
    BY <2>3, RegisterAdmits DEF Lifecycle!Next
  <2>4. ASSUME NEW c \in Conns, FinishConnection(c) \/ ExpiryTimer(c)
        PROVE  Lifecycle!Next \/ UNCHANGED Lifecycle!lifecycleVars
    <3>1. /\ Live(c) /\ session' = session
          /\ \A d \in Conns : Live(d)' <=> Live(d) /\ ~(d = c /\ Expired(c))
          /\ Expired(c) => Release(c)
          /\ ~Expired(c) => UNCHANGED <<sock, reported>>
          /\ ScheduleExpiry(c)
      BY <2>4, SchedulerLive, ScheduleKeeps
    <3>2. CASE Expired(c)
      <4>1. sock' = [sock EXCEPT ![c] = "closing"] /\ sock[c] # "idle"
        BY <3>1, <3>2 DEF ScheduleExpiry, HandleExpiry, IInv, Upgraded, Live
      <4>2. \A d \in Conns : sock'[d] = "idle" <=> sock[d] = "idle"
        BY <4>1 DEF IInv, TypeOK
      <4> QED
        BY <3>1, <3>2, <4>2, ReleaseEnds DEF Lifecycle!Next
    <3>3. CASE ~Expired(c)
      BY <3>1, <3>3, Stutter
    <3> QED
      BY <3>2, <3>3
  <2>5. ASSUME NEW c \in Conns, CloseEvent(c)
        PROVE  Lifecycle!Next \/ UNCHANGED Lifecycle!lifecycleVars
    <3>1. CASE Live(c)
      BY <2>5, <3>1, CloseKeeps, ReleaseEnds DEF Lifecycle!Next
    <3>2. CASE ~Live(c)
      BY <2>5, <3>2, CloseKeeps, Stutter
    <3> QED
      BY <3>1, <3>2
  <2>6. ASSUME NEW c \in Conns, PeerClose(c)
        PROVE  UNCHANGED Lifecycle!lifecycleVars
    <3>1. \A d \in Conns : sock'[d] = "idle" <=> sock[d] = "idle"
      BY <2>6 DEF PeerClose, IInv, TypeOK
    <3> QED
      BY <2>6, <3>1, QuietActions, Stutter
  <2>7. CASE OnModuleDestroy \/ Tick
    <3>1. sock' = sock
      BY <2>7 DEF OnModuleDestroy, Tick
    <3> QED
      BY <2>7, <3>1, QuietActions, Stutter
  <2> QED
    BY <2>1, <2>2, <2>3, <2>4, <2>5, <2>6, <2>7 DEF Next
<1> QED
  BY <1>1, <1>2, InvariantHolds, PTL DEF Spec, ImplementsLifecycle, Lifecycle!Spec
=============================================================================
