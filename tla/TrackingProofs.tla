--------------------------- MODULE TrackingProofs ---------------------------
(***************************************************************************)
(* Registry and topics together keep what each of them promises alone, and *)
(* the live sessions and the listeners of a channel agree, for every set   *)
(* of users, client ids and connections and every number of loops and      *)
(* attempts.                                                               *)
(***************************************************************************)
EXTENDS Tracking, UserTopicsProofs, FiniteSetTheorems

\* The announced count of a user is the number of its live sessions: a
\* disconnect finds the count positive, and a count of zero means that no
\* session is left.
CountsLive ==
  /\ phase \in [Conns -> {"new", "refused", "live", "ended"}]
  /\ owner \in [Conns -> (Users \X Clients) \cup {Undefined}]
  /\ \A c \in Conns : phase[c] = "live" => owner[c] \in Users \X Clients
  /\ sessions \in [Users -> Nat]
  /\ \A u \in Users : IsFiniteSet(LiveOf(u)) /\ sessions[u] = Cardinality(LiveOf(u))

\* Initially no connection is live.
LEMMA InitCounts == TrackingInit => CountsLive
<1> SUFFICES ASSUME TrackingInit PROVE CountsLive
  OBVIOUS
<1>1. \A u \in Users : LiveOf(u) = {} /\ sessions[u] = 0
  BY DEF TrackingInit, Init, Registry!Init, LiveOf
<1>2. \A u \in Users : IsFiniteSet(LiveOf(u)) /\ sessions[u] = Cardinality(LiveOf(u))
  BY <1>1, FS_EmptySet
<1>3. /\ phase = [c \in Conns |-> "new"]
      /\ owner = [c \in Conns |-> Undefined]
      /\ sessions = [u \in Users |-> 0]
  BY DEF TrackingInit, Init, Registry!Init
<1> QED
  BY <1>2, <1>3 DEF CountsLive

\* An admission adds its connection to the live ones of its user.
LEMMA AdmissionCounts ==
  ASSUME CountsLive, NEW c \in Conns, NEW u \in Users, NEW k \in Clients, Registry!Admit(c, u, k)
  PROVE  CountsLive'
<1>1. /\ phase[c] = "new"
      /\ phase' = [phase EXCEPT ![c] = "live"]
      /\ owner' = [owner EXCEPT ![c] = <<u, k>>]
      /\ sessions' = [sessions EXCEPT ![u] = sessions[u] + 1]
  BY DEF Registry!Admit
<1>2. LiveOf(u)' = LiveOf(u) \cup {c} /\ c \notin LiveOf(u)
  BY <1>1 DEF CountsLive, LiveOf
<1>3. \A v \in Users \ {u} : LiveOf(v)' = LiveOf(v)
  BY <1>1 DEF CountsLive, LiveOf
<1>4. IsFiniteSet(LiveOf(u)') /\ Cardinality(LiveOf(u)') = sessions[u] + 1
  BY <1>2, FS_AddElement DEF CountsLive
<1>5. sessions'[u] = sessions[u] + 1 /\ \A v \in Users \ {u} : sessions'[v] = sessions[v]
  BY <1>1 DEF CountsLive
<1>6. \A v \in Users : IsFiniteSet(LiveOf(v)') /\ sessions'[v] = Cardinality(LiveOf(v)')
  BY <1>3, <1>4, <1>5 DEF CountsLive
<1>7. /\ phase' \in [Conns -> {"new", "refused", "live", "ended"}]
      /\ owner' \in [Conns -> (Users \X Clients) \cup {Undefined}]
      /\ \A d \in Conns : phase'[d] = "live" => owner'[d] \in Users \X Clients
      /\ sessions' \in [Users -> Nat]
  BY <1>1 DEF CountsLive
<1> QED
  BY <1>6, <1>7 DEF CountsLive

\* An end takes its connection from the live ones of its owner, which the count
\* announced for that user includes.
LEMMA EndingCounts ==
  ASSUME CountsLive, NEW c \in Conns, Registry!End(c)
  PROVE  CountsLive' /\ owner[c][1] \in Users /\ sessions[owner[c][1]] > 0
<1>1. /\ phase[c] = "live"
      /\ phase' = [phase EXCEPT ![c] = "ended"]
      /\ owner' = owner
      /\ sessions' = [sessions EXCEPT ![owner[c][1]] = sessions[owner[c][1]] - 1]
  BY DEF Registry!End
<1>2. PICK u : u = owner[c][1]
  OBVIOUS
<1>3. u \in Users
  BY <1>1, <1>2 DEF CountsLive
<1>4. c \in LiveOf(u) /\ LiveOf(u)' = LiveOf(u) \ {c}
  BY <1>1, <1>2 DEF CountsLive, LiveOf
<1>5. \A v \in Users \ {u} : LiveOf(v)' = LiveOf(v)
  BY <1>1, <1>2 DEF CountsLive, LiveOf
<1>6. IsFiniteSet(LiveOf(u)') /\ Cardinality(LiveOf(u)') = sessions[u] - 1
  BY <1>3, <1>4, FS_RemoveElement DEF CountsLive
<1>7. Cardinality(LiveOf(u)') \in Nat /\ sessions[u] \in Nat
  BY <1>3, <1>6, FS_CardinalityType DEF CountsLive
<1>8. sessions[u] > 0
  BY <1>6, <1>7
<1>9. sessions'[u] = sessions[u] - 1 /\ \A v \in Users \ {u} : sessions'[v] = sessions[v]
  BY <1>1, <1>2, <1>3 DEF CountsLive
<1>10. \A v \in Users : IsFiniteSet(LiveOf(v)') /\ sessions'[v] = Cardinality(LiveOf(v)')
  BY <1>5, <1>6, <1>9 DEF CountsLive
<1>11. sessions' \in [Users -> Nat]
  <2>1. sessions[u] - 1 \in Nat
    BY <1>7, <1>8
  <2> QED
    BY <1>1, <1>2, <2>1 DEF CountsLive
<1>12. /\ phase' \in [Conns -> {"new", "refused", "live", "ended"}]
       /\ owner' \in [Conns -> (Users \X Clients) \cup {Undefined}]
       /\ \A d \in Conns : phase'[d] = "live" => owner'[d] \in Users \X Clients
  BY <1>1 DEF CountsLive
<1> QED
  BY <1>2, <1>3, <1>8, <1>10, <1>11, <1>12 DEF CountsLive

\* A step that ends and admits nobody keeps the counts.
LEMMA OtherCounts ==
  ASSUME CountsLive, UNCHANGED <<owner, sessions>>,
         \/ UNCHANGED phase
         \/ \E c \in Conns : phase[c] = "new" /\ phase' = [phase EXCEPT ![c] = "refused"]
  PROVE  CountsLive'
<1>1. \A u \in Users : LiveOf(u)' = LiveOf(u)
  BY DEF CountsLive, LiveOf
<1>2. /\ phase' \in [Conns -> {"new", "refused", "live", "ended"}]
      /\ \A d \in Conns : phase'[d] = "live" => phase[d] = "live"
  BY DEF CountsLive
<1> QED
  BY <1>1, <1>2 DEF CountsLive

\* Every step of the two together keeps the counts, and is a step of the
\* registry and a step of the topics, or one that does not show.
LEMMA TrackingStep ==
  CountsLive /\ [TrackingNext]_trackingVars =>
    /\ CountsLive'
    /\ [Next]_vars
    /\ [Registry!Next]_(Registry!lifecycleVars)
<1> SUFFICES ASSUME CountsLive, [TrackingNext]_trackingVars
             PROVE  /\ CountsLive'
                    /\ [Next]_vars
                    /\ [Registry!Next]_(Registry!lifecycleVars)
  OBVIOUS
<1>1. CASE UNCHANGED trackingVars
  BY <1>1, OtherCounts DEF trackingVars, vars, Registry!lifecycleVars
<1>2. ASSUME NEW c \in Conns, Refusal(c)
      PROVE  CountsLive' /\ UNCHANGED vars /\ Registry!Next
  <2>1. /\ Registry!Refuse(c) /\ UNCHANGED vars /\ UNCHANGED <<owner, sessions>>
        /\ phase[c] = "new" /\ phase' = [phase EXCEPT ![c] = "refused"]
    BY <1>2 DEF Refusal, Registry!Refuse
  <2> QED
    BY <2>1, OtherCounts DEF Registry!Next
<1>3. ASSUME NEW c \in Conns, NEW u \in Users, NEW k \in Clients, Admission(c, u, k)
      PROVE  CountsLive' /\ Next /\ Registry!Next
  BY <1>3, AdmissionCounts DEF Admission, Next, Registry!Next
<1>4. ASSUME NEW c \in Conns, Ending(c)
      PROVE  CountsLive' /\ Next /\ Registry!Next
  BY <1>4, EndingCounts DEF Ending, Next, Registry!Next
<1>5. CASE Answers
  <2>1. UNCHANGED <<phase, owner, sessions>>
    BY <1>5 DEF Answers, Resolve, Reject, Retry
  <2>2. Next
    BY <1>5 DEF Answers, Next
  <2> QED
    BY <2>1, <2>2, OtherCounts DEF Registry!lifecycleVars
<1> QED
  BY <1>1, <1>2, <1>3, <1>4, <1>5 DEF TrackingNext

\* The two together are a registry as SessionLifecycle promises it and topics as
\* UserTopics has them: neither constrains the other beyond what it does alone,
\* so that every theorem about one of them holds of the two together.
THEOREM CompositionTheorem == TrackingSpec => Registry!Spec /\ Spec /\ []CountsLive
<1>1. TrackingInit => Registry!Init /\ Init
  BY DEF TrackingInit
<1> QED
  BY <1>1, InitCounts, TrackingStep, PTL DEF TrackingSpec, Spec, Registry!Spec

\* Sessions and listeners agree at any time of quiet: UnclaimedGaveUp and
\* QuietAgreement speak of counts, CountsLive of the sessions counted.
LEMMA CountsDecide ==
  CountsLive /\ IInv => LiveSessionsReachable /\ NobodyLeftListening
<1> SUFFICES ASSUME CountsLive, IInv
             PROVE  LiveSessionsReachable /\ NobodyLeftListening
  OBVIOUS
<1>1. ASSUME NEW c \in Conns, NEW u, phase[c] = "live", u = owner[c][1],
             Quiet(u), u \notin raced, u \notin gaveUp
      PROVE  listeners[u] > 0
  <2>1. u \in Users /\ c \in LiveOf(u)
    BY <1>1 DEF CountsLive, LiveOf
  <2>2. sessions[u] # 0 /\ sessions[u] \in Nat
    BY <2>1, FS_EmptySet DEF CountsLive
  <2>3. u \in subscribed
    BY <1>1, <2>1, <2>2 DEF IInv, UnclaimedGaveUp
  <2> QED
    BY <1>1, <2>1, <2>3 DEF IInv, QuietAgreement
<1>2. ASSUME NEW u \in Users, LiveOf(u) = {}, Quiet(u), u \notin raced, u \notin leftover
      PROVE  listeners[u] = 0
  <2>1. sessions[u] = 0
    BY <1>2, FS_EmptySet DEF CountsLive
  <2>2. u \notin subscribed
    BY <2>1 DEF IInv, ClaimOnlyWithSessions
  <2> QED
    BY <1>2, <2>2 DEF IInv, QuietAgreement
<1> QED
  BY <1>1, <1>2 DEF LiveSessionsReachable, NobodyLeftListening

\* From the registration of a session to its release, a channel whose commands
\* have settled without a race, a reconnect before the answer to UNSUBSCRIBE
\* included, is heard on while a session of its user lives.
THEOREM ReachableTheorem == TrackingSpec => []LiveSessionsReachable
BY CompositionTheorem, InvariantHolds, CountsDecide, PTL

\* And it is not heard on any more when the last one has been released.
THEOREM NobodyTheorem == TrackingSpec => []NobodyLeftListening
BY CompositionTheorem, InvariantHolds, CountsDecide, PTL
=============================================================================
