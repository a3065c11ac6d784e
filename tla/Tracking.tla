------------------------------ MODULE Tracking ------------------------------
(***************************************************************************)
(* The registry and the user topics of one replica together.  The registry *)
(* appears as SessionLifecycle, which SessionRegistry implements; the      *)
(* topics as UserTopics, with the count the registry announces.            *)
(*                                                                         *)
(* fanOut calls the trackers in the turn that registers or releases the    *)
(* session, and handleConnect and handleDisconnect run up to their first   *)
(* await in that turn, so that an admission or an end and what the topics  *)
(* do about it are one step.  Answers and retries come between the turns.  *)
(***************************************************************************)
EXTENDS UserTopics, FiniteSets

CONSTANTS Clients, Conns, Undefined

VARIABLES phase, owner   \* those of SessionLifecycle

Registry == INSTANCE SessionLifecycle WITH announced <- sessions

trackingVars == <<phase, owner, vars>>

TrackingInit == Registry!Init /\ Init

\* handleConnection refuses: no tracker is told.
Refusal(c) == Registry!Refuse(c) /\ UNCHANGED vars

\* handleConnection registers the session of c and fans its connect out.
Admission(c, u, k) == Registry!Admit(c, u, k) /\ Connect(u)

\* release takes the session of c away and fans its disconnect out.
Ending(c) == Registry!End(c) /\ Disconnect(owner[c][1])

\* The commands on the channels are answered, and sent again.
Answers ==
  /\ \/ \E u \in Users : Resolve(u) \/ Reject(u)
     \/ \E o \in Ops : Retry(o)
  /\ UNCHANGED <<phase, owner>>

TrackingNext ==
  \/ \E c \in Conns :
       \/ Refusal(c)
       \/ \E u \in Users, k \in Clients : Admission(c, u, k)
       \/ Ending(c)
  \/ Answers

TrackingSpec == TrackingInit /\ [][TrackingNext]_trackingVars

-----------------------------------------------------------------------------
(* Properties.                                                              *)

LiveOf(u) == {c \in Conns : phase[c] = "live" /\ owner[c][1] = u}

\* A live session can be reached over its user's channel: once the channel's
\* loops have ended, none of them raced (StartRaces, FailureRaces) and no
\* subscribe ran out of attempts since the last claim, somebody listens,
\* whichever other sessions of the user came and went while commands were under
\* way ("Subscribes while a user has local sessions").  A reconnect before the
\* answer to UNSUBSCRIBE is such a race, and is not covered.
LiveSessionsReachable ==
  \A c \in Conns : phase[c] = "live" =>
    LET u == owner[c][1] IN
      Quiet(u) /\ u \notin raced /\ u \notin gaveUp => listeners[u] > 0

\* When the last live session of a user has ended, and with it the channel's
\* loops, nobody listens, unless loops raced and no unsubscribe has put an end
\* to it (EndsRace), or the last unsubscribe ran out of attempts ("unsubscribes
\* after the last").
NobodyLeftListening ==
  \A u \in Users :
    LiveOf(u) = {} /\ Quiet(u) /\ u \notin raced /\ u \notin leftover => listeners[u] = 0
=============================================================================
