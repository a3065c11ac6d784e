------------------------------ MODULE Presence ------------------------------
(***************************************************************************)
(* PresenceService: the rows the replicas keep in DynamoDB for their       *)
(* sessions (presence.service.ts, dynamo/ttl.ts).  A client id has one     *)
(* session per replica at most, and may have one on each (ws.service.ts,   *)
(* the TODO of handleConnection), but one Clients row.                     *)
(*                                                                         *)
(* trackConnect sends a User put and a Clients put, trackDisconnect a      *)
(* Clients delete conditional on the connection's presenceToken; none of   *)
(* them waits for an earlier write.  Writes are in flight as a set and     *)
(* land in any order.  The AWS SDK is external: it sends a write up to     *)
(* Sends times, and one that landed is sent again if its answer was lost.  *)
(* DynamoDB's TTL sweep deletes a row at some time after its expiresAt,    *)
(* one day after the connect.                                              *)
(***************************************************************************)
EXTENDS Naturals, FiniteSets

CONSTANTS
  Replicas, Users, Clients,
  Tokens,   \* the presenceToken values randomUUID mints
  None,     \* no row, or no live session
  Sends,    \* times the SDK sends one write, the first included
  Faults    \* faults that happen: a subset of {"lose", "crash", "age"}

ASSUME PresenceAssumption ==
  /\ None \notin Tokens \cup Users
  /\ Sends \in Nat \ {0}

Write == [op : {"putUser", "putClient", "delete"}, replica : Replicas, user : Users,
          client : Clients, token : Tokens, sends : 1..Sends]

VARIABLES
  live,       \* live[<<r, k>>]: the token of k's session on replica r, or None
  userOf,     \* userOf[t]: the user t was minted for, None while t is unused
  rows,       \* rows[k]: the presenceToken of k's Clients row, or None
  userRows,   \* the users with a User row
  inflight,   \* writes handed to the SDK and not settled
  aged,       \* tokens whose row is past its expiresAt
  landed,     \* history: tokens whose Clients put landed
  overrun,    \* history: tokens whose Clients row another token's put replaced
  userLost    \* history: tokens whose User put failed for good

vars == <<live, userOf, rows, userRows, inflight, aged, landed, overrun, userLost>>

\* Rows and sessions name only tokens that were minted.
TypeOK ==
  /\ live \in [Replicas \X Clients -> Tokens \cup {None}]
  /\ userOf \in [Tokens -> Users \cup {None}]
  /\ rows \in [Clients -> Tokens \cup {None}]
  /\ userRows \subseteq Users
  /\ inflight \subseteq Write
  /\ aged \subseteq Tokens
  /\ landed \subseteq Tokens
  /\ overrun \subseteq Tokens
  /\ userLost \subseteq Tokens

Init ==
  /\ live = [s \in Replicas \X Clients |-> None]
  /\ userOf = [t \in Tokens |-> None]
  /\ rows = [k \in Clients |-> None]
  /\ userRows = {}
  /\ inflight = {}
  /\ aged = {}
  /\ landed = {}
  /\ overrun = {}
  /\ userLost = {}

-----------------------------------------------------------------------------
(* What a write does to the tables when it reaches them.                    *)

Send(op, r, u, k, t) ==
  [op |-> op, replica |-> r, user |-> u, client |-> k, token |-> t, sends |-> Sends]

PutUser(w) ==
  /\ userRows' = userRows \cup {w.user}
  /\ UNCHANGED <<rows, landed, overrun>>

PutClient(w) ==
  /\ rows' = [rows EXCEPT ![w.client] = w.token]
  /\ landed' = landed \cup {w.token}
  /\ overrun' = (overrun \cup ({rows[w.client]} \ {None})) \ {w.token}
  /\ UNCHANGED userRows

\* Mutant of DeleteClient: the ConditionExpression is left out.
DeleteUnconditionally(w) ==
  /\ rows' = [rows EXCEPT ![w.client] = None]
  /\ UNCHANGED <<userRows, landed, overrun>>

\* The condition presenceToken = :token; when it fails the delete is a no-op
\* that trackDisconnect logs and swallows.
DeleteClient(w) ==
  /\ rows' = [rows EXCEPT ![w.client] = IF @ = w.token THEN None ELSE @]
  /\ UNCHANGED <<userRows, landed, overrun>>

Land(w) ==
  \/ w.op = "putUser" /\ PutUser(w)
  \/ w.op = "putClient" /\ PutClient(w)
  \/ w.op = "delete" /\ DeleteClient(w)

-----------------------------------------------------------------------------
(* Actions.                                                                 *)

\* Mutant of Connect: the Clients put is sent without the User put.
ConnectClientOnly(r, u, k, t) ==
  /\ live[<<r, k>>] = None
  /\ userOf[t] = None
  /\ live' = [live EXCEPT ![<<r, k>>] = t]
  /\ userOf' = [userOf EXCEPT ![t] = u]
  /\ inflight' = inflight \cup {Send("putClient", r, u, k, t)}
  /\ UNCHANGED <<rows, userRows, aged, landed, overrun, userLost>>

\* Mutant of Connect: the token is not minted for the connection.
ConnectSameToken(r, u, k, t) ==
  /\ live[<<r, k>>] = None
  /\ userOf[t] \in {None, u}
  /\ live' = [live EXCEPT ![<<r, k>>] = t]
  /\ userOf' = [userOf EXCEPT ![t] = u]
  /\ inflight' = inflight \cup {Send("putUser", r, u, k, t), Send("putClient", r, u, k, t)}
  /\ UNCHANGED <<rows, userRows, aged, landed, overrun, userLost>>

\* The registry of r admits a session of client k, mints t for it, and fans
\* the connect out to trackConnect.
Connect(r, u, k, t) ==
  /\ live[<<r, k>>] = None
  /\ userOf[t] = None
  /\ live' = [live EXCEPT ![<<r, k>>] = t]
  /\ userOf' = [userOf EXCEPT ![t] = u]
  /\ inflight' = inflight \cup {Send("putUser", r, u, k, t), Send("putClient", r, u, k, t)}
  /\ UNCHANGED <<rows, userRows, aged, landed, overrun, userLost>>

\* The registry of r releases k's session; trackDisconnect sends the delete.
Disconnect(r, k) ==
  /\ live[<<r, k>>] # None
  /\ live' = [live EXCEPT ![<<r, k>>] = None]
  /\ inflight' = inflight \cup
                 {Send("delete", r, userOf[live[<<r, k>>]], k, live[<<r, k>>])}
  /\ UNCHANGED <<userOf, rows, userRows, aged, landed, overrun, userLost>>

\* w lands and its answer arrives, or a condition failure is swallowed.
Apply(w) ==
  /\ Land(w)
  /\ inflight' = inflight \ {w}
  /\ UNCHANGED <<live, userOf, aged, userLost>>

\* w lands, its answer is lost, and the SDK sends it again.
ApplyUnanswered(w) ==
  /\ "lose" \in Faults
  /\ w.sends > 1
  /\ Land(w)
  /\ inflight' = (inflight \ {w}) \cup {[w EXCEPT !.sends = @ - 1]}
  /\ UNCHANGED <<live, userOf, aged, userLost>>

\* Mutant of Fail: the budget is compared off by one.
FailOnceMore(w) ==
  /\ "lose" \in Faults
  /\ inflight' = (inflight \ {w}) \cup
                 IF w.sends > 0 THEN {[w EXCEPT !.sends = @ - 1]} ELSE {}
  /\ userLost' = userLost
  /\ UNCHANGED <<live, userOf, rows, userRows, aged, landed, overrun>>

\* w does not land; the last failure is logged and swallowed.
Fail(w) ==
  /\ "lose" \in Faults
  /\ inflight' = (inflight \ {w}) \cup
                 IF w.sends > 1 THEN {[w EXCEPT !.sends = @ - 1]} ELSE {}
  /\ userLost' = IF w.sends = 1 /\ w.op = "putUser"
                 THEN userLost \cup {w.token} ELSE userLost
  /\ UNCHANGED <<live, userOf, rows, userRows, aged, landed, overrun>>

\* Mutant of Age: trackConnect leaves expiresAt out of the Clients item.
AgeWithoutExpiresAt(t) == FALSE /\ UNCHANGED vars

\* A day has passed since t was minted; no put takes that long.
Age(t) ==
  /\ "age" \in Faults
  /\ userOf[t] # None
  /\ \A w \in inflight : w.token = t => w.op = "delete"
  /\ aged' = aged \cup {t}
  /\ UNCHANGED <<live, userOf, rows, userRows, inflight, landed, overrun, userLost>>

TtlSweep(k) ==
  /\ rows[k] \in aged
  /\ rows' = [rows EXCEPT ![k] = None]
  /\ UNCHANGED <<live, userOf, userRows, inflight, aged, landed, overrun, userLost>>

\* The process of r dies and starts again: its sessions end without a
\* disconnect, and of its writes in flight those on the network go on.
Crash(r) ==
  /\ "crash" \in Faults
  /\ live' = [s \in Replicas \X Clients |-> IF s[1] = r THEN None ELSE live[s]]
  /\ \E lost \in SUBSET {w \in inflight : w.replica = r} :
       /\ inflight' = {IF w.replica = r THEN [w EXCEPT !.sends = 1] ELSE w :
                         w \in inflight \ lost}
       /\ userLost' = userLost \cup {w.token : w \in {v \in lost : v.op = "putUser"}}
  /\ UNCHANGED <<userOf, rows, userRows, aged, landed, overrun>>

Next ==
  \/ \E r \in Replicas, k \in Clients :
       \/ \E u \in Users, t \in Tokens : Connect(r, u, k, t)
       \/ Disconnect(r, k)
  \/ \E k \in Clients : TtlSweep(k)
  \/ \E w \in inflight : Apply(w) \/ ApplyUnanswered(w) \/ Fail(w)
  \/ \E t \in Tokens : Age(t)
  \/ \E r \in Replicas : Crash(r)

Spec == Init /\ [][Next]_vars

\* The SDK settles every write, time passes, and the sweep runs.
Fairness ==
  /\ \A w \in Write : WF_vars(w \in inflight /\ (Apply(w) \/ ApplyUnanswered(w) \/ Fail(w)))
  /\ \A t \in Tokens : WF_vars(Age(t))
  /\ \A k \in Clients : WF_vars(TtlSweep(k))

FairSpec == Spec /\ Fairness

-----------------------------------------------------------------------------
(* Properties that hold.                                                    *)

\* A live session keeps the row its put wrote: no delete of another session of
\* its client id, an earlier one or one on another replica, removes it, in
\* whatever order and however often the writes land, unless a day has passed or
\* such a session's put came after its own.
FreshRowSurvives ==
  \A r \in Replicas, k \in Clients :
    LET t == live[<<r, k>>]
    IN  t \in landed /\ t \notin aged \cup overrun => rows[k] = t

\* A user with a Clients row has a User row, unless the User put is in flight
\* or has failed: one failing write does not keep the other from being sent.
PresentUserKnown ==
  \A k \in Clients : rows[k] # None =>
    \/ userOf[rows[k]] \in userRows
    \/ rows[k] \in userLost
    \/ \E w \in inflight : w.op = "putUser" /\ w.token = rows[k]

\* A row that no session stands behind disappears: the one-day lifetime is the
\* "crash-safety net" for deletes that were lost or came too early.
OrphansReaped ==
  \A k \in Clients, t \in Tokens :
    rows[k] = t /\ (\A r \in Replicas : live[<<r, k>>] # t) ~> rows[k] # t

\* The Clients row of t is gone, and its put is settled.
Gone(t) ==
  /\ userOf[t] # None
  /\ \A k \in Clients : rows[k] # t
  /\ \A w \in inflight : w.token = t => w.op # "putClient"

\* A row that disappeared, deleted, expired or replaced, and whose put is settled
\* does not come back, whatever is sent again and whoever reconnects: rows that
\* OrphansReaped lets disappear do so for good.
GoneForGood == [][\A t \in Tokens : Gone(t) => Gone(t)']_vars

-----------------------------------------------------------------------------
(* Statements of the source that do not hold.                               *)

Settled(k) == \A w \in inflight : w.client # k

\* "a slow delete landing after a fast reconnect on the same clientId fails its
\* condition and leaves the fresh row intact": with no fault, a delete that
\* lands once the put of the client's live session on the same replica has
\* landed leaves the row of that session.
ReconnectedRowIntact ==
  [][\A w \in inflight :
       w.op = "delete" /\ Apply(w) /\ live[<<w.replica, w.client>>] \in landed =>
         rows'[w.client] = live[<<w.replica, w.client>>]]_vars

\* "trackDisconnect removes the client row": with no fault and all writes
\* landed, a client without a session has no row.
DisconnectRemovesRow ==
  \A k \in Clients :
    Settled(k) /\ (\A r \in Replicas : live[<<r, k>>] = None) => rows[k] = None
=============================================================================
