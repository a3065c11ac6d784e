--------------------------- MODULE PresenceProofs ---------------------------
(***************************************************************************)
(* Proofs about Presence, for every set of replicas, users, clients and    *)
(* tokens, every retry budget of the SDK and every set of faults.          *)
(***************************************************************************)
EXTENDS Presence, TLAPS

-----------------------------------------------------------------------------
(* The inductive invariant.                                                 *)

\* Rows, sessions and writes name minted tokens.
Minted ==
  /\ \A r \in Replicas, k \in Clients : live[<<r, k>>] # None => userOf[live[<<r, k>>]] # None
  /\ \A k \in Clients : rows[k] # None => userOf[rows[k]] # None
  /\ \A t \in landed : userOf[t] # None
  /\ \A w \in inflight : userOf[w.token] = w.user

\* A token belongs to one session, and its delete is sent when that has ended.
OneSessionPerToken ==
  /\ \A q, r \in Replicas, j, k \in Clients :
       live[<<q, j>>] = live[<<r, k>>] /\ live[<<r, k>>] # None => q = r /\ j = k
  /\ \A w \in inflight, r \in Replicas, k \in Clients :
       live[<<r, k>>] = w.token => w.replica = r /\ w.client = k /\ w.op # "delete"

\* The User put of every session has landed, was given up or is in flight.
UserWriteKept ==
  \A t \in Tokens : userOf[t] # None =>
    \/ userOf[t] \in userRows
    \/ t \in userLost
    \/ \E w \in inflight : w.op = "putUser" /\ w.token = t

IInv ==
  TypeOK /\ Minted /\ OneSessionPerToken /\ UserWriteKept /\ FreshRowSurvives

-----------------------------------------------------------------------------
(* The proofs.                                                              *)

\* Initially there are no rows, sessions or writes.
LEMMA InitIInv == Init => IInv
BY PresenceAssumption
DEF Init, IInv, TypeOK, Minted, OneSessionPerToken, UserWriteKept, FreshRowSurvives

\* What landing does, whichever write lands: it leaves alone everything but
\* the tables and their history, and keeps FreshRowSurvives.
LEMMA LandKeeps ==
  ASSUME IInv, NEW w \in inflight, Land(w),
         live' = live, userOf' = userOf, aged' = aged
  PROVE  /\ rows' \in [Clients -> Tokens \cup {None}]
         /\ userRows' \subseteq Users
         /\ landed' \subseteq Tokens /\ overrun' \subseteq Tokens
         /\ \A k \in Clients : rows'[k] # None => userOf[rows'[k]] # None
         /\ \A t \in landed' : userOf[t] # None
         /\ userRows \subseteq userRows'
         /\ w.op = "putUser" => w.user \in userRows'
         /\ FreshRowSurvives'
<1> USE PresenceAssumption DEF IInv, TypeOK, Minted, OneSessionPerToken, FreshRowSurvives
<1>1. w \in Write
  OBVIOUS
<1>2. /\ w.op \in {"putUser", "putClient", "delete"}
      /\ w.user \in Users /\ w.client \in Clients /\ w.token \in Tokens
  BY <1>1 DEF Write
<1>3. userOf[w.token] # None
  BY <1>2
<1>4. CASE w.op = "putUser"
  BY <1>2, <1>4 DEF Land, PutUser
<1>5. CASE w.op = "putClient"
  <2>1. /\ rows' = [rows EXCEPT ![w.client] = w.token]
        /\ landed' = landed \cup {w.token}
        /\ overrun' = (overrun \cup ({rows[w.client]} \ {None})) \ {w.token}
        /\ userRows' = userRows
    BY <1>5 DEF Land, PutClient
  <2>2. FreshRowSurvives'
    <3> SUFFICES ASSUME NEW r \in Replicas, NEW k \in Clients, live[<<r, k>>] \in landed',
                        live[<<r, k>>] \notin aged, live[<<r, k>>] \notin overrun'
                 PROVE  rows'[k] = live[<<r, k>>]
      OBVIOUS
    <3>1. CASE live[<<r, k>>] = w.token
      BY <3>1, <2>1, <1>2
    <3>2. CASE live[<<r, k>>] # w.token
      BY <3>2, <2>1, <1>2
    <3> QED
      BY <3>1, <3>2
  <2> QED
    BY <2>1, <2>2, <1>2, <1>3, <1>5
<1>6. CASE w.op = "delete"
  <2>1. /\ rows' = [rows EXCEPT ![w.client] = IF @ = w.token THEN None ELSE @]
        /\ UNCHANGED <<userRows, landed, overrun>>
    BY <1>6 DEF Land, DeleteClient
  <2>2. \A r \in Replicas, k \in Clients : live[<<r, k>>] # w.token
    <3> SUFFICES ASSUME NEW r \in Replicas, NEW k \in Clients, live[<<r, k>>] = w.token
                 PROVE  FALSE
      OBVIOUS
    <3>1. OneSessionPerToken
      BY Zenon DEF IInv
    <3> QED
      BY <1>6, <3>1
  <2> QED
    BY <2>1, <2>2, <1>2, <1>6
<1> QED
  BY <1>2, <1>4, <1>5, <1>6

\* A write that is sent again differs from the first only in its budget.
LEMMA Resent ==
  ASSUME NEW w \in Write, w.sends > 1
  PROVE  LET v == [w EXCEPT !.sends = @ - 1]
         IN  /\ v \in Write
             /\ v.op = w.op /\ v.user = w.user /\ v.replica = w.replica
             /\ v.client = w.client /\ v.token = w.token
BY PresenceAssumption DEF Write

\* The invariant of writes in flight survives a step that settles a write or
\* sends it again.
LEMMA SettleKeeps ==
  ASSUME IInv, NEW w \in inflight, live' = live, userOf' = userOf,
         \/ inflight' = inflight \ {w}
         \/ /\ w.sends > 1
            /\ inflight' = (inflight \ {w}) \cup {[w EXCEPT !.sends = @ - 1]}
  PROVE  /\ inflight' \subseteq Write
         /\ \A v \in inflight' : userOf[v.token] = v.user
         /\ OneSessionPerToken'
<1> w \in Write
  BY DEF IInv, TypeOK
<1>1. CASE inflight' = inflight \ {w}
  BY <1>1 DEF IInv, TypeOK, Minted, OneSessionPerToken
<1>2. CASE w.sends > 1 /\ inflight' = (inflight \ {w}) \cup {[w EXCEPT !.sends = @ - 1]}
  <2> DEFINE v == [w EXCEPT !.sends = @ - 1]
  <2>1. /\ v \in Write
        /\ v.op = w.op /\ v.user = w.user /\ v.replica = w.replica
        /\ v.client = w.client /\ v.token = w.token
    BY <1>2, Resent
  <2>2. inflight' = (inflight \ {w}) \cup {v}
    BY <1>2
  <2> HIDE DEF v
  <2> QED
    BY <2>1, <2>2 DEF IInv, TypeOK, Minted, OneSessionPerToken
<1> QED
  BY <1>1, <1>2

\* Every step preserves the inductive invariant.
LEMMA NextIInv == IInv /\ [Next]_vars => IInv'
<1> SUFFICES ASSUME IInv, [Next]_vars PROVE IInv'
  OBVIOUS
<1> USE PresenceAssumption
<1>1. CASE UNCHANGED vars
  BY <1>1 DEF vars, IInv, TypeOK, Minted, OneSessionPerToken, UserWriteKept, FreshRowSurvives
<1>2. ASSUME NEW r \in Replicas, NEW u \in Users, NEW k \in Clients, NEW t \in Tokens,
             Connect(r, u, k, t)
      PROVE  IInv'
  <2> DEFINE a == Send("putUser", r, u, k, t)
             b == Send("putClient", r, u, k, t)
  <2>1. /\ a \in Write /\ b \in Write
        /\ a.op = "putUser" /\ a.user = u /\ a.replica = r /\ a.client = k /\ a.token = t
        /\ b.op = "putClient" /\ b.user = u /\ b.replica = r /\ b.client = k /\ b.token = t
    BY DEF Send, Write
  <2>2. /\ live[<<r, k>>] = None
        /\ userOf[t] = None
        /\ live' = [live EXCEPT ![<<r, k>>] = t]
        /\ userOf' = [userOf EXCEPT ![t] = u]
        /\ inflight' = inflight \cup {a, b}
        /\ UNCHANGED <<rows, userRows, aged, landed, overrun, userLost>>
    BY <1>2 DEF Connect
  <2> HIDE DEF a, b
  <2>3. TypeOK'
    BY <2>1, <2>2 DEF IInv, TypeOK
  <2>4. \A v \in inflight : v.token \in Tokens /\ v.token # t /\ v.user \in Users
    BY <2>2 DEF IInv, TypeOK, Minted, Write
  <2>5. Minted'
    BY <2>1, <2>2, <2>4 DEF IInv, TypeOK, Minted
  <2>6. OneSessionPerToken'
    BY <2>1, <2>2, <2>4 DEF IInv, TypeOK, Minted, OneSessionPerToken
  <2>7. UserWriteKept'
    BY <2>1, <2>2 DEF IInv, TypeOK, UserWriteKept
  <2>8. FreshRowSurvives'
    BY <2>2 DEF IInv, TypeOK, Minted, FreshRowSurvives
  <2> QED
    BY <2>3, <2>5, <2>6, <2>7, <2>8 DEF IInv
<1>3. ASSUME NEW r \in Replicas, NEW k \in Clients, Disconnect(r, k) PROVE IInv'
  <2> DEFINE t == live[<<r, k>>]
             a == Send("delete", r, userOf[t], k, t)
  <2>1. /\ t \in Tokens /\ t # None
        /\ userOf[t] \in Users
    BY <1>3 DEF Disconnect, IInv, TypeOK, Minted
  <2>2. /\ a \in Write
        /\ a.op = "delete" /\ a.user = userOf[t] /\ a.replica = r /\ a.client = k /\ a.token = t
    BY <2>1 DEF Send, Write
  <2>3. /\ live' = [live EXCEPT ![<<r, k>>] = None]
        /\ inflight' = inflight \cup {a}
        /\ UNCHANGED <<userOf, rows, userRows, aged, landed, overrun, userLost>>
    BY <1>3 DEF Disconnect
  <2>4. \A v \in inflight : /\ v \in Write /\ v.token \in Tokens
                            /\ v.client \in Clients /\ v.replica \in Replicas
    BY DEF IInv, TypeOK, Write
  <2> HIDE DEF a
  <2>5. TypeOK'
    BY <2>1, <2>2, <2>3 DEF IInv, TypeOK
  <2>6. Minted'
    BY <2>1, <2>2, <2>3 DEF IInv, TypeOK, Minted
  <2>7. OneSessionPerToken'
    BY <2>1, <2>2, <2>3, <2>4 DEF IInv, TypeOK, Minted, OneSessionPerToken
  <2>8. UserWriteKept'
    BY <2>3 DEF IInv, TypeOK, UserWriteKept
  <2>9. FreshRowSurvives'
    BY <2>3 DEF IInv, TypeOK, FreshRowSurvives
  <2> QED
    BY <2>5, <2>6, <2>7, <2>8, <2>9 DEF IInv
<1>4. ASSUME NEW k \in Clients, TtlSweep(k) PROVE IInv'
  BY <1>4 DEF TtlSweep, IInv, TypeOK, Minted, OneSessionPerToken, UserWriteKept, FreshRowSurvives
<1>5. ASSUME NEW w \in inflight, Apply(w) \/ ApplyUnanswered(w) PROVE IInv'
  <2>1. /\ live' = live /\ userOf' = userOf /\ aged' = aged /\ userLost' = userLost
        /\ Land(w)
        /\ \/ inflight' = inflight \ {w}
           \/ /\ w.sends > 1
              /\ inflight' = (inflight \ {w}) \cup {[w EXCEPT !.sends = @ - 1]}
    BY <1>5 DEF Apply, ApplyUnanswered
  <2>2. /\ inflight' \subseteq Write
        /\ \A v \in inflight' : userOf[v.token] = v.user
        /\ OneSessionPerToken'
    BY <2>1, SettleKeeps
  <2>3. /\ rows' \in [Clients -> Tokens \cup {None}]
        /\ userRows' \subseteq Users
        /\ landed' \subseteq Tokens /\ overrun' \subseteq Tokens
        /\ \A k \in Clients : rows'[k] # None => userOf[rows'[k]] # None
        /\ \A t \in landed' : userOf[t] # None
        /\ userRows \subseteq userRows'
        /\ w.op = "putUser" => w.user \in userRows'
        /\ FreshRowSurvives'
    BY <2>1, LandKeeps
  <2>4. TypeOK' /\ Minted'
    BY <2>1, <2>2, <2>3 DEF IInv, TypeOK, Minted
  <2>5. UserWriteKept'
    <3> SUFFICES ASSUME NEW t \in Tokens, userOf[t] # None,
                        userOf[t] \notin userRows', t \notin userLost
                 PROVE  \E v \in inflight' : v.op = "putUser" /\ v.token = t
      BY <2>1 DEF UserWriteKept
    <3>1. PICK v \in inflight : v.op = "putUser" /\ v.token = t
      BY <2>3 DEF IInv, UserWriteKept
    <3>2. v # w
      BY <3>1, <2>3 DEF IInv, Minted
    <3> QED
      BY <3>1, <3>2, <2>1
  <2> QED
    BY <2>2, <2>3, <2>4, <2>5 DEF IInv
<1>6. ASSUME NEW w \in inflight, Fail(w) PROVE IInv'
  <2> w \in Write /\ w.sends \in 1..Sends /\ w.token \in Tokens
    BY DEF IInv, TypeOK, Write
  <2>1. UNCHANGED <<live, userOf, rows, userRows, aged, landed, overrun>>
    BY <1>6 DEF Fail
  <2>2. \/ inflight' = inflight \ {w} /\ w.sends = 1
        \/ /\ w.sends > 1
           /\ inflight' = (inflight \ {w}) \cup {[w EXCEPT !.sends = @ - 1]}
    BY <1>6 DEF Fail
  <2>3. /\ inflight' \subseteq Write
        /\ \A v \in inflight' : userOf[v.token] = v.user
        /\ OneSessionPerToken'
    BY <2>1, <2>2, SettleKeeps
  <2>4. /\ userLost' \subseteq Tokens /\ userLost \subseteq userLost'
        /\ w.sends = 1 /\ w.op = "putUser" => w.token \in userLost'
    BY <1>6 DEF Fail, IInv, TypeOK
  <2>5. TypeOK' /\ Minted' /\ FreshRowSurvives'
    BY <2>1, <2>3, <2>4 DEF IInv, TypeOK, Minted, FreshRowSurvives
  <2>6. UserWriteKept'
    <3> SUFFICES ASSUME NEW t \in Tokens, userOf[t] # None,
                        userOf[t] \notin userRows, t \notin userLost'
                 PROVE  \E v \in inflight' : v.op = "putUser" /\ v.token = t
      BY <2>1 DEF UserWriteKept
    <3>1. PICK v \in inflight : v.op = "putUser" /\ v.token = t
      BY <2>4 DEF IInv, UserWriteKept
    <3>2. CASE v # w
      BY <3>1, <3>2, <2>2
    <3>3. CASE v = w
      <4>1. w.sends > 1
        BY <3>1, <3>3, <2>2, <2>4
      <4>2. [w EXCEPT !.sends = @ - 1] \in inflight'
        BY <4>1, <2>2
      <4> QED
        BY <4>1, <4>2, <3>1, <3>3, Resent
    <3> QED
      BY <3>2, <3>3
  <2> QED
    BY <2>3, <2>5, <2>6 DEF IInv
<1>7. ASSUME NEW t \in Tokens, Age(t) PROVE IInv'
  BY <1>7 DEF Age, IInv, TypeOK, Minted, OneSessionPerToken, UserWriteKept, FreshRowSurvives
<1>8. ASSUME NEW r \in Replicas, Crash(r) PROVE IInv'
  <2> DEFINE cut(w) == IF w.replica = r THEN [w EXCEPT !.sends = 1] ELSE w
  <2>1. PICK lost \in SUBSET {w \in inflight : w.replica = r} :
          /\ inflight' = {cut(w) : w \in inflight \ lost}
          /\ userLost' = userLost \cup {w.token : w \in {v \in lost : v.op = "putUser"}}
    BY <1>8 DEF Crash
  <2>2. /\ live' = [s \in Replicas \X Clients |-> IF s[1] = r THEN None ELSE live[s]]
        /\ UNCHANGED <<userOf, rows, userRows, aged, landed, overrun>>
    BY <1>8 DEF Crash
  <2>3. \A w \in inflight : w \in Write /\ w.token \in Tokens
    BY DEF IInv, TypeOK, Write
  <2>4. \A w \in inflight :
          /\ cut(w) \in Write /\ cut(w).op = w.op /\ cut(w).user = w.user
          /\ cut(w).token = w.token /\ cut(w).replica = w.replica /\ cut(w).client = w.client
    BY <2>3 DEF Write
  <2> HIDE DEF cut
  <2>5. \A v \in inflight' : /\ v \in Write
                             /\ \E w \in inflight :
                                  /\ v.user = w.user /\ v.token = w.token /\ v.op = w.op
                                  /\ v.replica = w.replica /\ v.client = w.client
    BY <2>1, <2>4
  <2>6. \A q \in Replicas, k \in Clients : live'[<<q, k>>] = IF q = r THEN None ELSE live[<<q, k>>]
    BY <2>2
  <2>7. TypeOK'
    <3>1. live' \in [Replicas \X Clients -> Tokens \cup {None}]
      BY <2>2 DEF IInv, TypeOK
    <3>2. userLost' \subseteq Tokens
      BY <2>1, <2>3 DEF IInv, TypeOK
    <3> QED
      BY <2>2, <2>5, <3>1, <3>2 DEF IInv, TypeOK
  <2>8. Minted'
    BY <2>2, <2>5, <2>6 DEF IInv, TypeOK, Minted
  <2>9. OneSessionPerToken' /\ FreshRowSurvives'
    <3>1. OneSessionPerToken'
      BY <2>3, <2>5, <2>6 DEF IInv, OneSessionPerToken
    <3>2. FreshRowSurvives'
      BY <2>2, <2>6 DEF IInv, TypeOK, FreshRowSurvives
    <3> QED
      BY <3>1, <3>2
  <2>10. UserWriteKept'
    <3> SUFFICES ASSUME NEW t \in Tokens, userOf[t] # None,
                        userOf[t] \notin userRows, t \notin userLost'
                 PROVE  \E v \in inflight' : v.op = "putUser" /\ v.token = t
      BY <2>2 DEF UserWriteKept
    <3>1. PICK v \in inflight : v.op = "putUser" /\ v.token = t
      BY <2>1 DEF IInv, UserWriteKept
    <3>2. v \notin lost
      BY <3>1, <2>1
    <3> QED
      BY <3>1, <3>2, <2>1, <2>4
  <2> QED
    BY <2>7, <2>8, <2>9, <2>10 DEF IInv
<1> QED
  BY <1>1, <1>2, <1>3, <1>4, <1>5, <1>6, <1>7, <1>8 DEF Next

\* The inductive invariant holds in every reachable state.
THEOREM InvariantHolds == Spec => []IInv
BY InitIInv, NextIInv, PTL DEF Spec

\* No step leaves the types: no write is sent more often than its budget.
THEOREM TypeTheorem == Spec => []TypeOK
<1>1. IInv => TypeOK
  BY DEF IInv
<1> QED
  BY <1>1, InvariantHolds, PTL

\* A live session keeps the row its put wrote, whatever the deletes of other
\* sessions of its client id, retries, losses and crashes do (the conditional
\* delete of PresenceService.trackDisconnect).
THEOREM FreshRowTheorem == Spec => []FreshRowSurvives
<1>1. IInv => FreshRowSurvives
  BY DEF IInv
<1> QED
  BY <1>1, InvariantHolds, PTL

\* A user with a Clients row has a User row, or its User put is in flight or
\* has failed (the allSettled of PresenceService.trackConnect).
THEOREM PresentUserTheorem == Spec => []PresentUserKnown
<1>1. IInv => PresentUserKnown
  BY DEF IInv, TypeOK, Minted, UserWriteKept, PresentUserKnown
<1> QED
  BY <1>1, InvariantHolds, PTL

\* A write that lands brings back no row but that of its own put.
LEMMA LandLeavesGone ==
  ASSUME TypeOK, NEW w \in inflight, Land(w), NEW t \in Tokens, Gone(t)
  PROVE  \A k \in Clients : rows'[k] # t
<1>1. w \in Write /\ w.client \in Clients /\ w.token \in Tokens
  BY DEF TypeOK, Write
<1>2. None # t
  BY PresenceAssumption
<1>3. CASE w.op = "putClient" /\ PutClient(w)
  <2>1. w.token # t
    BY <1>3 DEF Gone
  <2> QED
    BY <1>1, <1>3, <2>1 DEF TypeOK, PutClient, Gone
<1>4. CASE w.op = "delete" /\ DeleteClient(w)
  BY <1>1, <1>2, <1>4 DEF TypeOK, DeleteClient, Gone
<1>5. CASE PutUser(w)
  BY <1>5 DEF PutUser, Gone
<1> QED
  BY <1>3, <1>4, <1>5 DEF Land

\* Once the put of trackConnect is settled and its row is gone, no retry of the
\* SDK, crash, sweep or reconnect writes that row again.
THEOREM GoneTheorem == Spec => GoneForGood
<1>1. IInv /\ [Next]_vars => [\A t \in Tokens : Gone(t) => Gone(t)']_vars
  <2> SUFFICES ASSUME TypeOK, Next, NEW t \in Tokens, Gone(t) PROVE Gone(t)'
    BY DEF IInv
  <2>1. /\ userOf[t] # None /\ None # t
        /\ \A k \in Clients : rows[k] # t
        /\ \A w \in inflight : w.token = t => w.op # "putClient"
    BY PresenceAssumption DEF Gone
  <2>2. ASSUME NEW r \in Replicas, NEW u \in Users, NEW k \in Clients, NEW s \in Tokens,
               Connect(r, u, k, s)
        PROVE  Gone(t)'
    <3>1. /\ s # t /\ userOf'[t] = userOf[t] /\ rows' = rows
          /\ inflight' = inflight \cup {Send("putUser", r, u, k, s),
                                        Send("putClient", r, u, k, s)}
      BY <2>1, <2>2 DEF Connect, TypeOK
    <3>2. \A w \in inflight' : w.token = t => w \in inflight
      BY <3>1 DEF Send
    <3> QED
      BY <2>1, <3>1, <3>2 DEF Gone
  <2>3. ASSUME NEW r \in Replicas, NEW k \in Clients, Disconnect(r, k)
        PROVE  Gone(t)'
    <3>1. \A w \in inflight' : w \in inflight \/ w.op = "delete"
      BY <2>3 DEF Disconnect, Send
    <3> QED
      BY <2>1, <2>3, <3>1 DEF Disconnect, Gone
  <2>4. \A w \in inflight : w \in Write
    BY DEF TypeOK
  <2>5. ASSUME NEW w \in inflight,
               \A v \in inflight' : \/ v \in inflight
                                    \/ v.token = w.token /\ v.op = w.op,
               userOf' = userOf, rows' = rows \/ Land(w)
        PROVE  Gone(t)'
    BY <2>1, <2>5, LandLeavesGone DEF Gone
  <2>6. ASSUME NEW w \in inflight, Apply(w) \/ ApplyUnanswered(w) \/ Fail(w)
        PROVE  Gone(t)'
    <3>1. /\ [w EXCEPT !.sends = @ - 1].token = w.token
          /\ [w EXCEPT !.sends = @ - 1].op = w.op
      BY <2>4 DEF Write
    <3>2. \A v \in inflight' : \/ v \in inflight
                               \/ v.token = w.token /\ v.op = w.op
      BY <2>6, <3>1 DEF Apply, ApplyUnanswered, Fail
    <3> QED
      BY <2>5, <2>6, <3>2 DEF Apply, ApplyUnanswered, Fail
  <2>7. ASSUME NEW s \in Tokens, Age(s)
        PROVE  Gone(t)'
    BY <2>7 DEF Age, Gone
  <2>8. ASSUME NEW k \in Clients, TtlSweep(k)
        PROVE  Gone(t)'
    BY <2>1, <2>8 DEF TtlSweep, TypeOK, Gone
  <2>9. ASSUME NEW r \in Replicas, Crash(r)
        PROVE  Gone(t)'
    <3>1. \A v \in inflight' : \E w \in inflight : v.token = w.token /\ v.op = w.op
      <4>1. PICK lost \in SUBSET {w \in inflight : w.replica = r} :
              inflight' = {IF w.replica = r THEN [w EXCEPT !.sends = 1] ELSE w :
                             w \in inflight \ lost}
        BY <2>9 DEF Crash
      <4>2. \A w \in inflight : /\ [w EXCEPT !.sends = 1].token = w.token
                                /\ [w EXCEPT !.sends = 1].op = w.op
        BY <2>4 DEF Write
      <4> QED
        BY <4>1, <4>2
    <3>2. userOf' = userOf /\ rows' = rows
      BY <2>9 DEF Crash
    <3> QED
      BY <2>1, <3>1, <3>2 DEF Gone
  <2> QED
    BY <2>2, <2>3, <2>6, <2>7, <2>8, <2>9 DEF Next
<1> QED
  BY <1>1, InvariantHolds, PTL DEF Spec, GoneForGood
=============================================================================
