---------------------------- MODULE FanoutProofs ----------------------------
(***************************************************************************)
(* Proofs of the safety properties of Fanout, for every set of replicas,   *)
(* users, clients and connections and every number of frames.  The actions *)
(* fall into five groups: sockets and subscriptions, a frame that arrives, *)
(* the end of a PUBLISH, a delivery, and a lost subscriber connection.     *)
(* One lemma for each shows that it keeps the inductive invariant.         *)
(***************************************************************************)
EXTENDS Fanout, TLAPS

-----------------------------------------------------------------------------
(* The inductive invariant.                                                 *)

\* A session is filed under its own client id and replica, and an open socket
\* has its session.
SessionsFiled ==
  /\ \A r \in Replicas, k \in Clients : sessions[r][k] # Undefined =>
       Identity[sessions[r][k]].replica = r /\ Identity[sessions[r][k]].client = k
  /\ \A c \in Conns : sock[c] = "open" => Live(c)

\* A message is owed to sessions of its target that are not the origin.
OwedToTarget ==
  \A i \in DOMAIN sent :
    /\ sent[i].kind = "send" => sent[i].target \in Users
    /\ \A c \in sent[i].owed :
         /\ Identity[c].user = sent[i].target
         /\ Identity[c].client # Identity[sent[i].from].client
         /\ sock[c] # "new"

\* What waits is a frame that was sent: in the queue of its replica, or in the
\* envelope made of it.
QueuesFaithful ==
  /\ \A r \in Replicas : \A j \in DOMAIN pubs[r] :
       /\ pubs[r][j] \in DOMAIN sent
       /\ sent[pubs[r][j]].kind = "send"
       /\ Home(pubs[r][j]) = r
  /\ \A r \in Replicas : \A j \in DOMAIN inbox[r] :
       LET i == inbox[r][j].envelope.payload IN
         i \in DOMAIN sent /\ sent[i].kind = "send" /\ inbox[r][j] = EnvelopeOf(i)
  /\ \A c \in Conns : \A j \in DOMAIN got[c] : got[c][j].frame \in DOMAIN sent

\* Frames of one replica wait and travel in the order they were sent.
QueuesOrdered ==
  /\ \A r \in Replicas : \A j, k \in DOMAIN pubs[r] : j < k => pubs[r][j] < pubs[r][k]
  /\ \A r \in Replicas : \A j, k \in DOMAIN inbox[r] :
       LET a == inbox[r][j].envelope.payload
           b == inbox[r][k].envelope.payload
       IN  j < k /\ Home(a) = Home(b) => a < b
  /\ \A q, r \in Replicas : \A i, j \in DOMAIN sent :
       Carries(q, i) /\ Home(i) = r /\ Pending(r, j) => i < j

\* What a connection received is older than what is on its way to it, and a
\* rejected frame does not wait any more.
GotOlder ==
  \A c \in Conns : \A i, j \in DOMAIN sent :
    /\ Received(c, i) /\ Carries(Identity[c].replica, j) /\ Home(i) = Home(j) => i < j
    /\ \A r \in Replicas :
         /\ Received(c, i) /\ Home(i) = r /\ Pending(r, j) => i < j
         /\ Rejected(c, i) => ~Pending(r, i)

\* OnlyToTarget, with the client id of the origin.
NotEchoed ==
  \A c \in Conns : \A i \in DOMAIN sent : Received(c, i) =>
    /\ sent[i].kind = "send"
    /\ sent[i].target = Identity[c].user
    /\ Identity[sent[i].from].client # Identity[c].client

IInv ==
  /\ TypeOK /\ SessionsFiled /\ OwedToTarget /\ QueuesFaithful /\ QueuesOrdered
  /\ GotOlder /\ NotEchoed /\ InOrder /\ OwedDelivered /\ NackAnswers

-----------------------------------------------------------------------------
(* Queues.                                                                  *)

\* An element appended to a queue comes last.
LEMMA AppendFacts ==
  ASSUME NEW S, NEW q \in Seq(S), NEW e \in S
  PROVE  /\ Append(q, e) \in Seq(S)
         /\ Len(q) \in Nat
         /\ DOMAIN q = 1..Len(q)
         /\ DOMAIN Append(q, e) = 1..(Len(q) + 1)
         /\ \A j \in DOMAIN q : Append(q, e)[j] = q[j]
         /\ Append(q, e)[Len(q) + 1] = e
OBVIOUS

\* The oldest element leaves a queue and the others move up.
LEMMA TailFacts ==
  ASSUME NEW S, NEW q \in Seq(S), q # << >>
  PROVE  /\ Tail(q) \in Seq(S)
         /\ Len(q) \in Nat \ {0}
         /\ DOMAIN q = 1..Len(q)
         /\ DOMAIN Tail(q) = 1..(Len(q) - 1)
         /\ Head(q) = q[1] /\ q[1] \in S
         /\ \A j \in DOMAIN Tail(q) : j + 1 \in DOMAIN q /\ Tail(q)[j] = q[j + 1]
OBVIOUS

\* An item is known by its op and its frame.
LEMMA ItemFacts ==
  ASSUME NEW q \in Seq(Item), NEW j \in DOMAIN q
  PROVE  /\ q[j].op \in {"message", "error"}
         /\ q[j].frame \in 1..MaxFrames
         /\ q[j] = [op |-> q[j].op, frame |-> q[j].frame]
<1>1. q[j] \in Item
  OBVIOUS
<1> QED
  BY <1>1 DEF Item

\* The fields of a frame that was sent.
LEMMA FrameFacts ==
  ASSUME TypeOK, NEW i \in DOMAIN sent
  PROVE  /\ sent[i] \in Frame
         /\ sent[i].from \in Conns
         /\ sent[i].target \in Users \cup {Undefined}
         /\ sent[i].owed \subseteq Conns
         /\ Home(i) \in Replicas
         /\ Identity[sent[i].from].client \in Clients
         /\ i \in 1..MaxFrames
<1>1. sent[i] \in Frame /\ i \in 1..MaxFrames
  BY FanoutAssumption DEF TypeOK
<1>2. /\ sent[i].from \in Conns
      /\ sent[i].target \in Users \cup {Undefined}
      /\ sent[i].owed \subseteq Conns
  BY <1>1 DEF Frame
<1> QED
  BY <1>1, <1>2, FanoutAssumption DEF Home

\* Initially nothing is connected, sent or on its way.
LEMMA InitIInv == Init => IInv
<1> SUFFICES ASSUME Init PROVE IInv
  OBVIOUS
<1>1. TypeOK
  BY FanoutAssumption DEF Init, TypeOK
<1>2. SessionsFiled /\ OwedToTarget /\ QueuesFaithful
  BY DEF Init, SessionsFiled, OwedToTarget, QueuesFaithful
<1>3. QueuesOrdered /\ GotOlder /\ NotEchoed
  BY DEF Init, QueuesOrdered, GotOlder, NotEchoed
<1>4. InOrder /\ OwedDelivered /\ NackAnswers
  BY DEF Init, InOrder, OwedDelivered, NackAnswers
<1> QED
  BY <1>1, <1>2, <1>3, <1>4 DEF IInv

-----------------------------------------------------------------------------
(* Sockets and subscriptions.                                               *)

\* NackAnswers is about frames and what the sockets got.
LEMMA NackKept ==
  ASSUME NackAnswers, sent' = sent, got' = got
  PROVE  NackAnswers'
BY DEF NackAnswers

\* A step that touches no message keeps what is known of messages, if sessions
\* stay filed and no socket opens that was used before.
LEMMA SocketKeeps ==
  ASSUME IInv, TypeOK', SessionsFiled', UNCHANGED <<sent, pubs, inbox, got>>,
         \A c \in Conns : sock[c] # "new" =>
           sock'[c] # "new" /\ (sock'[c] = "open" => sock[c] = "open")
  PROVE  IInv'
<1>1. OwedToTarget'
  BY FrameFacts DEF IInv, OwedToTarget
<1>2. QueuesFaithful'
  BY DEF IInv, QueuesFaithful, Home, EnvelopeOf
<1>3. QueuesOrdered' /\ GotOlder'
  <2>1. \A i \in DOMAIN sent : Home(i)' = Home(i)
    BY DEF Home
  <2>2. \A i \in DOMAIN sent :
          /\ \A r \in Replicas : Pending(r, i)' = Pending(r, i)
          /\ \A r \in Replicas : Carries(r, i)' = Carries(r, i)
          /\ \A c \in Conns : Received(c, i)' = Received(c, i)
          /\ \A c \in Conns : Rejected(c, i)' = Rejected(c, i)
    BY DEF Pending, Carries, Received, Rejected
  <2>3. QueuesOrdered'
    BY <2>1, <2>2 DEF IInv, QueuesOrdered, Home
  <2> QED
    BY <2>1, <2>2, <2>3, FanoutAssumption DEF IInv, GotOlder, Home
<1>4. NotEchoed' /\ InOrder' /\ NackAnswers'
  <2>1. NotEchoed'
    BY DEF IInv, NotEchoed, Received
  <2>2. InOrder'
    BY DEF IInv, InOrder
  <2>3. NackAnswers'
    BY NackKept DEF IInv
  <2> QED
    BY <2>1, <2>2, <2>3
<1>5. OwedDelivered'
  <2> SUFFICES ASSUME NEW i \in DOMAIN sent, NEW c \in sent[i].owed, sock'[c] = "open"
               PROVE  Received(c, i)' \/ Carries(Identity[c].replica, i)'
    BY DEF OwedDelivered
  <2>1. c \in Conns
    BY FrameFacts DEF IInv
  <2>2. sock[c] = "open"
    BY <2>1 DEF IInv, OwedToTarget
  <2>3. Received(c, i) \/ Carries(Identity[c].replica, i)
    BY <2>2 DEF IInv, OwedDelivered
  <2> QED
    BY <2>3 DEF Received, Carries
<1> QED
  BY <1>1, <1>2, <1>3, <1>4, <1>5 DEF IInv

\* Setting one slot of the session maps.
LEMMA SlotFacts ==
  ASSUME NEW S, NEW m \in [Replicas -> [Clients -> S]],
         NEW r \in Replicas, NEW k \in Clients, NEW v \in S
  PROVE  LET n == [m EXCEPT ![r][k] = v] IN
         /\ n \in [Replicas -> [Clients -> S]]
         /\ n[r][k] = v
         /\ \A q \in Replicas, l \in Clients : q # r \/ l # k => n[q][l] = m[q][l]
<1>1. [m[r] EXCEPT ![k] = v] \in [Clients -> S]
  OBVIOUS
<1> QED
  BY <1>1

\* A release empties the session's slot, if it is still the session's.
LEMMA ReleasedFacts ==
  ASSUME TypeOK, NEW c \in Conns
  PROVE  /\ Released(c) \in [Replicas -> [Clients -> Conns \cup {Undefined}]]
         /\ \A q \in Replicas, l \in Clients :
              /\ sessions[q][l] # c => Released(c)[q][l] = sessions[q][l]
              /\ Released(c)[q][l] \in {sessions[q][l], Undefined}
<1> DEFINE r == Identity[c].replica
           k == Identity[c].client
           v == IF sessions[r][k] = c THEN Undefined ELSE sessions[r][k]
<1>1. r \in Replicas /\ k \in Clients
  BY FanoutAssumption
<1>2. v \in Conns \cup {Undefined}
  BY <1>1 DEF TypeOK
<1>3. Released(c) = [sessions EXCEPT ![r][k] = v]
  BY DEF Released
<1> HIDE DEF r, k, v
<1>4. /\ Released(c) \in [Replicas -> [Clients -> Conns \cup {Undefined}]]
      /\ Released(c)[r][k] = v
      /\ \A q \in Replicas, l \in Clients :
           q # r \/ l # k => Released(c)[q][l] = sessions[q][l]
  BY <1>1, <1>2, <1>3, SlotFacts DEF TypeOK
<1>5. v \in {sessions[r][k], Undefined} /\ (sessions[r][k] # c => v = sessions[r][k])
  BY DEF v
<1> QED
  BY <1>4, <1>5

\* Connects, closes and expiries.
LEMMA SessionStep ==
  ASSUME IInv, NEW c \in Conns,
         Connect(c) \/ PeerClose(c) \/ Expire(c) \/ CloseEvent(c)
  PROVE  IInv'
<1> DEFINE r == Identity[c].replica
           k == Identity[c].client
<1>1. \A d \in Conns :
        /\ Identity[d].replica \in Replicas /\ Identity[d].client \in Clients
        /\ d # Undefined
  BY FanoutAssumption
<1> USE DEF IInv
<1>2. UNCHANGED <<sent, pubs, inbox, got>>
  BY DEF Connect, PeerClose, Expire, CloseEvent
<1>3. sock' \in [Conns -> {"new", "open", "closing", "closed"}]
  BY DEF TypeOK, Connect, PeerClose, Expire, CloseEvent
<1>4. \A d \in Conns : sock[d] # "new" =>
        sock'[d] # "new" /\ (sock'[d] = "open" => sock[d] = "open")
  BY DEF TypeOK, Connect, PeerClose, Expire, CloseEvent
<1>5. /\ sessions' \in [Replicas -> [Clients -> Conns \cup {Undefined}]]
      /\ SessionsFiled'
  <2>1. CASE Connect(c)
    <3>1. /\ sessions' \in [Replicas -> [Clients -> Conns \cup {Undefined}]]
          /\ sessions'[r][k] = c
          /\ \A q \in Replicas, l \in Clients :
               q # r \/ l # k => sessions'[q][l] = sessions[q][l]
      BY <1>1, <2>1, SlotFacts DEF TypeOK, Connect
    <3>2. \A q \in Replicas, l \in Clients : sessions'[q][l] # Undefined =>
            Identity[sessions'[q][l]].replica = q /\ Identity[sessions'[q][l]].client = l
      BY <1>1, <3>1 DEF SessionsFiled
    <3>3. \A d \in Conns : sock'[d] = "open" => d = c \/ sock[d] = "open"
      BY <2>1 DEF Connect, TypeOK
    <3>4. \A d \in Conns : sock[d] = "open" => Live(d)'
      BY <1>1, <2>1, <3>1 DEF Connect, SessionsFiled, Live
    <3>5. Live(c)'
      BY <3>1 DEF Live
    <3> QED
      BY <3>1, <3>2, <3>3, <3>4, <3>5 DEF SessionsFiled
  <2>2. CASE PeerClose(c)
    BY <2>2 DEF TypeOK, PeerClose, SessionsFiled, Live
  <2>3. CASE Expire(c) \/ CloseEvent(c)
    <3>1. sessions' = Released(c)
      BY <2>3 DEF Expire, CloseEvent
    <3>2. \A d \in Conns : sock'[d] = "open" => d # c /\ Live(d)
      BY <2>3 DEF TypeOK, Expire, CloseEvent, SessionsFiled
    <3>3. \A d \in Conns : sock'[d] = "open" => Live(d)'
      BY <1>1, <3>1, <3>2, ReleasedFacts DEF Live
    <3>4. \A q \in Replicas, l \in Clients : sessions'[q][l] # Undefined =>
            Identity[sessions'[q][l]].replica = q /\ Identity[sessions'[q][l]].client = l
      BY <3>1, ReleasedFacts DEF SessionsFiled
    <3> QED
      BY <3>1, <3>3, <3>4, ReleasedFacts DEF SessionsFiled
  <2> QED
    BY <2>1, <2>2, <2>3
<1>6. TypeOK'
  BY <1>2, <1>3, <1>5 DEF TypeOK
<1> QED
  BY <1>2, <1>4, <1>5, <1>6, SocketKeeps

-----------------------------------------------------------------------------
(* Writing to sockets.                                                      *)

\* What the connections got, with e added at the end for each of conns.
Written(conns, e) ==
  /\ got' \in [Conns -> Seq(Item)]
  /\ \A c \in Conns : DOMAIN got[c] = 1..Len(got[c]) /\ Len(got[c]) \in Nat
  /\ \A c \in Conns : \A j \in DOMAIN got[c] :
       j \in DOMAIN got'[c] /\ got'[c][j] = got[c][j]
  /\ \A c \in Conns : \A j \in DOMAIN got'[c] :
       \/ j \in DOMAIN got[c]
       \/ c \in conns /\ j = Len(got[c]) + 1 /\ got'[c][j] = e
  /\ \A c \in conns : \E j \in DOMAIN got'[c] : got'[c][j] = e

\* A write does that.
LEMMA WriteFacts ==
  ASSUME TypeOK, NEW conns \in SUBSET Conns, NEW e \in Item, Write(conns, e)
  PROVE  Written(conns, e)
<1>1. \A c \in Conns : got[c] \in Seq(Item)
  BY DEF TypeOK
<1>2. \A c \in Conns : got'[c] = IF c \in conns THEN Append(got[c], e) ELSE got[c]
  BY DEF Write
<1>3. \A c \in Conns :
        /\ DOMAIN got[c] = 1..Len(got[c]) /\ Len(got[c]) \in Nat
        /\ Append(got[c], e) \in Seq(Item)
        /\ DOMAIN Append(got[c], e) = 1..(Len(got[c]) + 1)
        /\ \A j \in DOMAIN got[c] : Append(got[c], e)[j] = got[c][j]
        /\ Append(got[c], e)[Len(got[c]) + 1] = e
  BY <1>1, AppendFacts
<1>4. got' \in [Conns -> Seq(Item)]
  <2>1. got' = [c \in Conns |-> got'[c]]
    BY DEF Write
  <2> QED
    BY <1>1, <1>2, <1>3, <2>1
<1>5. ASSUME NEW c \in Conns, NEW j \in DOMAIN got[c]
      PROVE  j \in DOMAIN got'[c] /\ got'[c][j] = got[c][j]
  <2>1. j \in 1..(Len(got[c]) + 1)
    BY <1>3
  <2> QED
    BY <1>2, <1>3, <2>1
<1>6. ASSUME NEW c \in Conns, NEW j \in DOMAIN got'[c], j \notin DOMAIN got[c]
      PROVE  c \in conns /\ j = Len(got[c]) + 1 /\ got'[c][j] = e
  <2>1. c \in conns /\ got'[c] = Append(got[c], e)
    BY <1>2, <1>6
  <2>2. j = Len(got[c]) + 1
    BY <1>3, <1>6, <2>1
  <2> QED
    BY <1>3, <2>1, <2>2
<1>7. ASSUME NEW c \in conns
      PROVE  \E j \in DOMAIN got'[c] : got'[c][j] = e
  <2>1. c \in Conns /\ Len(got[c]) \in Nat /\ got'[c] = Append(got[c], e)
    BY <1>2, <1>3
  <2>2. Len(got[c]) + 1 \in 1..(Len(got[c]) + 1)
    BY <2>1
  <2>3. Len(got[c]) + 1 \in DOMAIN got'[c] /\ got'[c][Len(got[c]) + 1] = e
    BY <1>3, <2>1, <2>2
  <2> QED
    BY <2>3
<1> QED
  BY <1>3, <1>4, <1>5, <1>6, <1>7 DEF Written

\* A write of one kind changes what was received or what was rejected.
LEMMA WriteSets ==
  ASSUME TypeOK, NEW conns \in SUBSET Conns, NEW e \in Item, Write(conns, e)
  PROVE  \A c \in Conns, n \in 1..MaxFrames :
           /\ Received(c, n) => Received(c, n)'
           /\ Received(c, n)' =>
                Received(c, n) \/ (c \in conns /\ e = [op |-> "message", frame |-> n])
           /\ Rejected(c, n)' =>
                Rejected(c, n) \/ (c \in conns /\ e = [op |-> "error", frame |-> n])
           /\ c \in conns /\ e = [op |-> "message", frame |-> n] => Received(c, n)'
<1>1. /\ \A c \in Conns : \A j \in DOMAIN got[c] :
             j \in DOMAIN got'[c] /\ got'[c][j] = got[c][j]
      /\ \A c \in Conns : \A j \in DOMAIN got'[c] :
             \/ j \in DOMAIN got[c]
             \/ c \in conns /\ j = Len(got[c]) + 1 /\ got'[c][j] = e
      /\ \A c \in conns : \E j \in DOMAIN got'[c] : got'[c][j] = e
  <2>1. Written(conns, e)
    BY WriteFacts
  <2> QED
    BY <2>1 DEF Written
<1> SUFFICES ASSUME NEW c \in Conns, NEW n \in 1..MaxFrames
             PROVE  /\ Received(c, n) => Received(c, n)'
                    /\ Received(c, n)' => Received(c, n)
                         \/ (c \in conns /\ e = [op |-> "message", frame |-> n])
                    /\ Rejected(c, n)' => Rejected(c, n)
                         \/ (c \in conns /\ e = [op |-> "error", frame |-> n])
                    /\ c \in conns /\ e = [op |-> "message", frame |-> n] => Received(c, n)'
  OBVIOUS
<1>2. Received(c, n) => Received(c, n)'
  BY <1>1 DEF Received
<1>3. Received(c, n)' =>
        Received(c, n) \/ (c \in conns /\ e = [op |-> "message", frame |-> n])
  BY <1>1 DEF Received
<1>4. Rejected(c, n)' =>
        Rejected(c, n) \/ (c \in conns /\ e = [op |-> "error", frame |-> n])
  BY <1>1 DEF Rejected
<1>5. c \in conns /\ e = [op |-> "message", frame |-> n] => Received(c, n)'
  BY <1>1 DEF Received
<1> QED
  BY <1>2, <1>3, <1>4, <1>5

\* The frame of an item is the one received or rejected with it.
LEMMA ItemSets ==
  ASSUME TypeOK, NEW c \in Conns, NEW j \in DOMAIN got[c]
  PROVE  /\ got[c][j].op = "message" => Received(c, got[c][j].frame)
         /\ got[c][j].op = "error" => Rejected(c, got[c][j].frame)
<1>1. got[c] \in Seq(Item)
  BY DEF TypeOK
<1>2. got[c][j] = [op |-> got[c][j].op, frame |-> got[c][j].frame]
  BY <1>1, ItemFacts
<1> QED
  BY <1>2 DEF Received, Rejected

\* The open connections of a user on a replica, other than those of client id k.
OpenOf(r, u, k) ==
  {c \in Conns : /\ sock[c] = "open"
                 /\ Identity[c].replica = r
                 /\ Identity[c].user = u
                 /\ Identity[c].client # k}

\* They are whom a delivery reaches that excludes the client id k.
LEMMA TargetFacts ==
  ASSUME IInv, NEW r \in Replicas, NEW u \in Users, NEW k \in Clients
  PROVE  SendToLocalUser(r, u, k) = OpenOf(r, u, k)
<1>1. \A c \in Conns : /\ Identity[c].replica \in Replicas /\ Identity[c].client \in Clients
                       /\ c # Undefined
  BY FanoutAssumption
<1>2. ASSUME NEW c \in SendToLocalUser(r, u, k)
      PROVE  /\ c \in Conns /\ sock[c] = "open"
             /\ Identity[c].replica = r /\ Identity[c].user = u /\ Identity[c].client # k
  <2>1. PICK l \in Members(r, u) \ {k} : c \in Reached(r, l)
    BY DEF SendToLocalUser
  <2>2. l \in Clients /\ sessions[r][l] = c /\ c \in Conns /\ sock[c] = "open" /\ l # k
    BY <2>1 DEF Members, Reached
  <2>3. Identity[c].user = u
    BY <2>1, <2>2 DEF Members
  <2> QED
    BY <1>1, <2>2, <2>3 DEF IInv, SessionsFiled
<1>3. ASSUME NEW c \in Conns, sock[c] = "open", Identity[c].replica = r,
             Identity[c].user = u, Identity[c].client # k
      PROVE  c \in SendToLocalUser(r, u, k)
  <2>1. sessions[r][Identity[c].client] = c
    BY <1>3 DEF IInv, SessionsFiled, Live
  <2>2. Identity[c].client \in Members(r, u) \ {k}
    BY <1>1, <1>3, <2>1 DEF Members
  <2>3. c \in Reached(r, Identity[c].client)
    BY <1>3, <2>1 DEF Reached
  <2> QED
    BY <2>2, <2>3 DEF SendToLocalUser
<1> QED
  BY <1>2, <1>3 DEF OpenOf

\* A rejection reaches one session at most, of the sender's client id.
LEMMA NackFacts ==
  ASSUME IInv, NEW r \in Replicas, NEW k \in Clients
  PROVE  /\ Reached(r, k) \subseteq Conns
         /\ \A c \in Reached(r, k) : Identity[c].replica = r /\ Identity[c].client = k
         /\ \A c, d \in Reached(r, k) : c = d
<1>1. \A c \in Conns : c # Undefined
  BY FanoutAssumption
<1> QED
  BY <1>1 DEF IInv, SessionsFiled, Reached

-----------------------------------------------------------------------------
(* The delivery.                                                            *)

\* The message at the head of an inbox is the envelope of a frame that was sent.
LEMMA HeadFacts ==
  ASSUME IInv, NEW r \in Replicas, inbox[r] # << >>
  PROVE  LET i == Head(inbox[r]).envelope.payload IN
         /\ i \in DOMAIN sent
         /\ sent[i].kind = "send" /\ sent[i].target \in Users
         /\ Head(inbox[r]) = EnvelopeOf(i)
         /\ Head(inbox[r]).channel = sent[i].target
         /\ Head(inbox[r]).envelope.excludeClientId = Identity[sent[i].from].client
         /\ Carries(r, i)
<1> DEFINE i == Head(inbox[r]).envelope.payload
<1>1. inbox[r] \in Seq(Message)
  BY DEF IInv, TypeOK
<1>2. 1 \in DOMAIN inbox[r] /\ Head(inbox[r]) = inbox[r][1]
  BY <1>1, TailFacts
<1>3. i \in DOMAIN sent /\ sent[i].kind = "send" /\ Head(inbox[r]) = EnvelopeOf(i)
  BY <1>2 DEF IInv, QueuesFaithful
<1>4. Carries(r, i)
  BY <1>2 DEF Carries
<1>5. sent[i].target \in Users
  BY <1>3 DEF IInv, OwedToTarget
<1>6. /\ EnvelopeOf(i).channel = sent[i].target
      /\ EnvelopeOf(i).envelope.excludeClientId = Identity[sent[i].from].client
  BY DEF EnvelopeOf
<1> QED
  BY <1>3, <1>4, <1>5, <1>6

\* The head of an inbox leaves: what it carries is gone from this inbox, and
\* what stays is younger, if it came from the same replica.
LEMMA InboxTail ==
  ASSUME IInv, NEW r \in Replicas, inbox[r] # << >>,
         inbox' = [inbox EXCEPT ![r] = Tail(@)]
  PROVE  /\ inbox' \in [Replicas -> Seq(Message)]
         /\ \A q \in Replicas : \A j \in DOMAIN inbox'[q] :
              \E k \in DOMAIN inbox[q] : inbox'[q][j] = inbox[q][k]
         /\ \A q \in Replicas : \A j, k \in DOMAIN inbox'[q] : j < k =>
              \E a, b \in DOMAIN inbox[q] :
                a < b /\ inbox'[q][j] = inbox[q][a] /\ inbox'[q][k] = inbox[q][b]
         /\ \A q \in Replicas, n \in DOMAIN sent :
              /\ Carries(q, n)' => Carries(q, n)
              /\ Carries(q, n) =>
                   Carries(q, n)' \/ (q = r /\ n = Head(inbox[r]).envelope.payload)
              /\ Carries(r, n)' /\ Home(n) = Home(Head(inbox[r]).envelope.payload) =>
                   Head(inbox[r]).envelope.payload < n
<1>1. inbox \in [Replicas -> Seq(Message)] /\ inbox[r] \in Seq(Message)
  BY DEF IInv, TypeOK
<1>2. /\ Tail(inbox[r]) \in Seq(Message)
      /\ Len(inbox[r]) \in Nat \ {0}
      /\ DOMAIN inbox[r] = 1..Len(inbox[r])
      /\ DOMAIN Tail(inbox[r]) = 1..(Len(inbox[r]) - 1)
      /\ Head(inbox[r]) = inbox[r][1]
      /\ \A j \in DOMAIN Tail(inbox[r]) :
           j + 1 \in DOMAIN inbox[r] /\ Tail(inbox[r])[j] = inbox[r][j + 1]
  BY <1>1, TailFacts
<1>3. inbox' \in [Replicas -> Seq(Message)]
  BY <1>1, <1>2
<1>4. inbox'[r] = Tail(inbox[r]) /\ \A q \in Replicas \ {r} : inbox'[q] = inbox[q]
  BY <1>1
<1>5. \A q \in Replicas : \A j \in DOMAIN inbox'[q] :
        \E k \in DOMAIN inbox[q] : inbox'[q][j] = inbox[q][k]
  BY <1>2, <1>4
<1>6. ASSUME NEW q \in Replicas, NEW j \in DOMAIN inbox'[q], NEW k \in DOMAIN inbox'[q], j < k
      PROVE  \E a, b \in DOMAIN inbox[q] :
               a < b /\ inbox'[q][j] = inbox[q][a] /\ inbox'[q][k] = inbox[q][b]
  <2>1. CASE q = r
    <3>1. j \in DOMAIN Tail(inbox[r]) /\ k \in DOMAIN Tail(inbox[r])
      BY <1>4, <2>1
    <3>2. j \in Nat /\ k \in Nat
      BY <1>2, <3>1
    <3>3. j + 1 \in DOMAIN inbox[r] /\ k + 1 \in DOMAIN inbox[r] /\ j + 1 < k + 1
      BY <1>2, <1>6, <3>1, <3>2
    <3>4. inbox'[q][j] = inbox[q][j + 1] /\ inbox'[q][k] = inbox[q][k + 1]
      BY <1>2, <1>4, <2>1
    <3> QED
      BY <2>1, <3>3, <3>4
  <2> QED
    BY <1>4, <1>6, <2>1
<1>7. ASSUME NEW q \in Replicas, NEW n \in DOMAIN sent
      PROVE  /\ Carries(q, n)' => Carries(q, n)
             /\ Carries(q, n) =>
                  Carries(q, n)' \/ (q = r /\ n = Head(inbox[r]).envelope.payload)
             /\ Carries(r, n)' /\ Home(n) = Home(Head(inbox[r]).envelope.payload) =>
                  Head(inbox[r]).envelope.payload < n
  <2>1. Carries(q, n)' => Carries(q, n)
    BY <1>5 DEF Carries
  <2>2. Carries(r, n) => Carries(r, n)' \/ n = Head(inbox[r]).envelope.payload
    <3> SUFFICES ASSUME NEW k \in DOMAIN inbox[r], inbox[r][k].envelope.payload = n, k # 1
                 PROVE  Carries(r, n)'
      BY <1>2 DEF Carries
    <3>1. k - 1 \in DOMAIN Tail(inbox[r]) /\ (k - 1) + 1 = k
      BY <1>2
    <3>2. Tail(inbox[r])[k - 1] = inbox[r][k]
      BY <1>2, <3>1
    <3> QED
      BY <1>4, <3>1, <3>2 DEF Carries
  <2>3. q # r /\ Carries(q, n) => Carries(q, n)'
    BY <1>4 DEF Carries
  <2>4. Carries(r, n)' /\ Home(n) = Home(Head(inbox[r]).envelope.payload) =>
          Head(inbox[r]).envelope.payload < n
    <3> SUFFICES ASSUME NEW j \in DOMAIN Tail(inbox[r]),
                        Tail(inbox[r])[j].envelope.payload = n,
                        Home(n) = Home(Head(inbox[r]).envelope.payload)
                 PROVE  Head(inbox[r]).envelope.payload < n
      BY <1>4 DEF Carries
    <3>1. 1 \in DOMAIN inbox[r] /\ j + 1 \in DOMAIN inbox[r] /\ 1 < j + 1
      BY <1>2
    <3>2. inbox[r][j + 1].envelope.payload = n
      BY <1>2
    <3> QED
      BY <1>2, <3>1, <3>2 DEF IInv, QueuesOrdered
  <2> QED
    BY <2>1, <2>2, <2>3, <2>4
<1> QED
  BY <1>3, <1>5, <1>6, <1>7

\* A delivery.
LEMMA HandleStep ==
  ASSUME IInv, NEW r \in Replicas, HandleTopicMessage(r)
  PROVE  IInv'
<1> DEFINE i == Head(inbox[r]).envelope.payload
           e == [op |-> "message", frame |-> i]
           conns == SendToLocalUser(r, Head(inbox[r]).channel,
                                    Head(inbox[r]).envelope.excludeClientId)
<1>1. /\ inbox[r] # << >> /\ Write(conns, e)
      /\ inbox' = [inbox EXCEPT ![r] = Tail(@)]
      /\ UNCHANGED <<sock, sessions, sent, pubs>>
  BY DEF HandleTopicMessage
<1>2. /\ i \in DOMAIN sent /\ sent[i].kind = "send" /\ sent[i].target \in Users
      /\ Head(inbox[r]).channel = sent[i].target
      /\ Head(inbox[r]).envelope.excludeClientId = Identity[sent[i].from].client
      /\ Carries(r, i)
  BY <1>1, HeadFacts
<1>3. conns = {c \in Conns : /\ sock[c] = "open"
                             /\ Identity[c].replica = r
                             /\ Identity[c].user = sent[i].target
                             /\ Identity[c].client # Identity[sent[i].from].client}
  <2>1. Identity[sent[i].from].client \in Clients
    BY <1>2, FrameFacts DEF IInv
  <2>2. SendToLocalUser(r, sent[i].target, Identity[sent[i].from].client) =
          OpenOf(r, sent[i].target, Identity[sent[i].from].client)
    BY <1>2, <2>1, TargetFacts
  <2> QED
    BY <1>2, <2>2 DEF conns, OpenOf
<1>4. i \in 1..MaxFrames /\ e \in Item /\ conns \in SUBSET Conns
  <2>1. i \in 1..MaxFrames
    BY <1>2, FrameFacts DEF IInv
  <2> QED
    BY <1>3, <2>1 DEF Item
<1> HIDE DEF conns
<1>0. TypeOK
  BY DEF IInv
<1>5. /\ got' \in [Conns -> Seq(Item)]
      /\ \A c \in Conns : DOMAIN got[c] = 1..Len(got[c]) /\ Len(got[c]) \in Nat
      /\ \A c \in Conns : \A j \in DOMAIN got[c] :
           j \in DOMAIN got'[c] /\ got'[c][j] = got[c][j]
      /\ \A c \in Conns : \A j \in DOMAIN got'[c] :
           \/ j \in DOMAIN got[c]
           \/ c \in conns /\ j = Len(got[c]) + 1 /\ got'[c][j] = e
  <2>1. Written(conns, e)
    BY <1>0, <1>1, <1>4, WriteFacts
  <2> QED
    BY <2>1 DEF Written
<1>6. \A c \in Conns, n \in DOMAIN sent :
        /\ Received(c, n) => Received(c, n)'
        /\ Received(c, n)' => Received(c, n) \/ (c \in conns /\ n = i)
        /\ Rejected(c, n)' => Rejected(c, n)
        /\ c \in conns /\ n = i => Received(c, n)'
  <2>1. \A c \in Conns, n \in 1..MaxFrames :
          /\ Received(c, n) => Received(c, n)'
          /\ Received(c, n)' =>
               Received(c, n) \/ (c \in conns /\ e = [op |-> "message", frame |-> n])
          /\ Rejected(c, n)' =>
               Rejected(c, n) \/ (c \in conns /\ e = [op |-> "error", frame |-> n])
          /\ c \in conns /\ e = [op |-> "message", frame |-> n] => Received(c, n)'
    <3> HIDE DEF e
    <3> QED
      BY <1>0, <1>1, <1>4, WriteSets, Zenon
  <2>2. DOMAIN sent \subseteq 1..MaxFrames
    BY FrameFacts DEF IInv
  <2>3. \A n : /\ e = [op |-> "message", frame |-> n] <=> n = i
               /\ e # [op |-> "error", frame |-> n]
    OBVIOUS
  <2> HIDE DEF e, i
  <2> QED
    <3>1. \A n \in DOMAIN sent : n \in 1..MaxFrames
      BY <2>2
    <3> QED
      BY <2>1, <2>3, <3>1, Zenon
<1> HIDE DEF i, e
<1>7. /\ inbox' \in [Replicas -> Seq(Message)]
      /\ \A q \in Replicas : \A j \in DOMAIN inbox'[q] :
           \E k \in DOMAIN inbox[q] : inbox'[q][j] = inbox[q][k]
      /\ \A q \in Replicas : \A j, k \in DOMAIN inbox'[q] : j < k =>
           \E a, b \in DOMAIN inbox[q] :
             a < b /\ inbox'[q][j] = inbox[q][a] /\ inbox'[q][k] = inbox[q][b]
  BY <1>1, InboxTail
<1>8. \A q \in Replicas, n \in DOMAIN sent :
        /\ Carries(q, n)' => Carries(q, n)
        /\ Carries(q, n) => Carries(q, n)' \/ (q = r /\ n = i)
        /\ Carries(r, n)' /\ Home(n) = Home(i) => i < n
  BY <1>1, InboxTail DEF i
<1>9. \A n \in DOMAIN sent :
        Home(n)' = Home(n) /\ \A q \in Replicas : Pending(q, n)' = Pending(q, n)
  BY <1>1 DEF Home, Pending
<1>10. TypeOK' /\ SessionsFiled' /\ OwedToTarget'
  <2>1. TypeOK'
    BY <1>1, <1>5, <1>7 DEF IInv, TypeOK
  <2>2. SessionsFiled' /\ OwedToTarget'
    BY <1>1 DEF IInv, SessionsFiled, Live, OwedToTarget
  <2> QED
    BY <2>1, <2>2
<1>11. QueuesFaithful'
  <2>1. \A q \in Replicas : \A j \in DOMAIN inbox'[q] :
          LET n == inbox'[q][j].envelope.payload IN
            n \in DOMAIN sent /\ sent[n].kind = "send" /\ inbox'[q][j] = EnvelopeOf(n)
    BY <1>7 DEF IInv, QueuesFaithful
  <2>2. sent' = sent /\ pubs' = pubs
    BY <1>1
  <2>3. \A c \in Conns : \A j \in DOMAIN got'[c] : got'[c][j].frame \in DOMAIN sent'
    BY <1>2, <1>5, <2>2 DEF e, IInv, QueuesFaithful
  <2>4. \A q \in Replicas : \A j \in DOMAIN pubs[q] :
          /\ pubs[q][j] \in DOMAIN sent
          /\ sent[pubs[q][j]].kind = "send"
          /\ Identity[sent[pubs[q][j]].from].replica = q
    BY DEF IInv, QueuesFaithful, Home
  <2>5. \A q \in Replicas : \A j \in DOMAIN pubs'[q] :
          /\ pubs'[q][j] \in DOMAIN sent'
          /\ sent'[pubs'[q][j]].kind = "send"
          /\ Identity[sent'[pubs'[q][j]].from].replica = q
    BY <2>2, <2>4
  <2>6. ASSUME NEW q \in Replicas, NEW j \in DOMAIN inbox'[q]
        PROVE  LET n == inbox'[q][j].envelope.payload IN
               /\ n \in DOMAIN sent' /\ sent'[n].kind = "send"
               /\ inbox'[q][j] = [channel |-> sent'[n].target,
                    envelope |-> [payload |-> n,
                                  excludeClientId |-> Identity[sent'[n].from].client]]
    BY <2>1, <2>2 DEF EnvelopeOf
  <2> QED
    BY <2>3, <2>5, <2>6, Zenon DEF QueuesFaithful, Home, EnvelopeOf
<1>12. QueuesOrdered'
  <2>1. ASSUME NEW q \in Replicas, NEW j \in DOMAIN inbox'[q], NEW k \in DOMAIN inbox'[q],
               j < k, Identity[sent[inbox'[q][j].envelope.payload].from].replica =
                        Identity[sent[inbox'[q][k].envelope.payload].from].replica
        PROVE  inbox'[q][j].envelope.payload < inbox'[q][k].envelope.payload
    <3>1. PICK a \in DOMAIN inbox[q], b \in DOMAIN inbox[q] :
            a < b /\ inbox'[q][j] = inbox[q][a] /\ inbox'[q][k] = inbox[q][b]
      BY <1>7, <2>1
    <3>2. Home(inbox[q][a].envelope.payload) = Home(inbox[q][b].envelope.payload)
      BY <2>1, <3>1 DEF Home
    <3> QED
      BY <3>1, <3>2 DEF IInv, QueuesOrdered
  <2>2. \A p, q \in Replicas : \A a, b \in DOMAIN sent :
          Carries(p, a)' /\ Home(a)' = q /\ Pending(q, b)' => a < b
    BY <1>8, <1>9 DEF IInv, QueuesOrdered
  <2>3. \A q \in Replicas : \A j, k \in DOMAIN pubs[q] : j < k => pubs[q][j] < pubs[q][k]
    BY DEF IInv, QueuesOrdered
  <2> QED
    <3>1. \A q \in Replicas : \A j, k \in DOMAIN inbox'[q] :
            LET a == inbox'[q][j].envelope.payload
                b == inbox'[q][k].envelope.payload
            IN  j < k /\ Identity[sent'[a].from].replica = Identity[sent'[b].from].replica
                  => a < b
      <4>1. sent' = sent
        BY <1>1
      <4> QED
        BY <2>1, <4>1
    <3>2. \A p, q \in Replicas : \A a, b \in DOMAIN sent' :
            Carries(p, a)' /\ Home(a)' = q /\ Pending(q, b)' => a < b
      BY <1>1, <2>2, Zenon
    <3>3. \A q \in Replicas : \A j, k \in DOMAIN pubs'[q] : j < k => pubs'[q][j] < pubs'[q][k]
      BY <1>1, <2>3, Zenon
    <3> QED
      BY <3>1, <3>2, <3>3, Zenon DEF QueuesOrdered, Home
<1>13. \A c \in conns : c \in Conns /\ Identity[c].replica = r
  BY <1>3
<1>14. GotOlder'
  <2> SUFFICES ASSUME NEW c \in Conns, NEW a \in DOMAIN sent, NEW b \in DOMAIN sent
               PROVE  /\ Received(c, a)' /\ Carries(Identity[c].replica, b)'
                           /\ Home(a)' = Home(b)' => a < b
                      /\ \A q \in Replicas :
                           /\ Received(c, a)' /\ Home(a)' = q /\ Pending(q, b)' => a < b
                           /\ Rejected(c, a)' => ~Pending(q, a)'
    BY <1>1 DEF GotOlder
  <2>1. Identity[c].replica \in Replicas
    BY FanoutAssumption
  <2>2. Received(c, a)' /\ Carries(Identity[c].replica, b)' /\ Home(a)' = Home(b)' => a < b
    BY <1>6, <1>8, <1>9, <1>13, <2>1 DEF IInv, GotOlder
  <2>3. ASSUME NEW q \in Replicas
        PROVE  /\ Received(c, a)' /\ Home(a)' = q /\ Pending(q, b)' => a < b
               /\ Rejected(c, a)' => ~Pending(q, a)'
    <3>1. Received(c, a) /\ Home(a) = q /\ Pending(q, b) => a < b
      BY DEF IInv, GotOlder
    <3>2. Carries(r, i) /\ Home(i) = q /\ Pending(q, b) => i < b
      BY <1>2 DEF IInv, QueuesOrdered
    <3>3. Rejected(c, a) => ~Pending(q, a)
      BY DEF IInv, GotOlder
    <3> QED
      BY <1>2, <1>6, <1>9, <3>1, <3>2, <3>3
  <2> QED
    BY <2>2, <2>3
<1>15. NotEchoed'
  <2> SUFFICES ASSUME NEW c \in Conns, NEW n \in DOMAIN sent, Received(c, n)'
               PROVE  /\ sent[n].kind = "send"
                      /\ sent[n].target = Identity[c].user
                      /\ Identity[sent[n].from].client # Identity[c].client
    BY <1>1 DEF NotEchoed
  <2>1. CASE Received(c, n)
    BY <2>1 DEF IInv, NotEchoed
  <2>2. CASE c \in conns /\ n = i
    BY <1>2, <1>3, <2>2
  <2> QED
    BY <1>6, <2>1, <2>2
<1>16. InOrder'
  <2> SUFFICES ASSUME NEW c \in Conns, NEW j \in DOMAIN got'[c], NEW k \in DOMAIN got'[c],
                      j < k, got'[c][j].op = "message", got'[c][k].op = "message",
                      Identity[sent[got'[c][j].frame].from].replica =
                        Identity[sent[got'[c][k].frame].from].replica
               PROVE  got'[c][j].frame < got'[c][k].frame
    BY <1>1 DEF InOrder
  <2>1. CASE j \in DOMAIN got[c] /\ k \in DOMAIN got[c]
    <3>1. got'[c][j] = got[c][j] /\ got'[c][k] = got[c][k]
      BY <1>5, <2>1
    <3> QED
      BY <2>1, <3>1 DEF IInv, InOrder
  <2>2. CASE j \in DOMAIN got[c] /\ c \in conns /\ got'[c][k] = e
    <3>1. got'[c][j] = got[c][j]
      BY <1>5, <2>2
    <3>2. Received(c, got[c][j].frame) /\ got[c][j].frame \in DOMAIN sent
      BY <2>2, <3>1, ItemSets DEF IInv, QueuesFaithful
    <3>3. got'[c][k].frame = i
      BY <2>2 DEF e
    <3>4. Home(got[c][j].frame) = Home(i)
      BY <3>1, <3>3 DEF Home
    <3> QED
      BY <1>2, <1>13, <2>2, <3>1, <3>2, <3>3, <3>4 DEF IInv, GotOlder
  <2>3. j \in DOMAIN got[c]
    <3> SUFFICES ASSUME j \notin DOMAIN got[c] PROVE FALSE
      OBVIOUS
    <3>1. j = Len(got[c]) + 1
      BY <1>5
    <3>2. k \in DOMAIN got[c] \/ k = Len(got[c]) + 1
      BY <1>5
    <3>3. DOMAIN got[c] = 1..Len(got[c]) /\ Len(got[c]) \in Nat
      BY <1>5
    <3> QED
      BY <3>1, <3>2, <3>3
  <2> QED
    BY <1>5, <2>1, <2>2, <2>3
<1>17. OwedDelivered'
  <2> SUFFICES ASSUME NEW n \in DOMAIN sent, NEW c \in sent[n].owed, sock[c] = "open"
               PROVE  Received(c, n)' \/ Carries(Identity[c].replica, n)'
    BY <1>1 DEF OwedDelivered
  <2>1. c \in Conns /\ Identity[c].replica \in Replicas
    BY FrameFacts, FanoutAssumption DEF IInv
  <2>2. Received(c, n) \/ Carries(Identity[c].replica, n)
    BY DEF IInv, OwedDelivered
  <2>3. Identity[c].user = sent[n].target /\ Identity[c].client # Identity[sent[n].from].client
    BY DEF IInv, OwedToTarget
  <2>4. CASE Identity[c].replica = r /\ n = i
    <3>1. c \in conns
      BY <1>3, <2>1, <2>3, <2>4
    <3> QED
      BY <1>2, <1>6, <2>1, <2>4, <3>1
  <2> QED
    BY <1>6, <1>8, <2>1, <2>2, <2>4
<1>18. NackAnswers'
  <2>1. \A c \in Conns : \A j \in DOMAIN got'[c] : got'[c][j].op = "error" =>
          j \in DOMAIN got[c] /\ got'[c][j] = got[c][j]
    BY <1>5 DEF e
  <2>2. ASSUME NEW c \in Conns, NEW j \in DOMAIN got'[c], got'[c][j].op = "error",
               NEW d \in Conns, NEW k \in DOMAIN got'[d], got'[d][k] = got'[c][j]
        PROVE  d = c /\ k = j
    <3>1. /\ j \in DOMAIN got[c] /\ got'[c][j] = got[c][j]
          /\ k \in DOMAIN got[d] /\ got'[d][k] = got[d][k]
      BY <2>1, <2>2
    <3> QED
      BY <2>2, <3>1 DEF IInv, NackAnswers
  <2>3. \A c \in Conns : \A j \in DOMAIN got'[c] : got'[c][j].op = "error" =>
          /\ Identity[sent[got'[c][j].frame].from].client = Identity[c].client
          /\ Identity[sent[got'[c][j].frame].from].replica = Identity[c].replica
    <3>1. \A c \in Conns : \A j \in DOMAIN got[c] : got[c][j].op = "error" =>
            /\ Identity[sent[got[c][j].frame].from].client = Identity[c].client
            /\ Identity[sent[got[c][j].frame].from].replica = Identity[c].replica
      BY DEF IInv, NackAnswers
    <3> QED
      BY <2>1, <3>1
  <2>4. \A c \in Conns : \A j \in DOMAIN got'[c] : got'[c][j].op = "error" =>
          /\ Identity[sent'[got'[c][j].frame].from].client = Identity[c].client
          /\ Identity[sent'[got'[c][j].frame].from].replica = Identity[c].replica
    BY <1>1, <2>3
  <2> QED
    BY <2>2, <2>4, Zenon DEF NackAnswers
<1> QED
  BY <1>10, <1>11, <1>12, <1>14, <1>15, <1>16, <1>17, <1>18 DEF IInv

-----------------------------------------------------------------------------
(* The end of a publish.                                                    *)

\* The oldest waiting frame leaves its queue: the frames that stay are younger.
LEMMA PubsTail ==
  ASSUME IInv, NEW r \in Replicas, pubs[r] # << >>, NEW i, i = Head(pubs[r]),
         pubs' = [pubs EXCEPT ![r] = Tail(@)]
  PROVE  /\ i \in DOMAIN sent /\ sent[i].kind = "send" /\ sent[i].target \in Users
         /\ Home(i) = r
         /\ \A q \in Replicas : Pending(q, i) <=> q = r
         /\ pubs' \in [Replicas -> Seq(1..MaxFrames)]
         /\ \A q \in Replicas : \A j \in DOMAIN pubs'[q] :
              \E k \in DOMAIN pubs[q] : pubs'[q][j] = pubs[q][k]
         /\ \A q \in Replicas : \A j, k \in DOMAIN pubs'[q] :
              j < k => pubs'[q][j] < pubs'[q][k]
         /\ \A q \in Replicas, n \in DOMAIN sent :
              Pending(q, n)' => Pending(q, n) /\ (q = r => i < n)
<1>1. pubs \in [Replicas -> Seq(1..MaxFrames)] /\ pubs[r] \in Seq(1..MaxFrames)
  BY DEF IInv, TypeOK
<1>2. /\ Tail(pubs[r]) \in Seq(1..MaxFrames)
      /\ Len(pubs[r]) \in Nat \ {0}
      /\ DOMAIN pubs[r] = 1..Len(pubs[r])
      /\ DOMAIN Tail(pubs[r]) = 1..(Len(pubs[r]) - 1)
      /\ i = pubs[r][1]
      /\ \A j \in DOMAIN Tail(pubs[r]) :
           j + 1 \in DOMAIN pubs[r] /\ Tail(pubs[r])[j] = pubs[r][j + 1]
  BY <1>1, TailFacts
<1>3. pubs' \in [Replicas -> Seq(1..MaxFrames)]
  BY <1>1, <1>2
<1>4. pubs'[r] = Tail(pubs[r]) /\ \A q \in Replicas \ {r} : pubs'[q] = pubs[q]
  BY <1>1
<1>5. 1 \in DOMAIN pubs[r]
  BY <1>2
<1>6. i \in DOMAIN sent /\ sent[i].kind = "send" /\ Home(i) = r
  BY <1>2, <1>5 DEF IInv, QueuesFaithful
<1>7. sent[i].target \in Users
  BY <1>6 DEF IInv, OwedToTarget
<1>8. \A q \in Replicas : Pending(q, i) <=> q = r
  <2>1. Pending(r, i)
    BY <1>2, <1>5 DEF Pending
  <2>2. \A q \in Replicas : Pending(q, i) => Home(i) = q
    BY DEF Pending, IInv, QueuesFaithful
  <2> QED
    BY <1>6, <2>1, <2>2
<1>9. \A q \in Replicas : \A j \in DOMAIN pubs'[q] :
        \E k \in DOMAIN pubs[q] : pubs'[q][j] = pubs[q][k]
  BY <1>2, <1>4
<1>10. ASSUME NEW q \in Replicas, NEW j \in DOMAIN pubs'[q], NEW k \in DOMAIN pubs'[q], j < k
       PROVE  pubs'[q][j] < pubs'[q][k]
  <2>1. CASE q = r
    <3>1. j \in DOMAIN Tail(pubs[r]) /\ k \in DOMAIN Tail(pubs[r])
      BY <1>4, <2>1
    <3>2. j \in Nat /\ k \in Nat
      BY <1>2, <3>1
    <3>3. j + 1 \in DOMAIN pubs[r] /\ k + 1 \in DOMAIN pubs[r] /\ j + 1 < k + 1
      BY <1>2, <1>10, <3>1, <3>2
    <3>4. pubs[r][j + 1] < pubs[r][k + 1]
      BY <3>3 DEF IInv, QueuesOrdered
    <3> QED
      BY <1>2, <1>4, <2>1, <3>1, <3>4
  <2> QED
    BY <1>4, <1>10, <2>1 DEF IInv, QueuesOrdered
<1>11. ASSUME NEW q \in Replicas, NEW n \in DOMAIN sent, Pending(q, n)'
       PROVE  Pending(q, n) /\ (q = r => i < n)
  <2>1. Pending(q, n)
    BY <1>9, <1>11 DEF Pending
  <2>2. ASSUME q = r PROVE i < n
    <3>1. PICK j \in DOMAIN Tail(pubs[r]) : Tail(pubs[r])[j] = n
      BY <1>4, <1>11, <2>2 DEF Pending
    <3>2. j + 1 \in DOMAIN pubs[r] /\ 1 < j + 1 /\ pubs[r][j + 1] = n
      BY <1>2, <3>1
    <3> QED
      BY <1>2, <1>5, <3>2 DEF IInv, QueuesOrdered
  <2> QED
    BY <2>1, <2>2
<1> QED
  BY <1>3, <1>6, <1>7, <1>8, <1>9, <1>10, <1>11

\* PUBLISH, executed or not: frames keep what they are, the sessions the frame
\* is owed to are recorded, and the envelope comes last on the connections.
LEMMA BroadcastFacts ==
  ASSUME IInv, NEW i \in DOMAIN sent, sent[i].target \in Users,
         Broadcast(i) \/ UNCHANGED <<sent, inbox>>
  PROVE  /\ sent' \in Seq(Frame) /\ Len(sent') = Len(sent) /\ DOMAIN sent' = DOMAIN sent
         /\ \A n \in DOMAIN sent :
              /\ sent'[n].from = sent[n].from
              /\ sent'[n].kind = sent[n].kind
              /\ sent'[n].target = sent[n].target
              /\ sent'[n].owed = sent[n].owed \/ (n = i /\ sent'[n].owed \subseteq Owed(i, Replicas))
              /\ EnvelopeOf(n)' = EnvelopeOf(n) /\ Home(n)' = Home(n)
         /\ inbox' \in [Replicas -> Seq(Message)]
         /\ \A q \in Replicas : \A j \in DOMAIN inbox[q] :
              j \in DOMAIN inbox'[q] /\ inbox'[q][j] = inbox[q][j]
         /\ \A q \in Replicas : DOMAIN inbox[q] = 1..Len(inbox[q]) /\ Len(inbox[q]) \in Nat
         /\ \A q \in Replicas : \A j \in DOMAIN inbox'[q] :
              \/ j \in DOMAIN inbox[q]
              \/ j = Len(inbox[q]) + 1 /\ inbox'[q][j] = EnvelopeOf(i)
         /\ \A c \in sent'[i].owed : c \in sent[i].owed \/
              \E j \in DOMAIN inbox'[Identity[c].replica] :
                inbox'[Identity[c].replica][j] = EnvelopeOf(i)
<1> DEFINE m == EnvelopeOf(i)
<1>13. PICK R \in SUBSET Replicas :
         \/ UNCHANGED <<sent, inbox>>
         \/ /\ inbox' = [r \in Replicas |-> IF r \in R THEN Append(inbox[r], m)
                                                       ELSE inbox[r]]
            /\ sent' = [sent EXCEPT ![i].owed = Owed(i, R)]
  BY DEF Broadcast, Listening
<1> DEFINE Executed ==
      /\ inbox' = [r \in Replicas |-> IF r \in R THEN Append(inbox[r], m) ELSE inbox[r]]
      /\ sent' = [sent EXCEPT ![i].owed = Owed(i, R)]
<1>14. Executed \/ UNCHANGED <<sent, inbox>>
  BY <1>13
<1>1. sent \in Seq(Frame) /\ inbox \in [Replicas -> Seq(Message)]
  BY DEF IInv, TypeOK
<1>2. /\ sent[i] \in Frame /\ Owed(i, R) \in SUBSET Conns
      /\ i \in 1..MaxFrames /\ Identity[sent[i].from].client \in Clients
  BY FrameFacts DEF IInv, Owed
<1>3. m \in Message
  BY <1>2 DEF EnvelopeOf, Message, Envelope
<1>4. [sent[i] EXCEPT !.owed = Owed(i, R)] \in Frame
  BY <1>2 DEF Frame
<1>5. /\ sent' \in Seq(Frame) /\ Len(sent') = Len(sent) /\ DOMAIN sent' = DOMAIN sent
      /\ \A n \in DOMAIN sent :
           \/ sent'[n] = sent[n]
           \/ n = i /\ Executed /\ sent'[n] = [sent[i] EXCEPT !.owed = Owed(i, R)]
  <2>1. CASE Executed
    BY <1>1, <1>4, <2>1
  <2>2. CASE UNCHANGED <<sent, inbox>>
    BY <1>1, <2>2
  <2> QED
    BY <1>14, <2>1, <2>2
<1>6. \A n \in DOMAIN sent :
        /\ sent'[n].from = sent[n].from
        /\ sent'[n].kind = sent[n].kind
        /\ sent'[n].target = sent[n].target
        /\ \/ sent'[n].owed = sent[n].owed
           \/ n = i /\ Executed /\ sent'[n].owed = Owed(i, R)
  <2>1. \A n \in DOMAIN sent : sent[n] \in Frame
    BY <1>1
  <2> QED
    BY <1>5, <2>1 DEF Frame
<1>7. \A n \in DOMAIN sent : EnvelopeOf(n)' = EnvelopeOf(n) /\ Home(n)' = Home(n)
  BY <1>6 DEF EnvelopeOf, Home
<1> HIDE DEF m
<1>8. \A q \in Replicas :
        /\ DOMAIN inbox[q] = 1..Len(inbox[q]) /\ Len(inbox[q]) \in Nat
        /\ Append(inbox[q], m) \in Seq(Message)
        /\ DOMAIN Append(inbox[q], m) = 1..(Len(inbox[q]) + 1)
        /\ \A j \in DOMAIN inbox[q] : Append(inbox[q], m)[j] = inbox[q][j]
        /\ Append(inbox[q], m)[Len(inbox[q]) + 1] = m
  BY <1>1, <1>3, AppendFacts
<1>9. /\ \A q \in Replicas : inbox'[q] = inbox[q] \/ inbox'[q] = Append(inbox[q], m)
      /\ inbox' \in [Replicas -> Seq(Message)]
  <2>1. CASE Executed
    <3>1. inbox' = [r \in Replicas |-> IF r \in R THEN Append(inbox[r], m) ELSE inbox[r]]
      BY <2>1
    <3> QED
      BY <1>1, <1>8, <3>1
  <2>2. CASE UNCHANGED <<sent, inbox>>
    BY <1>1, <2>2
  <2> QED
    BY <1>14, <2>1, <2>2
<1>10. ASSUME NEW q \in Replicas, NEW j \in DOMAIN inbox[q]
       PROVE  j \in DOMAIN inbox'[q] /\ inbox'[q][j] = inbox[q][j]
  <2>1. j \in DOMAIN Append(inbox[q], m)
    BY <1>8
  <2> QED
    BY <1>8, <1>9, <2>1
<1>11. ASSUME NEW q \in Replicas, NEW j \in DOMAIN inbox'[q], j \notin DOMAIN inbox[q]
       PROVE  j = Len(inbox[q]) + 1 /\ inbox'[q][j] = m
  <2>1. inbox'[q] = Append(inbox[q], m)
    BY <1>9, <1>11
  <2>2. j = Len(inbox[q]) + 1
    BY <1>8, <1>11, <2>1
  <2> QED
    BY <1>8, <2>1, <2>2
<1>12. ASSUME NEW c \in sent'[i].owed, c \notin sent[i].owed
       PROVE  \E j \in DOMAIN inbox'[Identity[c].replica] :
                inbox'[Identity[c].replica][j] = m
  <2>1. Executed /\ c \in Owed(i, R)
    BY <1>6, <1>12
  <2>2. c \in Conns /\ Identity[c].replica \in R
    BY <2>1 DEF Owed
  <2>3. Identity[c].replica \in Replicas
    BY <2>2, FanoutAssumption
  <2>4. inbox'[Identity[c].replica] = Append(inbox[Identity[c].replica], m)
    BY <2>1, <2>2, <2>3
  <2>5. Len(inbox[Identity[c].replica]) + 1 \in DOMAIN Append(inbox[Identity[c].replica], m)
    BY <1>8, <2>3
  <2> QED
    BY <1>8, <2>3, <2>4, <2>5
<1>15. Owed(i, R) \subseteq Owed(i, Replicas)
  BY DEF Owed
<1> HIDE DEF Executed
<1> QED
  BY <1>5, <1>6, <1>7, <1>8, <1>9, <1>10, <1>11, <1>12, <1>15 DEF m

\* A rejection, sent or not: messages stay as they are, and the item comes last.
LEMMA NackWrite ==
  ASSUME IInv, NEW i \in 1..MaxFrames, NEW s \in Conns,
         SendNack(s, i) \/ UNCHANGED got
  PROVE  LET conns == Reached(Identity[s].replica, Identity[s].client)
             e == [op |-> "error", frame |-> i]
         IN  /\ got' \in [Conns -> Seq(Item)]
             /\ \A c \in Conns : \A j \in DOMAIN got'[c] :
                  \/ j \in DOMAIN got[c] /\ got'[c][j] = got[c][j]
                  \/ c \in conns /\ j = Len(got[c]) + 1 /\ got'[c][j] = e
             /\ \A c \in Conns, n \in 1..MaxFrames :
                  /\ Received(c, n)' <=> Received(c, n)
                  /\ Rejected(c, n)' => Rejected(c, n) \/ n = i
<1> DEFINE conns == Reached(Identity[s].replica, Identity[s].client)
           e == [op |-> "error", frame |-> i]
<1>1. CASE UNCHANGED got
  <2>1. got' \in [Conns -> Seq(Item)]
    BY <1>1 DEF IInv, TypeOK
  <2> QED
    BY <1>1, <2>1 DEF Received, Rejected
<1>2. CASE SendNack(s, i)
  <2>0. TypeOK
    BY DEF IInv
  <2>1. e \in Item /\ conns \in SUBSET Conns
    BY DEF Item, Reached
  <2>2. Write(conns, e)
    BY <1>2 DEF SendNack
  <2>3. \A n : /\ e = [op |-> "error", frame |-> n] <=> n = i
               /\ e # [op |-> "message", frame |-> n]
    OBVIOUS
  <2> HIDE DEF conns, e
  <2>4. /\ got' \in [Conns -> Seq(Item)]
        /\ \A c \in Conns : \A j \in DOMAIN got[c] :
             j \in DOMAIN got'[c] /\ got'[c][j] = got[c][j]
        /\ \A c \in Conns : \A j \in DOMAIN got'[c] :
             \/ j \in DOMAIN got[c]
             \/ c \in conns /\ j = Len(got[c]) + 1 /\ got'[c][j] = e
    BY <2>0, <2>1, <2>2, WriteFacts DEF Written
  <2>5. \A c \in Conns, n \in 1..MaxFrames :
          /\ Received(c, n) => Received(c, n)'
          /\ Received(c, n)' =>
               Received(c, n) \/ (c \in conns /\ e = [op |-> "message", frame |-> n])
          /\ Rejected(c, n)' =>
               Rejected(c, n) \/ (c \in conns /\ e = [op |-> "error", frame |-> n])
    BY <2>0, <2>1, <2>2, WriteSets, Zenon
  <2>6. \A c \in Conns, n \in 1..MaxFrames :
          /\ Received(c, n)' <=> Received(c, n)
          /\ Rejected(c, n)' => Rejected(c, n) \/ n = i
    BY <2>5, <2>3
  <2>7. \A c \in Conns : \A j \in DOMAIN got'[c] :
          \/ j \in DOMAIN got[c] /\ got'[c][j] = got[c][j]
          \/ c \in conns /\ j = Len(got[c]) + 1 /\ got'[c][j] = e
    BY <2>4, Zenon
  <2> QED
    BY <2>4, <2>6, <2>7, Zenon DEF conns, e
<1> QED
  BY <1>1, <1>2

\* The three ends of a publish.
LEMMA SettleStep ==
  ASSUME IInv, NEW r \in Replicas, Publish(r) \/ PublishFails(r) \/ PublishUnanswered(r)
  PROVE  IInv'
<1>1. PICK i : i = Head(pubs[r])
  OBVIOUS
<1>2. /\ pubs[r] # << >> /\ pubs' = [pubs EXCEPT ![r] = Tail(@)]
      /\ UNCHANGED <<sock, sessions>>
      /\ Broadcast(i) \/ UNCHANGED <<sent, inbox>>
      /\ SendNack(sent[i].from, i) \/ UNCHANGED got
  BY <1>1 DEF Publish, PublishFails, PublishUnanswered
<1>3. /\ i \in DOMAIN sent /\ sent[i].kind = "send" /\ sent[i].target \in Users
      /\ Home(i) = r
      /\ \A q \in Replicas : Pending(q, i) <=> q = r
      /\ pubs' \in [Replicas -> Seq(1..MaxFrames)]
      /\ \A q \in Replicas : \A j \in DOMAIN pubs'[q] :
           \E k \in DOMAIN pubs[q] : pubs'[q][j] = pubs[q][k]
      /\ \A q \in Replicas : \A j, k \in DOMAIN pubs'[q] :
           j < k => pubs'[q][j] < pubs'[q][k]
      /\ \A q \in Replicas, n \in DOMAIN sent :
           Pending(q, n)' => Pending(q, n) /\ (q = r => i < n)
  BY <1>1, <1>2, PubsTail
<1>4. /\ sent' \in Seq(Frame) /\ Len(sent') = Len(sent) /\ DOMAIN sent' = DOMAIN sent
      /\ \A n \in DOMAIN sent :
           /\ sent'[n].from = sent[n].from
           /\ sent'[n].kind = sent[n].kind
           /\ sent'[n].target = sent[n].target
           /\ sent'[n].owed = sent[n].owed \/ (n = i /\ sent'[n].owed \subseteq Owed(i, Replicas))
           /\ EnvelopeOf(n)' = EnvelopeOf(n) /\ Home(n)' = Home(n)
      /\ inbox' \in [Replicas -> Seq(Message)]
      /\ \A q \in Replicas : \A j \in DOMAIN inbox[q] :
           j \in DOMAIN inbox'[q] /\ inbox'[q][j] = inbox[q][j]
      /\ \A q \in Replicas : DOMAIN inbox[q] = 1..Len(inbox[q]) /\ Len(inbox[q]) \in Nat
      /\ \A q \in Replicas : \A j \in DOMAIN inbox'[q] :
           \/ j \in DOMAIN inbox[q]
           \/ j = Len(inbox[q]) + 1 /\ inbox'[q][j] = EnvelopeOf(i)
      /\ \A c \in sent'[i].owed : c \in sent[i].owed \/
           \E j \in DOMAIN inbox'[Identity[c].replica] :
             inbox'[Identity[c].replica][j] = EnvelopeOf(i)
  BY <1>2, <1>3, BroadcastFacts
<1>5. PICK conns, e, s :
        /\ conns = Reached(Identity[s].replica, Identity[s].client)
        /\ e = [op |-> "error", frame |-> i]
        /\ s = sent[i].from
  OBVIOUS
<1>6. /\ got' \in [Conns -> Seq(Item)]
      /\ \A c \in Conns : \A j \in DOMAIN got'[c] :
           \/ j \in DOMAIN got[c] /\ got'[c][j] = got[c][j]
           \/ c \in conns /\ j = Len(got[c]) + 1 /\ got'[c][j] = e
      /\ \A c \in Conns, n \in 1..MaxFrames :
           /\ Received(c, n)' <=> Received(c, n)
           /\ Rejected(c, n)' => Rejected(c, n) \/ n = i
  <2>1. s \in Conns /\ i \in 1..MaxFrames
    BY <1>3, <1>5, FrameFacts DEF IInv
  <2>2. SendNack(s, i) \/ UNCHANGED got
    BY <1>2, <1>5
  <2> QED
    BY <1>5, <2>1, <2>2, NackWrite
<1>7. \A n \in DOMAIN sent :
        n \in 1..MaxFrames /\ Home(n) \in Replicas /\ sent[n].from \in Conns
  BY FrameFacts DEF IInv
<1>8. EnvelopeOf(i).envelope.payload = i
  BY DEF EnvelopeOf
<1>9. \A q \in Replicas, n \in DOMAIN sent :
        /\ Carries(q, n)' => Carries(q, n) \/ n = i
        /\ Carries(q, n) => Carries(q, n)'
  BY <1>4, <1>8 DEF Carries
<1>10. /\ \A c \in conns : /\ c \in Conns /\ Identity[c].replica = r
                           /\ Identity[c].client = Identity[sent[i].from].client
       /\ \A c, d \in conns : c = d
  <2>1. Identity[s].client \in Clients /\ Identity[s].replica = r
    BY <1>3, <1>5, FrameFacts DEF IInv, Home
  <2> QED
    BY <1>5, <2>1, NackFacts
<1>11. /\ DOMAIN sent' = DOMAIN sent
       /\ \A n \in DOMAIN sent : /\ sent'[n].from = sent[n].from
                                 /\ sent'[n].kind = sent[n].kind
                                 /\ sent'[n].target = sent[n].target
  BY <1>4
<1>12. TypeOK' /\ SessionsFiled'
  <2>1. TypeOK'
    BY <1>2, <1>3, <1>4, <1>6 DEF IInv, TypeOK
  <2> QED
    BY <1>2, <2>1 DEF IInv, SessionsFiled, Live
<1>13. OwedToTarget'
  <2> SUFFICES ASSUME NEW n \in DOMAIN sent
               PROVE  /\ sent[n].kind = "send" => sent[n].target \in Users
                      /\ \A c \in sent'[n].owed :
                           /\ Identity[c].user = sent[n].target
                           /\ Identity[c].client # Identity[sent[n].from].client
                           /\ sock[c] # "new"
    BY <1>2, <1>11 DEF OwedToTarget
  <2>1. CASE sent'[n].owed = sent[n].owed
    BY <2>1 DEF IInv, OwedToTarget
  <2>2. CASE n = i /\ sent'[n].owed \subseteq Owed(i, Replicas)
    BY <1>3, <2>2 DEF Owed
  <2> QED
    BY <1>4, <2>1, <2>2
<1>14. QueuesFaithful'
  <2>1. \A q \in Replicas : \A j \in DOMAIN pubs'[q] :
          /\ pubs'[q][j] \in DOMAIN sent
          /\ sent[pubs'[q][j]].kind = "send"
          /\ Identity[sent[pubs'[q][j]].from].replica = q
    BY <1>3 DEF IInv, QueuesFaithful, Home
  <2>2. ASSUME NEW q \in Replicas, NEW j \in DOMAIN inbox'[q],
               NEW n, n = inbox'[q][j].envelope.payload
        PROVE  n \in DOMAIN sent /\ sent[n].kind = "send" /\ inbox'[q][j] = EnvelopeOf(n)
    <3>1. CASE j \in DOMAIN inbox[q]
      BY <1>4, <2>2, <3>1 DEF IInv, QueuesFaithful
    <3>2. CASE inbox'[q][j] = EnvelopeOf(i)
      BY <1>3, <1>8, <2>2, <3>2
    <3> QED
      BY <1>4, <3>1, <3>2
  <2>3. \A c \in Conns : \A j \in DOMAIN got'[c] : got'[c][j].frame \in DOMAIN sent
    BY <1>3, <1>5, <1>6 DEF IInv, QueuesFaithful
  <2>4. \A n \in DOMAIN sent : [channel |-> sent'[n].target,
             envelope |-> [payload |-> n,
                           excludeClientId |-> Identity[sent'[n].from].client]] = EnvelopeOf(n)
    BY <1>11 DEF EnvelopeOf
  <2>5. ASSUME NEW q \in Replicas, NEW j \in DOMAIN inbox'[q]
        PROVE  LET n == inbox'[q][j].envelope.payload IN
               /\ n \in DOMAIN sent' /\ sent'[n].kind = "send"
               /\ inbox'[q][j] = [channel |-> sent'[n].target,
                    envelope |-> [payload |-> n,
                                  excludeClientId |-> Identity[sent'[n].from].client]]
    <3> DEFINE n == inbox'[q][j].envelope.payload
    <3>1. n \in DOMAIN sent /\ sent[n].kind = "send" /\ inbox'[q][j] = EnvelopeOf(n)
      BY <2>2
    <3> HIDE DEF n
    <3>2. sent'[n].kind = "send" /\ n \in DOMAIN sent'
      BY <1>11, <3>1
    <3> QED
      BY <2>4, <3>1, <3>2 DEF n
  <2>6. \A q \in Replicas : \A j \in DOMAIN pubs'[q] :
          /\ pubs'[q][j] \in DOMAIN sent'
          /\ sent'[pubs'[q][j]].kind = "send"
          /\ Identity[sent'[pubs'[q][j]].from].replica = q
    BY <1>11, <2>1
  <2>7. \A c \in Conns : \A j \in DOMAIN got'[c] : got'[c][j].frame \in DOMAIN sent'
    BY <1>11, <2>3
  <2> QED
    BY <2>5, <2>6, <2>7, Zenon DEF QueuesFaithful, Home, EnvelopeOf
<1>15. QueuesOrdered'
  <2>1. ASSUME NEW q \in Replicas, NEW j \in DOMAIN inbox'[q], NEW k \in DOMAIN inbox'[q],
               j < k,
               Identity[sent'[inbox'[q][j].envelope.payload].from].replica =
                 Identity[sent'[inbox'[q][k].envelope.payload].from].replica
        PROVE  inbox'[q][j].envelope.payload < inbox'[q][k].envelope.payload
    <3>0. PICK a, b : a = inbox'[q][j].envelope.payload /\ b = inbox'[q][k].envelope.payload
      OBVIOUS
    <3> SUFFICES a < b
      BY <3>0
    <3>1. a \in DOMAIN sent /\ b \in DOMAIN sent
      BY <1>14, <1>11, <2>1, <3>0 DEF QueuesFaithful
    <3>2. Home(a) = Home(b)
      BY <1>11, <2>1, <3>0, <3>1 DEF Home
    <3>3. CASE j \in DOMAIN inbox[q] /\ k \in DOMAIN inbox[q]
      <4>1. a = inbox[q][j].envelope.payload /\ b = inbox[q][k].envelope.payload
        BY <1>4, <2>1, <3>0, <3>3
      <4> QED
        BY <2>1, <3>0, <3>2, <3>3, <4>1 DEF IInv, QueuesOrdered
    <3>4. CASE j \in DOMAIN inbox[q] /\ inbox'[q][k] = EnvelopeOf(i)
      <4>1. a = inbox[q][j].envelope.payload /\ b = i
        BY <1>4, <1>8, <2>1, <3>0, <3>4
      <4>2. Carries(q, a)
        BY <3>4, <4>1 DEF Carries
      <4> QED
        BY <1>3, <3>1, <3>2, <4>1, <4>2 DEF IInv, QueuesOrdered
    <3>5. j \in DOMAIN inbox[q]
      <4> SUFFICES ASSUME j \notin DOMAIN inbox[q] PROVE FALSE
        OBVIOUS
      <4>1. j = Len(inbox[q]) + 1 /\ (k \in DOMAIN inbox[q] \/ k = Len(inbox[q]) + 1)
        BY <1>4
      <4>2. DOMAIN inbox[q] = 1..Len(inbox[q]) /\ Len(inbox[q]) \in Nat
        BY <1>4
      <4>3. j < k
        BY <2>1, <3>0
      <4> QED
        BY <4>1, <4>2, <4>3
    <3> QED
      BY <1>4, <3>3, <3>4, <3>5
  <2>2. \A p, q \in Replicas : \A a, b \in DOMAIN sent' :
          Carries(p, a)' /\ Home(a)' = q /\ Pending(q, b)' => a < b
    <3> SUFFICES ASSUME NEW p \in Replicas, NEW a \in DOMAIN sent, NEW b \in DOMAIN sent,
                        NEW q \in Replicas, Carries(p, a)', Home(a) = q, Pending(q, b)'
                 PROVE  a < b
      BY <1>4
    <3>1. CASE Carries(p, a)
      BY <1>3, <3>1 DEF IInv, QueuesOrdered
    <3>2. CASE a = i
      BY <1>3, <3>2
    <3> QED
      BY <1>9, <3>1, <3>2
  <2>3. \A q \in Replicas : \A j, k \in DOMAIN pubs'[q] : j < k => pubs'[q][j] < pubs'[q][k]
    BY <1>3
  <2> QED
    BY <2>1, <2>2, <2>3, Zenon DEF QueuesOrdered, Home
<1>16. GotOlder'
  <2> SUFFICES ASSUME NEW c \in Conns, NEW a \in DOMAIN sent, NEW b \in DOMAIN sent
               PROVE  /\ Received(c, a)' /\ Carries(Identity[c].replica, b)'
                           /\ Home(a)' = Home(b)' => a < b
                      /\ \A q \in Replicas :
                           /\ Received(c, a)' /\ Home(a)' = q /\ Pending(q, b)' => a < b
                           /\ Rejected(c, a)' => ~Pending(q, a)'
    BY <1>11 DEF GotOlder
  <2>1. Identity[c].replica \in Replicas
    BY FanoutAssumption
  <2>2. Home(a)' = Home(a) /\ Home(b)' = Home(b)
    BY <1>4
  <2>3. /\ Received(c, a)' <=> Received(c, a)
        /\ Rejected(c, a)' => Rejected(c, a) \/ a = i
    BY <1>6, <1>7
  <2>4. Received(c, a) /\ Carries(Identity[c].replica, b)' /\ Home(a) = Home(b) => a < b
    <3>1. CASE b = i
      BY <1>3, <3>1 DEF IInv, GotOlder
    <3>2. CASE Carries(Identity[c].replica, b)
      BY <3>2 DEF IInv, GotOlder
    <3> QED
      BY <1>9, <2>1, <3>1, <3>2
  <2>5. ASSUME NEW q \in Replicas
        PROVE  /\ Received(c, a) /\ Home(a) = q /\ Pending(q, b)' => a < b
               /\ Rejected(c, a)' => ~Pending(q, a)'
    <3>1. Received(c, a) /\ Home(a) = q /\ Pending(q, b) => a < b
      BY DEF IInv, GotOlder
    <3>2. Rejected(c, a) => ~Pending(q, a)
      BY DEF IInv, GotOlder
    <3>3. ~Pending(q, i)'
      <4>1. Pending(q, i)' => q = r /\ i < i
        BY <1>3
      <4> QED
        BY <1>3, <1>7, <4>1
    <3>4. CASE a = i
      BY <1>3, <3>1, <3>3, <3>4
    <3> QED
      BY <1>3, <2>3, <3>1, <3>2, <3>4
  <2> QED
    BY <2>2, <2>3, <2>4, <2>5
<1>17. NotEchoed'
  <2> SUFFICES ASSUME NEW c \in Conns, NEW n \in DOMAIN sent, Received(c, n)'
               PROVE  /\ sent[n].kind = "send"
                      /\ sent[n].target = Identity[c].user
                      /\ Identity[sent[n].from].client # Identity[c].client
    BY <1>11 DEF NotEchoed
  <2>1. Received(c, n)
    BY <1>6, <1>7
  <2> QED
    BY <2>1 DEF IInv, NotEchoed
<1>18. \A c \in Conns : \A j \in DOMAIN got'[c] : got'[c][j].op = "message" =>
         j \in DOMAIN got[c] /\ got'[c][j] = got[c][j] /\ got[c][j].frame \in DOMAIN sent
  <2>1. e.op = "error"
    BY <1>5
  <2> QED
    BY <1>6, <2>1 DEF IInv, QueuesFaithful
<1>19. InOrder'
  <2> SUFFICES ASSUME NEW c \in Conns, NEW j \in DOMAIN got'[c], NEW k \in DOMAIN got'[c],
                      j < k, got'[c][j].op = "message", got'[c][k].op = "message",
                      Identity[sent'[got'[c][j].frame].from].replica =
                        Identity[sent'[got'[c][k].frame].from].replica
               PROVE  got'[c][j].frame < got'[c][k].frame
    BY DEF InOrder
  <2>1. /\ j \in DOMAIN got[c] /\ got'[c][j] = got[c][j] /\ got[c][j].frame \in DOMAIN sent
        /\ k \in DOMAIN got[c] /\ got'[c][k] = got[c][k] /\ got[c][k].frame \in DOMAIN sent
    BY <1>18
  <2>2. Identity[sent[got[c][j].frame].from].replica =
          Identity[sent[got[c][k].frame].from].replica
    BY <1>11, <2>1
  <2> QED
    BY <2>1, <2>2 DEF IInv, InOrder
<1>20. OwedDelivered'
  <2> SUFFICES ASSUME NEW n \in DOMAIN sent, NEW c \in sent'[n].owed, sock[c] = "open"
               PROVE  Received(c, n)' \/ Carries(Identity[c].replica, n)'
    BY <1>2, <1>11 DEF OwedDelivered
  <2>1. CASE c \in sent[n].owed
    <3>1. c \in Conns /\ Identity[c].replica \in Replicas
      BY <2>1, FrameFacts, FanoutAssumption DEF IInv
    <3>2. Received(c, n) \/ Carries(Identity[c].replica, n)
      BY <2>1 DEF IInv, OwedDelivered
    <3> QED
      BY <1>6, <1>7, <1>9, <3>1, <3>2
  <2>2. CASE c \notin sent[n].owed
    <3>1. n = i
      BY <1>4, <2>2
    <3>2. \E j \in DOMAIN inbox'[Identity[c].replica] :
            inbox'[Identity[c].replica][j] = EnvelopeOf(i)
      BY <1>4, <2>2, <3>1
    <3> QED
      BY <1>8, <3>1, <3>2 DEF Carries
  <2> QED
    BY <2>1, <2>2
<1>21. NackAnswers'
  <2>1. \A c \in Conns : \A j \in DOMAIN got[c] : got[c][j].frame \in DOMAIN sent
    BY DEF IInv, QueuesFaithful
  <2>2. \A c \in Conns : \A j \in DOMAIN got[c] : got[c][j] # e
    <3>1. \A c \in Conns : ~Rejected(c, i)
      BY <1>3 DEF IInv, GotOlder
    <3> QED
      BY <1>5, <3>1 DEF Rejected
  <2>3. ASSUME NEW c \in Conns, NEW j \in DOMAIN got'[c], got'[c][j].op = "error"
        PROVE  /\ Identity[sent'[got'[c][j].frame].from].client = Identity[c].client
               /\ Identity[sent'[got'[c][j].frame].from].replica = Identity[c].replica
    <3>1. CASE j \in DOMAIN got[c] /\ got'[c][j] = got[c][j]
      <4>1. sent'[got[c][j].frame].from = sent[got[c][j].frame].from
        BY <1>11, <2>1, <3>1
      <4> QED
        <5>1. got[c][j].op = "error"
          BY <2>3, <3>1
        <5>2. /\ Identity[sent[got[c][j].frame].from].client = Identity[c].client
              /\ Identity[sent[got[c][j].frame].from].replica = Identity[c].replica
          BY <3>1, <5>1 DEF IInv, NackAnswers
        <5> QED
          BY <3>1, <4>1, <5>2
    <3>2. CASE c \in conns /\ got'[c][j] = e
      <4>1. got'[c][j].frame = i
        BY <1>5, <3>2
      <4> QED
        BY <1>3, <1>10, <1>11, <3>2, <4>1 DEF Home
    <3> QED
      BY <1>6, <3>1, <3>2
  <2>4. ASSUME NEW c \in Conns, NEW j \in DOMAIN got'[c], got'[c][j].op = "error",
               NEW d \in Conns, NEW k \in DOMAIN got'[d], got'[d][k] = got'[c][j]
        PROVE  d = c /\ k = j
    <3>1. CASE got'[c][j] = e
      <4>1. c \in conns /\ j = Len(got[c]) + 1
        BY <1>6, <2>2, <3>1
      <4>2. d \in conns /\ k = Len(got[d]) + 1
        BY <1>6, <2>2, <2>4, <3>1
      <4> QED
        BY <1>10, <4>1, <4>2
    <3>2. CASE got'[c][j] # e
      <4>1. /\ j \in DOMAIN got[c] /\ got'[c][j] = got[c][j]
            /\ k \in DOMAIN got[d] /\ got'[d][k] = got[d][k]
        BY <1>6, <2>4, <3>2
      <4> QED
        BY <2>4, <4>1 DEF IInv, NackAnswers
    <3> QED
      BY <3>1, <3>2
  <2> QED
    BY <2>3, <2>4, Zenon DEF NackAnswers
<1> QED
  BY <1>12, <1>13, <1>14, <1>15, <1>16, <1>17, <1>19, <1>20, <1>21 DEF IInv

-----------------------------------------------------------------------------
(* A lost subscriber connection.                                            *)

LEMMA DropStep ==
  ASSUME IInv, NEW r \in Replicas, DropSubscriber(r)
  PROVE  IInv'
<1>1. /\ inbox' = [inbox EXCEPT ![r] = << >>]
      /\ sent' = [n \in DOMAIN sent |->
                    [sent[n] EXCEPT !.owed = {c \in @ : Identity[c].replica # r}]]
      /\ UNCHANGED <<sock, sessions, pubs, got>>
  BY DEF DropSubscriber
<1>2. sent \in Seq(Frame) /\ inbox \in [Replicas -> Seq(Message)] /\ Len(sent) <= MaxFrames
  BY DEF IInv, TypeOK
<1>3. \A n \in DOMAIN sent : sent[n] \in Frame
  BY <1>2
<1>4. /\ DOMAIN sent' = DOMAIN sent
      /\ \A n \in DOMAIN sent :
           /\ sent'[n].from = sent[n].from
           /\ sent'[n].kind = sent[n].kind
           /\ sent'[n].target = sent[n].target
           /\ sent'[n].owed = {c \in sent[n].owed : Identity[c].replica # r}
  BY <1>1, <1>3 DEF Frame
<1>5. sent' \in Seq(Frame) /\ Len(sent') = Len(sent)
  <2>1. \A n \in DOMAIN sent :
          [sent[n] EXCEPT !.owed = {c \in @ : Identity[c].replica # r}] \in Frame
    BY <1>3 DEF Frame
  <2>2. DOMAIN sent = 1..Len(sent) /\ Len(sent) \in Nat
    BY <1>2
  <2>3. sent' \in [1..Len(sent) -> Frame]
    BY <1>1, <2>1, <2>2
  <2> QED
    BY <2>2, <2>3
<1>6. /\ inbox' \in [Replicas -> Seq(Message)]
      /\ inbox'[r] = << >> /\ \A q \in Replicas \ {r} : inbox'[q] = inbox[q]
  BY <1>1, <1>2
<1>7. \A n \in DOMAIN sent : EnvelopeOf(n)' = EnvelopeOf(n) /\ Home(n)' = Home(n)
  BY <1>4 DEF EnvelopeOf, Home
<1>8. \A n : /\ \A q \in Replicas : Carries(q, n)' <=> (q # r /\ Carries(q, n))
             /\ \A q \in Replicas : Pending(q, n)' <=> Pending(q, n)
             /\ \A c \in Conns : Received(c, n)' <=> Received(c, n)
             /\ \A c \in Conns : Rejected(c, n)' <=> Rejected(c, n)
  BY <1>1, <1>6 DEF Carries, Pending, Received, Rejected
<1>9. TypeOK' /\ SessionsFiled'
  <2>1. TypeOK'
    BY <1>1, <1>2, <1>5, <1>6 DEF IInv, TypeOK
  <2> QED
    BY <1>1, <2>1 DEF IInv, SessionsFiled, Live
<1>10. OwedToTarget'
  <2>1. OwedToTarget /\ sock' = sock
    BY <1>1 DEF IInv
  <2>2. \A n \in DOMAIN sent : \A c \in sent'[n].owed : c \in sent[n].owed
    BY <1>4
  <2> SUFFICES ASSUME NEW n \in DOMAIN sent
               PROVE  /\ sent'[n].kind = "send" => sent'[n].target \in Users
                      /\ \A c \in sent'[n].owed :
                           /\ Identity[c].user = sent'[n].target
                           /\ Identity[c].client # Identity[sent'[n].from].client
                           /\ sock'[c] # "new"
    BY <1>4 DEF OwedToTarget
  <2>3. /\ sent'[n].from = sent[n].from
        /\ sent'[n].kind = sent[n].kind
        /\ sent'[n].target = sent[n].target
    BY <1>4
  <2> QED
    BY <2>1, <2>2, <2>3 DEF OwedToTarget
<1>11. QueuesFaithful'
  <2>1. ASSUME NEW q \in Replicas, NEW j \in DOMAIN inbox'[q]
        PROVE  LET n == inbox'[q][j].envelope.payload IN
               /\ n \in DOMAIN sent' /\ sent'[n].kind = "send"
               /\ inbox'[q][j] = [channel |-> sent'[n].target,
                    envelope |-> [payload |-> n,
                                  excludeClientId |-> Identity[sent'[n].from].client]]
    <3> DEFINE n == inbox[q][j].envelope.payload
    <3>1. q # r /\ inbox'[q] = inbox[q]
      BY <1>6
    <3>2. n \in DOMAIN sent /\ sent[n].kind = "send" /\ inbox[q][j] = EnvelopeOf(n)
      BY <3>1 DEF IInv, QueuesFaithful
    <3> HIDE DEF n
    <3>3. sent'[n].kind = "send" /\ n \in DOMAIN sent'
      BY <1>4, <3>2
    <3>4. EnvelopeOf(n) = [channel |-> sent'[n].target,
             envelope |-> [payload |-> n,
                           excludeClientId |-> Identity[sent'[n].from].client]]
      BY <1>4, <3>2 DEF EnvelopeOf
    <3> QED
      BY <3>1, <3>2, <3>3, <3>4 DEF n
  <2>2. \A q \in Replicas : \A j \in DOMAIN pubs[q] :
          /\ pubs[q][j] \in DOMAIN sent'
          /\ sent'[pubs[q][j]].kind = "send"
          /\ Identity[sent'[pubs[q][j]].from].replica = q
    BY <1>4 DEF IInv, QueuesFaithful, Home
  <2>3. \A c \in Conns : \A j \in DOMAIN got[c] : got[c][j].frame \in DOMAIN sent'
    BY <1>4 DEF IInv, QueuesFaithful
  <2>4. pubs' = pubs /\ got' = got
    BY <1>1
  <2> QED
    BY <2>1, <2>2, <2>3, <2>4 DEF QueuesFaithful, Home, EnvelopeOf
<1>12. QueuesOrdered'
  <2>1. ASSUME NEW q \in Replicas, NEW j \in DOMAIN inbox'[q], NEW k \in DOMAIN inbox'[q],
               j < k,
               Identity[sent'[inbox'[q][j].envelope.payload].from].replica =
                 Identity[sent'[inbox'[q][k].envelope.payload].from].replica
        PROVE  inbox'[q][j].envelope.payload < inbox'[q][k].envelope.payload
    <3>0. PICK a, b : a = inbox'[q][j].envelope.payload /\ b = inbox'[q][k].envelope.payload
      OBVIOUS
    <3> SUFFICES a < b
      BY <3>0
    <3>1. q # r /\ inbox'[q] = inbox[q]
      BY <1>6
    <3>2. a \in DOMAIN sent /\ b \in DOMAIN sent
      BY <2>1, <3>0, <3>1 DEF IInv, QueuesFaithful
    <3>3. Home(a) = Home(b)
      BY <1>4, <2>1, <3>0, <3>2 DEF Home
    <3> QED
      BY <2>1, <3>0, <3>1, <3>3 DEF IInv, QueuesOrdered
  <2>2. \A p, q \in Replicas : \A a, b \in DOMAIN sent' :
          Carries(p, a)' /\ Home(a)' = q /\ Pending(q, b)' => a < b
    BY <1>4, <1>7, <1>8 DEF IInv, QueuesOrdered
  <2>3. \A q \in Replicas : \A j, k \in DOMAIN pubs'[q] : j < k => pubs'[q][j] < pubs'[q][k]
    BY <1>1 DEF IInv, QueuesOrdered
  <2> QED
    BY <2>1, <2>2, <2>3, Zenon DEF QueuesOrdered, Home
<1>13. GotOlder' /\ NotEchoed'
  <2>1. \A c \in Conns : Identity[c].replica \in Replicas
    BY FanoutAssumption
  <2>2. GotOlder'
    BY <1>4, <1>7, <1>8, <2>1 DEF IInv, GotOlder
  <2>3. NotEchoed'
    <3> SUFFICES ASSUME NEW c \in Conns, NEW n \in DOMAIN sent, Received(c, n)
                 PROVE  /\ sent'[n].kind = "send"
                        /\ sent'[n].target = Identity[c].user
                        /\ Identity[sent'[n].from].client # Identity[c].client
      BY <1>4, <1>8 DEF NotEchoed
    <3> QED
      BY <1>4 DEF IInv, NotEchoed
  <2> QED
    BY <2>2, <2>3
<1>14. \A c \in Conns : \A j \in DOMAIN got[c] :
         sent'[got[c][j].frame].from = sent[got[c][j].frame].from
  BY <1>4 DEF IInv, QueuesFaithful
<1>15. InOrder' /\ NackAnswers'
  <2> DEFINE origin(c, j) == Identity[sent'[got[c][j].frame].from]
  <2>1. got' = got
    BY <1>1
  <2>2. InOrder'
    <3>1. \A c \in Conns : \A j, k \in DOMAIN got[c] :
            /\ j < k
            /\ got[c][j].op = "message" /\ got[c][k].op = "message"
            /\ origin(c, j).replica = origin(c, k).replica
            => got[c][j].frame < got[c][k].frame
      BY <1>14 DEF IInv, InOrder
    <3> QED
      BY <2>1, <3>1 DEF InOrder
  <2>3. NackAnswers'
    <3>1. \A c \in Conns : \A j \in DOMAIN got[c] : got[c][j].op = "error" =>
            /\ origin(c, j).client = Identity[c].client
            /\ origin(c, j).replica = Identity[c].replica
      <4> SUFFICES ASSUME NEW c \in Conns, NEW j \in DOMAIN got[c], got[c][j].op = "error"
                   PROVE  /\ origin(c, j).client = Identity[c].client
                          /\ origin(c, j).replica = Identity[c].replica
        OBVIOUS
      <4>1. /\ Identity[sent[got[c][j].frame].from].client = Identity[c].client
            /\ Identity[sent[got[c][j].frame].from].replica = Identity[c].replica
        BY DEF IInv, NackAnswers
      <4> QED
        BY <1>14, <4>1
    <3>2. \A c \in Conns : \A j \in DOMAIN got[c] : got[c][j].op = "error" =>
            \A d \in Conns : \A k \in DOMAIN got[d] :
              got[d][k] = got[c][j] => d = c /\ k = j
      BY DEF IInv, NackAnswers
    <3>3. \A c \in Conns : \A j \in DOMAIN got'[c] : got'[c][j].op = "error" =>
            /\ Identity[sent'[got'[c][j].frame].from].client = Identity[c].client
            /\ Identity[sent'[got'[c][j].frame].from].replica = Identity[c].replica
      BY <2>1, <3>1
    <3>4. \A c \in Conns : \A j \in DOMAIN got'[c] : got'[c][j].op = "error" =>
            \A d \in Conns : \A k \in DOMAIN got'[d] :
              got'[d][k] = got'[c][j] => d = c /\ k = j
      BY <2>1, <3>2
    <3> QED
      BY <3>3, <3>4, Zenon DEF NackAnswers
  <2> QED
    BY <2>2, <2>3
<1>16. OwedDelivered'
  <2> SUFFICES ASSUME NEW n \in DOMAIN sent, NEW c \in sent[n].owed,
                      Identity[c].replica # r, sock[c] = "open"
               PROVE  Received(c, n)' \/ Carries(Identity[c].replica, n)'
    <3>1. sock' = sock
      BY <1>1
    <3> QED
      BY <1>4, <3>1 DEF OwedDelivered
  <2>1. c \in Conns /\ Identity[c].replica \in Replicas
    BY FrameFacts, FanoutAssumption DEF IInv
  <2>2. Received(c, n) \/ Carries(Identity[c].replica, n)
    BY DEF IInv, OwedDelivered
  <2> QED
    BY <1>8, <2>1, <2>2
<1> QED
  BY <1>9, <1>10, <1>11, <1>12, <1>13, <1>15, <1>16 DEF IInv

-----------------------------------------------------------------------------
(* A frame that arrives.                                                    *)

\* A frame that is sent on names a target.
LEMMA ParseFacts ==
  ASSUME NEW raw \in Raw, ParseInboundFrame(raw).kind # "ignore"
  PROVE  /\ ParseInboundFrame(raw).kind \in {"invalid", "send"}
         /\ ParseInboundFrame(raw).target \in Users \cup {Undefined}
         /\ ParseInboundFrame(raw).kind = "send" => ParseInboundFrame(raw).target \in Users
BY DEF ParseInboundFrame, Raw

\* A frame that does not concern the server changes nothing.
LEMMA IgnoreStep ==
  ASSUME IInv, UNCHANGED vars
  PROVE  IInv'
<1>1. /\ UNCHANGED <<sent, pubs, inbox, got>> /\ UNCHANGED <<sock, sessions>>
      /\ \A c \in Conns : sock[c] # "new" =>
           sock'[c] # "new" /\ (sock'[c] = "open" => sock[c] = "open")
  BY DEF vars
<1>2. TypeOK' /\ SessionsFiled'
  BY <1>1 DEF IInv, TypeOK, SessionsFiled, Live
<1> QED
  BY <1>1, <1>2, SocketKeeps

LEMMA ReceiveStep ==
  ASSUME IInv, NEW s \in Conns, NEW raw \in Raw, Receive(s, raw)
  PROVE  IInv'
<1>1. PICK f, i, r : f = ParseInboundFrame(raw) /\ i = Len(sent) + 1
                     /\ r = Identity[s].replica
  OBVIOUS
<1>2. /\ i <= MaxFrames
      /\ \/ f.kind = "ignore" /\ UNCHANGED <<sent, pubs, got>>
         \/ /\ f.kind # "ignore"
            /\ sent' = Append(sent, [from |-> s, kind |-> f.kind,
                                     target |-> f.target, owed |-> {}])
            /\ \/ /\ f.kind = "send"
                  /\ pubs' = [pubs EXCEPT ![r] = Append(@, i)] /\ UNCHANGED got
               \/ SendNack(s, i) /\ UNCHANGED pubs
      /\ UNCHANGED <<sock, sessions, inbox>>
  BY <1>1 DEF Receive
<1>3. CASE UNCHANGED <<sent, pubs, got>>
  BY <1>2, <1>3, IgnoreStep DEF vars
<1>4. CASE /\ f.kind # "ignore"
           /\ sent' = Append(sent, [from |-> s, kind |-> f.kind,
                                    target |-> f.target, owed |-> {}])
           /\ \/ /\ f.kind = "send"
                 /\ pubs' = [pubs EXCEPT ![r] = Append(@, i)] /\ UNCHANGED got
              \/ SendNack(s, i) /\ UNCHANGED pubs
  <2>1. /\ sent \in Seq(Frame) /\ MaxFrames \in Nat
        /\ pubs \in [Replicas -> Seq(1..MaxFrames)]
        /\ r \in Replicas
    BY <1>1, FanoutAssumption DEF IInv, TypeOK
  <2>2. /\ i \in 1..MaxFrames /\ DOMAIN sent = 1..(i - 1)
        /\ i \notin DOMAIN sent /\ \A n \in DOMAIN sent : n < i
    BY <1>1, <1>2, <2>1
  <2>3. PICK g : g = [from |-> s, kind |-> f.kind, target |-> f.target, owed |-> {}]
    OBVIOUS
  <2>4. /\ g \in Frame /\ g.from = s /\ g.owed = {}
        /\ g.kind = f.kind
        /\ g.kind = "send" => g.target \in Users
    BY <1>1, <1>4, <2>3, ParseFacts DEF Frame
  <2>5. /\ sent' \in Seq(Frame) /\ Len(sent') = i /\ DOMAIN sent' = 1..i
        /\ DOMAIN sent' = DOMAIN sent \cup {i}
        /\ sent'[i] = g
        /\ \A n \in DOMAIN sent : sent'[n] = sent[n]
    <3>1. sent' = Append(sent, g)
      BY <1>4, <2>3
    <3> QED
      BY <1>1, <2>1, <2>2, <2>4, <3>1
  <2>6. \A n \in DOMAIN sent : n \in DOMAIN sent' /\ sent'[n] = sent[n]
    BY <2>5
  <2>7. \A n \in DOMAIN sent : EnvelopeOf(n)' = EnvelopeOf(n) /\ Home(n)' = Home(n)
    BY <2>6 DEF EnvelopeOf, Home
  <2>8. Home(i)' = r
    BY <1>1, <2>4, <2>5 DEF Home
  <2>9. \A n \in 1..MaxFrames : n \in DOMAIN sent \/
          /\ \A q \in Replicas : ~Carries(q, n) /\ ~Pending(q, n)
          /\ \A c \in Conns : ~Received(c, n) /\ ~Rejected(c, n)
    BY DEF IInv, QueuesFaithful, Carries, Pending, Received, Rejected
  <2>10. /\ pubs' \in [Replicas -> Seq(1..MaxFrames)]
         /\ \A q \in Replicas : DOMAIN pubs[q] = 1..Len(pubs[q]) /\ Len(pubs[q]) \in Nat
         /\ \A q \in Replicas : \A j \in DOMAIN pubs'[q] :
              \/ j \in DOMAIN pubs[q] /\ pubs'[q][j] = pubs[q][j]
              \/ q = r /\ j = Len(pubs[q]) + 1 /\ pubs'[q][j] = i
                  /\ f.kind = "send" /\ UNCHANGED got
    <3>1. \A q \in Replicas :
            /\ pubs[q] \in Seq(1..MaxFrames)
            /\ DOMAIN pubs[q] = 1..Len(pubs[q]) /\ Len(pubs[q]) \in Nat
            /\ Append(pubs[q], i) \in Seq(1..MaxFrames)
            /\ DOMAIN Append(pubs[q], i) = 1..(Len(pubs[q]) + 1)
            /\ \A j \in DOMAIN pubs[q] : Append(pubs[q], i)[j] = pubs[q][j]
            /\ Append(pubs[q], i)[Len(pubs[q]) + 1] = i
      <4>1. \A q \in Replicas : pubs[q] \in Seq(1..MaxFrames)
        BY <2>1
      <4> QED
        BY <2>2, <4>1, AppendFacts
    <3>2. CASE UNCHANGED pubs
      BY <2>1, <3>1, <3>2
    <3>3. CASE /\ f.kind = "send"
               /\ pubs' = [pubs EXCEPT ![r] = Append(@, i)] /\ UNCHANGED got
      <4>1. /\ pubs' \in [Replicas -> Seq(1..MaxFrames)]
            /\ pubs'[r] = Append(pubs[r], i)
            /\ \A q \in Replicas \ {r} : pubs'[q] = pubs[q]
        BY <2>1, <3>1, <3>3
      <4> QED
        BY <2>1, <3>1, <3>3, <4>1
    <3> QED
      BY <1>4, <3>2, <3>3
  <2>11. \A q \in Replicas, n \in 1..MaxFrames :
           Pending(q, n)' => Pending(q, n) \/ (q = r /\ n = i /\ UNCHANGED got)
    BY <2>10 DEF Pending
  <2>12. PICK conns, e :
           /\ conns = Reached(Identity[s].replica, Identity[s].client)
           /\ e = [op |-> "error", frame |-> i]
    OBVIOUS
  <2>13. /\ got' \in [Conns -> Seq(Item)]
         /\ \A c \in Conns : \A j \in DOMAIN got'[c] :
              \/ j \in DOMAIN got[c] /\ got'[c][j] = got[c][j]
              \/ c \in conns /\ j = Len(got[c]) + 1 /\ got'[c][j] = e
         /\ \A c \in Conns, n \in 1..MaxFrames :
              /\ Received(c, n)' <=> Received(c, n)
              /\ Rejected(c, n)' => Rejected(c, n) \/ n = i
    BY <1>4, <2>2, <2>12, NackWrite
  <2>14. /\ \A c \in conns : /\ c \in Conns /\ Identity[c].replica = r
                             /\ Identity[c].client = Identity[s].client
         /\ \A c, d \in conns : c = d
    <3>1. Identity[s].client \in Clients
      BY FanoutAssumption
    <3> QED
      BY <1>1, <2>1, <2>12, <3>1, NackFacts
  <2>15. inbox' = inbox /\ sock' = sock /\ sessions' = sessions
    BY <1>2
  <2>16. \A q \in Replicas, n \in 1..MaxFrames : Carries(q, n)' <=> Carries(q, n)
    BY <2>15 DEF Carries
  <2>17. TypeOK' /\ SessionsFiled'
    <3>1. TypeOK'
      BY <1>2, <2>5, <2>10, <2>13, <2>15 DEF IInv, TypeOK
    <3> QED
      BY <2>15, <3>1 DEF IInv, SessionsFiled, Live
  <2>18. OwedToTarget'
    <3> SUFFICES ASSUME NEW n \in DOMAIN sent'
                 PROVE  /\ sent'[n].kind = "send" => sent'[n].target \in Users
                        /\ \A c \in sent'[n].owed :
                             /\ Identity[c].user = sent'[n].target
                             /\ Identity[c].client # Identity[sent'[n].from].client
                             /\ sock[c] # "new"
      BY <2>15 DEF OwedToTarget
    <3>1. CASE n = i
      BY <2>4, <2>5, <3>1
    <3>2. CASE n \in DOMAIN sent
      BY <2>5, <3>2 DEF IInv, OwedToTarget
    <3> QED
      BY <2>5, <3>1, <3>2
  <2>19. QueuesFaithful'
    <3>1. ASSUME NEW q \in Replicas, NEW j \in DOMAIN inbox[q]
          PROVE  LET n == inbox[q][j].envelope.payload IN
                 /\ n \in DOMAIN sent' /\ sent'[n].kind = "send"
                 /\ inbox[q][j] = [channel |-> sent'[n].target,
                      envelope |-> [payload |-> n,
                                    excludeClientId |-> Identity[sent'[n].from].client]]
      <4>1. \A n : EnvelopeOf(n) = [channel |-> sent[n].target,
               envelope |-> [payload |-> n,
                             excludeClientId |-> Identity[sent[n].from].client]]
        BY DEF EnvelopeOf
      <4>2. /\ inbox[q][j].envelope.payload \in DOMAIN sent
            /\ sent[inbox[q][j].envelope.payload].kind = "send"
            /\ inbox[q][j] = EnvelopeOf(inbox[q][j].envelope.payload)
        BY DEF IInv, QueuesFaithful
      <4> QED
        BY <2>6, <4>1, <4>2
    <3>2. \A q \in Replicas : \A j \in DOMAIN pubs'[q] :
            /\ pubs'[q][j] \in DOMAIN sent'
            /\ sent'[pubs'[q][j]].kind = "send"
            /\ Identity[sent'[pubs'[q][j]].from].replica = q
      <4> SUFFICES ASSUME NEW q \in Replicas, NEW j \in DOMAIN pubs'[q]
                   PROVE  /\ pubs'[q][j] \in DOMAIN sent'
                          /\ sent'[pubs'[q][j]].kind = "send"
                          /\ Identity[sent'[pubs'[q][j]].from].replica = q
        OBVIOUS
      <4>1. CASE j \in DOMAIN pubs[q] /\ pubs'[q][j] = pubs[q][j]
        <5>1. /\ pubs[q][j] \in DOMAIN sent /\ sent[pubs[q][j]].kind = "send"
              /\ Identity[sent[pubs[q][j]].from].replica = q
          BY <4>1 DEF IInv, QueuesFaithful, Home
        <5> QED
          BY <2>6, <4>1, <5>1
      <4>2. CASE q = r /\ pubs'[q][j] = i /\ f.kind = "send"
        BY <1>1, <2>4, <2>5, <4>2
      <4> QED
        BY <2>10, <4>1, <4>2
    <3>3. \A c \in Conns : \A j \in DOMAIN got'[c] : got'[c][j].frame \in DOMAIN sent'
      <4>1. e.frame = i
        BY <2>12
      <4> QED
        BY <2>5, <2>13, <4>1 DEF IInv, QueuesFaithful
    <3>4. ASSUME NEW q \in Replicas, NEW j \in DOMAIN inbox'[q]
          PROVE  LET n == inbox'[q][j].envelope.payload IN
                 /\ n \in DOMAIN sent' /\ sent'[n].kind = "send"
                 /\ inbox'[q][j] = [channel |-> sent'[n].target,
                      envelope |-> [payload |-> n,
                                    excludeClientId |-> Identity[sent'[n].from].client]]
      BY <2>15, <3>1
    <3> QED
      BY <3>2, <3>3, <3>4, Zenon DEF QueuesFaithful, Home, EnvelopeOf
  <2>20. QueuesOrdered'
    <3>1. \A q \in Replicas : \A j, k \in DOMAIN inbox'[q] :
            LET a == inbox'[q][j].envelope.payload
                b == inbox'[q][k].envelope.payload
            IN  j < k /\ Identity[sent'[a].from].replica = Identity[sent'[b].from].replica
                  => a < b
      <4>1. \A q \in Replicas : \A j \in DOMAIN inbox[q] :
              LET a == inbox[q][j].envelope.payload IN
                a \in DOMAIN sent /\ sent'[a] = sent[a]
        BY <2>5 DEF IInv, QueuesFaithful
      <4>2. \A q \in Replicas : \A j, k \in DOMAIN inbox[q] :
              LET a == inbox[q][j].envelope.payload
                  b == inbox[q][k].envelope.payload
              IN  j < k /\ Identity[sent'[a].from].replica = Identity[sent'[b].from].replica
                    => a < b
        BY <4>1 DEF IInv, QueuesOrdered, Home
      <4> QED
        BY <2>15, <4>2
    <3>2. ASSUME NEW p \in Replicas, NEW q \in Replicas, NEW a \in DOMAIN sent',
                 NEW b \in DOMAIN sent', Carries(p, a)', Home(a)' = q, Pending(q, b)'
          PROVE  a < b
      <4>1. a \in 1..MaxFrames /\ b \in 1..MaxFrames
        BY <2>2, <2>5, FrameFacts DEF IInv
      <4>2. Carries(p, a) /\ a \in DOMAIN sent
        BY <2>9, <2>16, <3>2, <4>1
      <4>3. CASE b = i
        BY <2>2, <4>2, <4>3
      <4>4. CASE Pending(q, b)
        <5>1. b \in DOMAIN sent /\ Home(a) = q
          BY <2>7, <2>9, <3>2, <4>1, <4>2, <4>4
        <5> QED
          BY <4>2, <4>4, <5>1 DEF IInv, QueuesOrdered
      <4> QED
        BY <2>11, <3>2, <4>1, <4>3, <4>4
    <3>3. ASSUME NEW q \in Replicas, NEW j \in DOMAIN pubs'[q], NEW k \in DOMAIN pubs'[q],
                 j < k
          PROVE  pubs'[q][j] < pubs'[q][k]
      <4>1. CASE j \in DOMAIN pubs[q] /\ k \in DOMAIN pubs[q]
        <5>1. pubs'[q][j] = pubs[q][j] /\ pubs'[q][k] = pubs[q][k]
          BY <2>10, <4>1
        <5> QED
          BY <3>3, <4>1, <5>1 DEF IInv, QueuesOrdered
      <4>2. CASE j \in DOMAIN pubs[q] /\ k = Len(pubs[q]) + 1
        <5>1. pubs'[q][j] = pubs[q][j] /\ pubs'[q][k] = i
          BY <2>10, <4>2
        <5>2. pubs[q][j] \in DOMAIN sent
          BY <4>2 DEF IInv, QueuesFaithful
        <5> QED
          BY <2>2, <5>1, <5>2
      <4>3. /\ j \in DOMAIN pubs[q] \/ j = Len(pubs[q]) + 1
            /\ k \in DOMAIN pubs[q] \/ k = Len(pubs[q]) + 1
            /\ DOMAIN pubs[q] = 1..Len(pubs[q]) /\ Len(pubs[q]) \in Nat
        BY <2>10
      <4> QED
        BY <3>3, <4>1, <4>2, <4>3
    <3> QED
      BY <3>1, <3>2, <3>3, Zenon DEF QueuesOrdered, Home
  <2>21. GotOlder'
    <3> SUFFICES ASSUME NEW c \in Conns, NEW a \in DOMAIN sent', NEW b \in DOMAIN sent'
                 PROVE  /\ Received(c, a)' /\ Carries(Identity[c].replica, b)'
                             /\ Home(a)' = Home(b)' => a < b
                        /\ \A q \in Replicas :
                             /\ Received(c, a)' /\ Home(a)' = q /\ Pending(q, b)' => a < b
                             /\ Rejected(c, a)' => ~Pending(q, a)'
      BY DEF GotOlder
    <3>1. a \in 1..MaxFrames /\ b \in 1..MaxFrames /\ Identity[c].replica \in Replicas
      BY <2>2, <2>5, FrameFacts, FanoutAssumption DEF IInv
    <3>2. Received(c, a)' => Received(c, a) /\ a \in DOMAIN sent /\ Home(a)' = Home(a)
      BY <2>7, <2>9, <2>13, <3>1
    <3>3. Carries(Identity[c].replica, b)' =>
            Carries(Identity[c].replica, b) /\ b \in DOMAIN sent /\ Home(b)' = Home(b)
      BY <2>7, <2>9, <2>16, <3>1
    <3>4. Received(c, a)' /\ Carries(Identity[c].replica, b)' /\ Home(a)' = Home(b)' => a < b
      BY <3>2, <3>3 DEF IInv, GotOlder
    <3>5. ASSUME NEW q \in Replicas, Received(c, a)', Home(a)' = q, Pending(q, b)'
          PROVE  a < b
      <4>1. CASE b = i
        BY <2>2, <3>2, <3>5, <4>1
      <4>2. CASE Pending(q, b)
        <5>1. b \in DOMAIN sent
          BY <2>9, <3>1, <4>2
        <5> QED
          BY <3>2, <3>5, <4>2, <5>1 DEF IInv, GotOlder
      <4> QED
        BY <2>11, <3>1, <3>5, <4>1, <4>2
    <3>6. ASSUME NEW q \in Replicas, Rejected(c, a)', Pending(q, a)'
          PROVE  FALSE
      <4>1. CASE a \in DOMAIN sent
        <5>1. Rejected(c, a) /\ Pending(q, a)
          BY <2>2, <2>11, <2>13, <3>1, <3>6, <4>1
        <5> QED
          BY <4>1, <5>1 DEF IInv, GotOlder
      <4>2. CASE a = i
        <5>1. ~Pending(q, i) /\ ~Rejected(c, i)
          BY <2>2, <2>9
        <5>2. UNCHANGED got
          BY <2>11, <3>1, <3>6, <4>2, <5>1
        <5> QED
          BY <3>6, <4>2, <5>1, <5>2 DEF Rejected
      <4> QED
        BY <2>5, <4>1, <4>2
    <3> QED
      BY <3>4, <3>5, <3>6
  <2>22. NotEchoed'
    <3> SUFFICES ASSUME NEW c \in Conns, NEW n \in DOMAIN sent', Received(c, n)'
                 PROVE  /\ sent'[n].kind = "send"
                        /\ sent'[n].target = Identity[c].user
                        /\ Identity[sent'[n].from].client # Identity[c].client
      BY DEF NotEchoed
    <3>1. n \in 1..MaxFrames
      BY <2>2, <2>5, FrameFacts DEF IInv
    <3>2. Received(c, n) /\ n \in DOMAIN sent
      BY <2>9, <2>13, <3>1
    <3> QED
      BY <2>5, <3>2 DEF IInv, NotEchoed
  <2>23. \A c \in Conns : \A j \in DOMAIN got[c] :
           got[c][j].frame \in DOMAIN sent /\ sent'[got[c][j].frame] = sent[got[c][j].frame]
    BY <2>5 DEF IInv, QueuesFaithful
  <2>24. e.op = "error" /\ e.frame = i
    BY <2>12
  <2>25. InOrder'
    <3> SUFFICES ASSUME NEW c \in Conns, NEW j \in DOMAIN got'[c], NEW k \in DOMAIN got'[c],
                        j < k, got'[c][j].op = "message", got'[c][k].op = "message",
                        Identity[sent'[got'[c][j].frame].from].replica =
                          Identity[sent'[got'[c][k].frame].from].replica
                 PROVE  got'[c][j].frame < got'[c][k].frame
      BY DEF InOrder
    <3>1. /\ j \in DOMAIN got[c] /\ got'[c][j] = got[c][j]
          /\ k \in DOMAIN got[c] /\ got'[c][k] = got[c][k]
      BY <2>13, <2>24
    <3>2. Identity[sent[got[c][j].frame].from].replica =
            Identity[sent[got[c][k].frame].from].replica
      BY <2>23, <3>1
    <3> QED
      BY <3>1, <3>2 DEF IInv, InOrder
  <2>26. OwedDelivered'
    <3> SUFFICES ASSUME NEW n \in DOMAIN sent', NEW c \in sent'[n].owed, sock[c] = "open"
                 PROVE  Received(c, n)' \/ Carries(Identity[c].replica, n)'
      BY <2>15 DEF OwedDelivered
    <3>1. n \in DOMAIN sent /\ c \in sent[n].owed
      BY <2>4, <2>5
    <3>2. c \in Conns /\ n \in 1..MaxFrames /\ Identity[c].replica \in Replicas
      BY <3>1, FrameFacts, FanoutAssumption DEF IInv
    <3>3. Received(c, n) \/ Carries(Identity[c].replica, n)
      BY <3>1 DEF IInv, OwedDelivered
    <3> QED
      BY <2>13, <2>16, <3>2, <3>3
  <2>27. NackAnswers'
    <3>1. \A c \in Conns : \A j \in DOMAIN got[c] : got[c][j] # e
      BY <2>2, <2>23, <2>24
    <3>2. ASSUME NEW c \in Conns, NEW j \in DOMAIN got'[c], got'[c][j].op = "error"
          PROVE  /\ Identity[sent'[got'[c][j].frame].from].client = Identity[c].client
                 /\ Identity[sent'[got'[c][j].frame].from].replica = Identity[c].replica
      <4>1. CASE j \in DOMAIN got[c] /\ got'[c][j] = got[c][j]
        <5>1. got[c][j].op = "error"
          BY <3>2, <4>1
        <5>2. /\ Identity[sent[got[c][j].frame].from].client = Identity[c].client
              /\ Identity[sent[got[c][j].frame].from].replica = Identity[c].replica
          BY <4>1, <5>1 DEF IInv, NackAnswers
        <5> QED
          BY <2>23, <4>1, <5>2
      <4>2. CASE c \in conns /\ got'[c][j] = e
        BY <1>1, <2>4, <2>5, <2>14, <2>24, <4>2
      <4> QED
        BY <2>13, <4>1, <4>2
    <3>3. ASSUME NEW c \in Conns, NEW j \in DOMAIN got'[c], got'[c][j].op = "error",
                 NEW d \in Conns, NEW k \in DOMAIN got'[d], got'[d][k] = got'[c][j]
          PROVE  d = c /\ k = j
      <4>1. CASE got'[c][j] = e
        <5>1. c \in conns /\ j = Len(got[c]) + 1
          BY <2>13, <3>1, <4>1
        <5>2. d \in conns /\ k = Len(got[d]) + 1
          BY <2>13, <3>1, <3>3, <4>1
        <5> QED
          BY <2>14, <5>1, <5>2
      <4>2. CASE got'[c][j] # e
        <5>1. /\ j \in DOMAIN got[c] /\ got'[c][j] = got[c][j]
              /\ k \in DOMAIN got[d] /\ got'[d][k] = got[d][k]
          BY <2>13, <3>3, <4>2
        <5> QED
          BY <3>3, <5>1 DEF IInv, NackAnswers
      <4> QED
        BY <4>1, <4>2
    <3> QED
      BY <3>2, <3>3, Zenon DEF NackAnswers
  <2> QED
    BY <2>17, <2>18, <2>19, <2>20, <2>21, <2>22, <2>25, <2>26, <2>27 DEF IInv
<1> QED
  BY <1>2, <1>3, <1>4

-----------------------------------------------------------------------------
(* The theorems.                                                            *)

\* Every step keeps the inductive invariant.
LEMMA NextIInv == IInv /\ [Next]_vars => IInv'
<1> SUFFICES ASSUME IInv, [Next]_vars PROVE IInv'
  OBVIOUS
<1>1. ASSUME NEW c \in Conns, Connect(c) \/ PeerClose(c) \/ Expire(c) \/ CloseEvent(c)
      PROVE  IInv'
  BY <1>1, SessionStep
<1>2. ASSUME NEW c \in Conns, NEW raw \in Raw, Receive(c, raw)
      PROVE  IInv'
  BY <1>2, ReceiveStep
<1>4. ASSUME NEW r \in Replicas, Publish(r) \/ PublishFails(r) \/ PublishUnanswered(r)
      PROVE  IInv'
  BY <1>4, SettleStep
<1>5. ASSUME NEW r \in Replicas, HandleTopicMessage(r)
      PROVE  IInv'
  BY <1>5, HandleStep
<1>6. ASSUME NEW r \in Replicas, DropSubscriber(r)
      PROVE  IInv'
  BY <1>6, DropStep
<1>7. CASE UNCHANGED vars
  BY <1>7, IgnoreStep
<1> QED
  BY <1>1, <1>2, <1>4, <1>5, <1>6, <1>7 DEF Next

\* Messages, queues and sessions agree in every reachable state: the inductive
\* invariant of handleMessage, the publish and handleTopicMessage.
THEOREM Invariance == Spec => []IInv
  BY InitIInv, NextIInv, PTL DEF Spec

\* The state of the fan-out keeps its types: every envelope built from a frame
\* names a channel of a user and the client id of the frame's origin.
THEOREM TypeCorrect == Spec => []TypeOK
<1>1. IInv => TypeOK
  BY DEF IInv
<1> QED
  BY <1>1, Invariance, PTL

\* What sendToLocalUser writes belongs to the user the frame named and is no
\* echo to the connection that sent it.
THEOREM TargetOnly == Spec => []OnlyToTarget
<1>1. IInv => OnlyToTarget
  <2> SUFFICES ASSUME IInv, NEW c \in Conns, NEW j \in DOMAIN got[c],
                      got[c][j].op = "message"
               PROVE  /\ sent[got[c][j].frame].kind = "send"
                      /\ sent[got[c][j].frame].target = Identity[c].user
                      /\ sent[got[c][j].frame].from # c
    BY DEF OnlyToTarget
  <2>1. Received(c, got[c][j].frame) /\ got[c][j].frame \in DOMAIN sent
    BY ItemSets DEF IInv, QueuesFaithful
  <2> QED
    BY <2>1 DEF IInv, NotEchoed
<1> QED
  BY <1>1, Invariance, PTL

\* Messages of one replica reach a session in the order handleMessage took
\* them, and none reaches it twice.
THEOREM OrderKept == Spec => []InOrder
<1>1. IInv => InOrder
  BY DEF IInv
<1> QED
  BY <1>1, Invariance, PTL

\* A published message is not lost to a session that was open behind a
\* subscribed channel, but with its socket or its subscriber connection.
THEOREM OwedArrives == Spec => []OwedDelivered
<1>1. IInv => OwedDelivered
  BY DEF IInv
<1> QED
  BY <1>1, Invariance, PTL

\* sendNack answers the client id and replica of the frame, once at most.
THEOREM NackOnce == Spec => []NackAnswers
<1>1. IInv => NackAnswers
  BY DEF IInv
<1> QED
  BY <1>1, Invariance, PTL
=============================================================================
