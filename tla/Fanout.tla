------------------------------- MODULE Fanout -------------------------------
(***************************************************************************)
(* Messages between users across replicas: handleMessage, sendToUser,      *)
(* sendToLocalUser, sendToClient and sendNack of WsService, the frame and  *)
(* envelope formats (session.interface.ts, user-topic.message.ts) and      *)
(* UserTopicService.handleTopicMessage.                                    *)
(*                                                                         *)
(* Of the session registry the module keeps what IndexAgrees and           *)
(* ReleasedForCause of SessionRegistry guarantee: a map from client ids to *)
(* sessions per replica, whose user index is the map seen by user.  Of     *)
(* UserTopics it keeps that a replica may listen on the channel of a user  *)
(* who has connected to it, with one listener: subscriptions come and go   *)
(* at any time, so that any of those replicas may be the ones that listen  *)
(* when a message is published.  Redis and its client library are          *)
(* external: the shared client sends PUBLISH commands in order, and the    *)
(* subscriber connection receives messages in the order Redis executed     *)
(* them.                                                                   *)
(***************************************************************************)
EXTENDS Naturals, Sequences, FiniteSets

CONSTANTS
  Replicas, Users, Clients, Conns,
  Identity,    \* Identity[c]: user, client id and replica of connection c
  Undefined,
  Senders,     \* bound: the connections whose clients send frames
  MaxFrames    \* bound: frames the clients ever send

ASSUME FanoutAssumption ==
  /\ Identity \in [Conns -> [user : Users, client : Clients, replica : Replicas]]
  /\ Undefined \notin Users \cup Conns
  /\ MaxFrames \in Nat

VARIABLES
  sock,      \* sock[c]: "new", or the readyState of c's socket
  sessions,  \* sessions[r]: WsService.sessions of replica r
  sent,      \* the frames received from clients and not ignored, in order
  pubs,      \* pubs[r]: frames whose PUBLISH by r awaits its answer
  inbox,     \* inbox[r]: messages on r's subscriber connection
  got        \* got[c]: what was sent to c's socket, in order

vars == <<sock, sessions, sent, pubs, inbox, got>>

\* owed is a history: the sessions a published frame has to reach.
Frame == [from : Conns, kind : {"invalid", "send"},
          target : Users \cup {Undefined}, owed : SUBSET Conns]

Envelope == [payload : 1..MaxFrames, excludeClientId : Clients]

Message == [channel : Users, envelope : Envelope]

Item == [op : {"message", "error"}, frame : 1..MaxFrames]

TypeOK ==
  /\ sock \in [Conns -> {"new", "open", "closing", "closed"}]
  /\ sessions \in [Replicas -> [Clients -> Conns \cup {Undefined}]]
  /\ sent \in Seq(Frame) /\ Len(sent) <= MaxFrames
  /\ pubs \in [Replicas -> Seq(1..MaxFrames)]
  /\ inbox \in [Replicas -> Seq(Message)]
  /\ got \in [Conns -> Seq(Item)]

Init ==
  /\ sock = [c \in Conns |-> "new"]
  /\ sessions = [r \in Replicas |-> [k \in Clients |-> Undefined]]
  /\ sent = << >>
  /\ pubs = [r \in Replicas |-> << >>]
  /\ inbox = [r \in Replicas |-> << >>]
  /\ got = [c \in Conns |-> << >>]

-----------------------------------------------------------------------------
(* Sending to sockets.                                                      *)

Live(c) == sessions[Identity[c].replica][Identity[c].client] = c

\* sendToClient: the sessions a payload for client k of r is written to.
Reached(r, k) == {c \in Conns : sessions[r][k] = c /\ sock[c] = "open"}

\* Mutant of Members: the sessions of every user.
MembersOfAnyUser(r, u) == {k \in Clients : sessions[r][k] # Undefined}

\* The user index of r, which is the session map seen by user.
Members(r, u) ==
  {k \in Clients : sessions[r][k] # Undefined /\ Identity[sessions[r][k]].user = u}

\* Mutant of SendToLocalUser: the origin is not skipped.
SendToLocalUserEchoing(r, u, exclude) ==
  UNION {Reached(r, k) : k \in Members(r, u)}

\* sendToLocalUser: every session of u on r, but the origin's client id.
SendToLocalUser(r, u, exclude) ==
  UNION {Reached(r, k) : k \in Members(r, u) \ {exclude}}

Write(conns, item) ==
  got' = [c \in Conns |-> IF c \in conns THEN Append(got[c], item) ELSE got[c]]

\* sendNack addresses the sender by its client id, after an await perhaps.
SendNack(c, i) ==
  Write(Reached(Identity[c].replica, Identity[c].client),
        [op |-> "error", frame |-> i])

-----------------------------------------------------------------------------
(* The registry, as far as messages depend on it.                           *)

Connect(c) ==
  /\ sock[c] = "new"
  /\ sessions[Identity[c].replica][Identity[c].client] = Undefined
  /\ sock' = [sock EXCEPT ![c] = "open"]
  /\ sessions' = [sessions EXCEPT ![Identity[c].replica][Identity[c].client] = c]
  /\ UNCHANGED <<sent, pubs, inbox, got>>

PeerClose(c) ==
  /\ sock[c] = "open"
  /\ sock' = [sock EXCEPT ![c] = "closing"]
  /\ UNCHANGED <<sessions, sent, pubs, inbox, got>>

Released(c) ==
  [sessions EXCEPT ![Identity[c].replica][Identity[c].client] =
     IF @ = c THEN Undefined ELSE @]

\* handleExpiry: the session is released and its socket terminated.
Expire(c) ==
  /\ Live(c)
  /\ sessions' = Released(c)
  /\ sock' = [sock EXCEPT ![c] = "closing"]
  /\ UNCHANGED <<sent, pubs, inbox, got>>

CloseEvent(c) ==
  /\ sock[c] = "closing"
  /\ sessions' = Released(c)
  /\ sock' = [sock EXCEPT ![c] = "closed"]
  /\ UNCHANGED <<sent, pubs, inbox, got>>

-----------------------------------------------------------------------------
(* A frame from a client.                                                   *)

\* A socket payload: what JSON.parse and the field checks can tell of it.
Raw == [json : BOOLEAN, object : BOOLEAN, op : {"sendMessage", "other"},
        target : Users \cup {Undefined}, message : BOOLEAN]

ParseInboundFrame(raw) ==
  IF ~raw.json \/ ~raw.object \/ raw.op # "sendMessage"
  THEN [kind |-> "ignore", target |-> Undefined]
  ELSE IF raw.target = Undefined THEN [kind |-> "invalid", target |-> Undefined]
  ELSE IF ~raw.message THEN [kind |-> "ignore", target |-> Undefined]
  ELSE [kind |-> "send", target |-> raw.target]

CanSendTo(sender, target) == TRUE

\* handleMessage up to its await.  Its listener stays on the socket after the
\* session is released, so the guard asks for the socket and no more.
Receive(c, raw) ==
  LET f == ParseInboundFrame(raw)
      i == Len(sent) + 1
      r == Identity[c].replica
  IN  /\ c \in Senders
      /\ sock[c] \in {"open", "closing"}
      /\ i <= MaxFrames
      /\ \/ f.kind = "ignore" /\ UNCHANGED <<sent, pubs, got>>
         \/ /\ f.kind # "ignore"
            /\ sent' = Append(sent, [from |-> c, kind |-> f.kind,
                                     target |-> f.target, owed |-> {}])
            /\ IF f.kind = "send" /\ CanSendTo(Identity[c].user, f.target)
               THEN pubs' = [pubs EXCEPT ![r] = Append(@, i)] /\ UNCHANGED got
               ELSE SendNack(c, i) /\ UNCHANGED pubs
      /\ UNCHANGED <<sock, sessions, inbox>>

-----------------------------------------------------------------------------
(* The publish, and the answer to it.                                       *)

\* Mutant of EnvelopeOf: the origin is not passed on.
EnvelopeOfAnonymous(i) ==
  [channel |-> sent[i].target,
   envelope |-> [payload |-> i, excludeClientId |-> Undefined]]

\* buildUserTopicEnvelope on the channel of the target.
EnvelopeOf(i) ==
  [channel |-> sent[i].target,
   envelope |-> [payload |-> i, excludeClientId |-> Identity[sent[i].from].client]]

\* The replicas that may have a listener on u's channel.
Listening(u) ==
  {r \in Replicas : \E c \in Conns : /\ Identity[c].user = u
                                    /\ Identity[c].replica = r
                                    /\ sock[c] # "new"}

\* The sessions that stand behind the channel when i is published and R are the
\* replicas that listen on it.  sendToLocalUser skips the sender's client id on
\* every replica, so no session with that id is among them: not a successor of
\* the sender, nor one that has the id on another replica.
Owed(i, R) ==
  {c \in Conns : /\ Live(c) /\ sock[c] = "open"
                 /\ Identity[c].user = sent[i].target
                 /\ Identity[c].client # Identity[sent[i].from].client
                 /\ Identity[c].replica \in R}

\* Redis executes PUBLISH: every replica that listens will receive the message.
Broadcast(i) ==
  \E R \in SUBSET Listening(sent[i].target) :
    /\ inbox' = [r \in Replicas |-> IF r \in R THEN Append(inbox[r], EnvelopeOf(i))
                                               ELSE inbox[r]]
    /\ sent' = [sent EXCEPT ![i].owed = Owed(i, R)]

\* Mutant of Publish: the message reaches the sender's own replica only.
PublishLocally(r) ==
  /\ pubs[r] # << >>
  /\ inbox' = [inbox EXCEPT ![r] = Append(@, EnvelopeOf(Head(pubs[r])))]
  /\ sent' = [sent EXCEPT ![Head(pubs[r])].owed = Owed(Head(pubs[r]), Replicas)]
  /\ pubs' = [pubs EXCEPT ![r] = Tail(@)]
  /\ UNCHANGED <<sock, sessions, got>>

\* The publish of the oldest waiting frame succeeds.
Publish(r) ==
  /\ pubs[r] # << >>
  /\ Broadcast(Head(pubs[r]))
  /\ pubs' = [pubs EXCEPT ![r] = Tail(@)]
  /\ UNCHANGED <<sock, sessions, got>>

\* Mutant of PublishFails: a rejected publish is queued again.
PublishFailsRequeued(r) ==
  /\ pubs[r] # << >>
  /\ pubs' = [pubs EXCEPT ![r] = Append(Tail(@), Head(@))]
  /\ UNCHANGED <<sock, sessions, sent, inbox, got>>

\* Mutant of PublishFails: the frame is rejected and stays in the queue.
PublishFailsKept(r) ==
  /\ pubs[r] # << >>
  /\ SendNack(sent[Head(pubs[r])].from, Head(pubs[r]))
  /\ UNCHANGED <<sock, sessions, sent, pubs, inbox>>

\* PUBLISH is rejected before Redis executed it; sendToUser rethrows.
PublishFails(r) ==
  /\ pubs[r] # << >>
  /\ SendNack(sent[Head(pubs[r])].from, Head(pubs[r]))
  /\ pubs' = [pubs EXCEPT ![r] = Tail(@)]
  /\ UNCHANGED <<sock, sessions, sent, inbox>>

\* Mutant of PublishUnanswered: a rejected publish is sent again.
PublishAgain(r) ==
  /\ pubs[r] # << >>
  /\ Broadcast(Head(pubs[r]))
  /\ UNCHANGED <<sock, sessions, pubs, got>>

\* PUBLISH was executed and its answer lost with the connection: the sender
\* gets a rejection for a message that is delivered.
PublishUnanswered(r) ==
  /\ pubs[r] # << >>
  /\ Broadcast(Head(pubs[r]))
  /\ SendNack(sent[Head(pubs[r])].from, Head(pubs[r]))
  /\ pubs' = [pubs EXCEPT ![r] = Tail(@)]
  /\ UNCHANGED <<sock, sessions>>

-----------------------------------------------------------------------------
(* The delivery.                                                            *)

\* handleTopicMessage: the user comes from the channel, and the envelope is
\* one that buildUserTopicEnvelope made, so that both parse.
HandleTopicMessage(r) ==
  LET m == Head(inbox[r])
  IN  /\ inbox[r] # << >>
      /\ Write(SendToLocalUser(r, m.channel, m.envelope.excludeClientId),
               [op |-> "message", frame |-> m.envelope.payload])
      /\ inbox' = [inbox EXCEPT ![r] = Tail(@)]
      /\ UNCHANGED <<sock, sessions, sent, pubs>>

\* The subscriber connection of r is lost, and the messages on it.
DropSubscriber(r) ==
  /\ inbox[r] # << >>
  /\ inbox' = [inbox EXCEPT ![r] = << >>]
  /\ sent' = [i \in DOMAIN sent |->
                [sent[i] EXCEPT !.owed = {c \in @ : Identity[c].replica # r}]]
  /\ UNCHANGED <<sock, sessions, pubs, got>>

Next ==
  \/ \E c \in Conns : \/ Connect(c) \/ PeerClose(c) \/ Expire(c) \/ CloseEvent(c)
                      \/ \E raw \in Raw : Receive(c, raw)
  \/ \E r \in Replicas : \/ Publish(r) \/ PublishFails(r) \/ PublishUnanswered(r)
                         \/ HandleTopicMessage(r) \/ DropSubscriber(r)

Spec == Init /\ [][Next]_vars

\* Every PUBLISH is answered and every message on a connection is handled.
Fairness ==
  \A r \in Replicas :
    /\ WF_vars(Publish(r) \/ PublishFails(r) \/ PublishUnanswered(r))
    /\ WF_vars(HandleTopicMessage(r))

FairSpec == Spec /\ Fairness

-----------------------------------------------------------------------------
(* Properties.                                                              *)

Received(c, i) == \E j \in DOMAIN got[c] : got[c][j] = [op |-> "message", frame |-> i]

Pending(r, i) == \E j \in DOMAIN pubs[r] : pubs[r][j] = i

Carries(r, i) == \E j \in DOMAIN inbox[r] : inbox[r][j].envelope.payload = i

\* A message reaches sessions of its target only, and never the connection
\* that sent it, however sessions of the sender's client id come and go while
\* the message is on its way ("an optional client ID prevents sender echoes").
OnlyToTarget ==
  \A c \in Conns : \A j \in DOMAIN got[c] : got[c][j].op = "message" =>
    LET f == sent[got[c][j].frame] IN
      /\ f.kind = "send"
      /\ f.target = Identity[c].user
      /\ f.from # c

\* A session receives the messages of one sending replica in the order they
\* were sent, none of them twice.
InOrder ==
  \A c \in Conns : \A j, k \in DOMAIN got[c] :
    LET a == got[c][j]  b == got[c][k] IN
      /\ j < k
      /\ a.op = "message" /\ b.op = "message"
      /\ Identity[sent[a.frame].from].replica = Identity[sent[b.frame].from].replica
      => a.frame < b.frame

\* A session that was open behind a subscribed channel when a message for its
\* user was published has the message, or it is still on its way to the
\* session's replica, or the session's socket or the replica's subscriber
\* connection was lost: other sessions that close do not cost it the message.
\* Sessions with the sender's client id, on whatever replica, are not owed it.
OwedDelivered ==
  \A i \in DOMAIN sent : \A c \in sent[i].owed :
    Received(c, i) \/ Carries(Identity[c].replica, i) \/ sock[c] # "open"

\* A rejection reaches a session of the client id and replica the frame came
\* from (not always the connection it came from: the client id may have been
\* registered anew while PUBLISH was awaited), and a frame is rejected to one
\* session at most, once.
NackAnswers ==
  \A c \in Conns : \A j \in DOMAIN got[c] : got[c][j].op = "error" =>
    LET f == sent[got[c][j].frame] IN
      /\ Identity[f.from].client = Identity[c].client
      /\ Identity[f.from].replica = Identity[c].replica
      /\ \A d \in Conns : \A k \in DOMAIN got[d] :
           got[d][k] = got[c][j] => d = c /\ k = j

\* Every frame comes to rest: some time after it was received its publish is
\* settled and no subscriber connection carries it any more, through failed
\* publishes and lost answers.  With OwedDelivered, a session that a message is
\* owed to receives it in the end, unless its socket or the subscriber
\* connection of its replica is lost.
FramesSettle ==
  \A i \in 1..MaxFrames :
    i \in DOMAIN sent ~> \A r \in Replicas : ~Pending(r, i) /\ ~Carries(r, i)

-----------------------------------------------------------------------------
(* The abstract specification of delivery.                                  *)

Home(i) == Identity[sent[i].from].replica

Rejected(c, i) == \E j \in DOMAIN got[c] : got[c][j] = [op |-> "error", frame |-> i]

\* The frames so far, and where they are.
SentTo == [i \in DOMAIN sent |-> [from |-> sent[i].from, target |-> sent[i].target]]

Waiting == {i \in DOMAIN sent : Pending(Home(i), i)}

Flying == {p \in Replicas \X DOMAIN sent : Carries(p[1], p[2])}

ReceivedBy == [c \in Conns |-> {i \in DOMAIN sent : Received(c, i)}]

RejectedTo == [c \in Conns |-> {i \in DOMAIN sent : Rejected(c, i)}]

Delivery == INSTANCE MessageDelivery WITH
  Frames <- 1..MaxFrames, frame <- SentTo, waiting <- Waiting, flying <- Flying,
  received <- ReceivedBy, rejected <- RejectedTo

\* The fan-out implements MessageDelivery: every frame is settled once, travels
\* to a replica at most once, is handed over in order to sessions of its target
\* that are not the origin, and is rejected to the origin's client id or nobody,
\* through closes, expiries, failed publishes and lost connections.
ImplementsDelivery == Delivery!Spec
=============================================================================
