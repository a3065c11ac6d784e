----------------------- MODULE FanoutRefinementProofs -----------------------
(***************************************************************************)
(* Fanout implements MessageDelivery, and its sessions SessionLifecycle,   *)
(* for every set of replicas, users, clients and connections and every     *)
(* number of frames.  Both proofs go along the steps of Fanout and rest on *)
(* the inductive invariant of FanoutProofs.                                *)
(*                                                                         *)
(* For messages, sockets and subscriptions do not show, a frame that       *)
(* arrives is a Submit or a Refuse, the end of a PUBLISH is a Settle, a    *)
(* delivery a Deliver and a lost subscriber connection a Lose.  For        *)
(* sessions a connect is an Admit, an expiry or a close event of a live    *)
(* session an End, and nothing else shows.  What a settled frame can never *)
(* do again is read off the abstract specification.                        *)
(***************************************************************************)
EXTENDS FanoutProofs, FiniteSetTheorems

-----------------------------------------------------------------------------
(* Messages.                                                                *)

\* A write adds its frame to what was received, or to what was rejected, on the
\* connections it reaches, and takes nothing away.
LEMMA WriteAdds ==
  ASSUME TypeOK, NEW conns \in SUBSET Conns, NEW i \in 1..MaxFrames,
         NEW op \in {"message", "error"}, Write(conns, [op |-> op, frame |-> i])
  PROVE  \A c \in Conns : \A n :
           /\ Received(c, n)' <=>
                Received(c, n) \/ (c \in conns /\ op = "message" /\ n = i)
           /\ Rejected(c, n)' <=>
                Rejected(c, n) \/ (c \in conns /\ op = "error" /\ n = i)
<1>1. PICK e : e = [op |-> op, frame |-> i]
  OBVIOUS
<1>2. e \in Item /\ Write(conns, e)
  BY <1>1 DEF Item
<1>3. /\ \A c \in Conns : \A j \in DOMAIN got[c] :
             j \in DOMAIN got'[c] /\ got'[c][j] = got[c][j]
      /\ \A c \in Conns : \A j \in DOMAIN got'[c] :
             \/ j \in DOMAIN got[c]
             \/ c \in conns /\ j = Len(got[c]) + 1 /\ got'[c][j] = e
      /\ \A c \in conns : \E j \in DOMAIN got'[c] : got'[c][j] = e
  <2>1. Written(conns, e)
    BY <1>2, WriteFacts
  <2> QED
    BY <2>1 DEF Written
<1>4. \A n : /\ e = [op |-> "message", frame |-> n] <=> op = "message" /\ n = i
             /\ e = [op |-> "error", frame |-> n] <=> op = "error" /\ n = i
  BY <1>1
<1>5. ASSUME NEW c \in Conns, NEW x
      PROVE  (\E j \in DOMAIN got'[c] : got'[c][j] = x) <=>
               (\E j \in DOMAIN got[c] : got[c][j] = x) \/ (c \in conns /\ x = e)
  BY <1>3
<1>6. ASSUME NEW c \in Conns, NEW n
      PROVE  /\ Received(c, n)' <=>
                  Received(c, n) \/ (c \in conns /\ op = "message" /\ n = i)
             /\ Rejected(c, n)' <=>
                  Rejected(c, n) \/ (c \in conns /\ op = "error" /\ n = i)
  <2>1. Received(c, n)' <=>
          Received(c, n) \/ (c \in conns /\ [op |-> "message", frame |-> n] = e)
    BY <1>5 DEF Received
  <2>2. Rejected(c, n)' <=>
          Rejected(c, n) \/ (c \in conns /\ [op |-> "error", frame |-> n] = e)
    BY <1>5 DEF Rejected
  <2> QED
    BY <1>4, <2>1, <2>2
<1> QED
  BY <1>6

\* The origin of a frame is its home.
LEMMA OriginIsHome ==
  ASSUME NEW n \in DOMAIN sent
  PROVE  /\ Delivery!Origin(n) = Home(n)
         /\ SentTo[n].from = sent[n].from
         /\ SentTo[n].target = sent[n].target
BY DEF SentTo, Delivery!Origin, Home

\* A delivery of replica r is a Deliver.
LEMMA HandleDelivers ==
  ASSUME IInv, NEW r \in Replicas, HandleTopicMessage(r)
  PROVE  \E n \in 1..MaxFrames : Delivery!Deliver(r, n)
<1>1. PICK m, i, conns :
        /\ m = Head(inbox[r]) /\ i = m.envelope.payload
        /\ conns = SendToLocalUser(r, m.channel, m.envelope.excludeClientId)
  OBVIOUS
<1>2. /\ inbox[r] # << >> /\ Write(conns, [op |-> "message", frame |-> i])
      /\ inbox' = [inbox EXCEPT ![r] = Tail(@)]
      /\ UNCHANGED <<sock, sessions, sent, pubs>>
  BY <1>1 DEF HandleTopicMessage
<1>3. /\ i \in DOMAIN sent /\ sent[i].target \in Users
      /\ m.channel = sent[i].target
      /\ m.envelope.excludeClientId = Identity[sent[i].from].client
      /\ Carries(r, i)
  BY <1>1, <1>2, HeadFacts
<1>4. i \in 1..MaxFrames /\ Identity[sent[i].from].client \in Clients
  BY <1>3, FrameFacts DEF IInv
<1>5. conns = {c \in Conns : /\ sock[c] = "open"
                             /\ Identity[c].replica = r
                             /\ Identity[c].user = sent[i].target
                             /\ Identity[c].client # Identity[sent[i].from].client}
  <2>1. SendToLocalUser(r, sent[i].target, Identity[sent[i].from].client) =
          OpenOf(r, sent[i].target, Identity[sent[i].from].client)
    BY <1>3, <1>4, TargetFacts
  <2> QED
    BY <1>1, <1>3, <2>1 DEF OpenOf
<1>6. \A c \in Conns : \A n :
        /\ Received(c, n)' <=> Received(c, n) \/ (c \in conns /\ n = i)
        /\ Rejected(c, n)' <=> Rejected(c, n)
  <2>1. conns \in SUBSET Conns /\ "message" \in {"message", "error"}
    BY <1>5
  <2> QED
    BY <1>2, <1>4, <2>1, WriteAdds DEF IInv
<1>7. \A q \in Replicas, n \in DOMAIN sent :
        Carries(q, n)' <=> Carries(q, n) /\ ~(q = r /\ n = i)
  <2>1. \A q \in Replicas, n \in DOMAIN sent :
          /\ Carries(q, n)' => Carries(q, n)
          /\ Carries(q, n) => Carries(q, n)' \/ (q = r /\ n = i)
          /\ Carries(r, n)' /\ Home(n) = Home(i) => i < n
    BY <1>1, <1>2, InboxTail
  <2>2. ~(i < i)
    BY <1>4
  <2> QED
    BY <1>3, <2>1, <2>2
<1>8. SentTo' = SentTo /\ Waiting' = Waiting
  BY <1>2 DEF SentTo, Waiting, Pending, Home
<1>9. RejectedTo' = RejectedTo
  BY <1>2, <1>6 DEF RejectedTo
<1>10. <<r, i>> \in Flying /\ Flying' = Flying \ {<<r, i>>}
  BY <1>2, <1>3, <1>7 DEF Flying
<1>11. conns \in SUBSET Delivery!Addressees(r, i)
  <2>1. ASSUME NEW c \in conns, NEW n \in ReceivedBy[c],
               Delivery!Origin(n) = Delivery!Origin(i)
        PROVE  n < i
    <3>1. c \in Conns /\ n \in DOMAIN sent /\ Received(c, n) /\ Identity[c].replica = r
      BY <1>5, <2>1 DEF ReceivedBy
    <3>2. Home(n) = Home(i)
      BY <1>3, <2>1, <3>1, OriginIsHome
    <3> QED
      BY <1>3, <3>1, <3>2 DEF IInv, GotOlder
  <2>2. \A c \in conns : /\ c \in Conns
                         /\ Identity[c].replica = r
                         /\ Identity[c].user = SentTo[i].target
                         /\ Identity[c].client # Identity[SentTo[i].from].client
    BY <1>3, <1>5, OriginIsHome
  <2> QED
    BY <2>1, <2>2 DEF Delivery!Addressees
<1>12. ReceivedBy' = [c \in Conns |-> IF c \in conns THEN ReceivedBy[c] \cup {i}
                                                     ELSE ReceivedBy[c]]
  <2>1. \A c \in Conns : {n \in DOMAIN sent : Received(c, n)'} =
                         IF c \in conns THEN {n \in DOMAIN sent : Received(c, n)} \cup {i}
                                        ELSE {n \in DOMAIN sent : Received(c, n)}
    BY <1>3, <1>6
  <2> QED
    BY <1>2, <2>1 DEF ReceivedBy
<1> QED
  BY <1>4, <1>8, <1>9, <1>10, <1>11, <1>12 DEF Delivery!Deliver

\* A rejection, sent or not, is an Answer.
LEMMA NackAnswersFrame ==
  ASSUME IInv, NEW s \in Conns, NEW i \in 1..MaxFrames, i \in DOMAIN sent',
         DOMAIN sent \subseteq DOMAIN sent',
         \A n \in DOMAIN sent' : n = i \/ n \in DOMAIN sent,
         SendNack(s, i) \/ UNCHANGED got
  PROVE  /\ Delivery!Answer(s, i)
         /\ \A c \in Conns : \A n : Received(c, n)' <=> Received(c, n)
<1>1. PICK conns : conns = Reached(Identity[s].replica, Identity[s].client)
  OBVIOUS
<1>2. /\ conns \in SUBSET Conns
      /\ \A c \in conns : Identity[c].replica = Identity[s].replica
                            /\ Identity[c].client = Identity[s].client
      /\ \A c, d \in conns : c = d
  BY <1>1, NackFacts, FanoutAssumption
<1>3. conns \in {{}} \cup {{d} : d \in Delivery!Answerable(s)}
  <2>1. conns # {} => \E d \in Delivery!Answerable(s) : conns = {d}
    BY <1>2 DEF Delivery!Answerable
  <2> QED
    BY <2>1
<1>4. PICK told \in {{}} \cup {{d} : d \in Delivery!Answerable(s)} :
        \A c \in Conns : \A n : /\ Received(c, n)' <=> Received(c, n)
                                /\ Rejected(c, n)' <=> Rejected(c, n) \/ (c \in told /\ n = i)
  <2>1. CASE UNCHANGED got
    <3>1. \A c \in Conns : \A n : /\ Received(c, n)' <=> Received(c, n)
                                  /\ Rejected(c, n)' <=> Rejected(c, n)
      BY <2>1 DEF Received, Rejected
    <3> WITNESS {} \in {{}} \cup {{d} : d \in Delivery!Answerable(s)}
    <3> QED
      BY <3>1
  <2>2. CASE SendNack(s, i)
    <3>1. Write(conns, [op |-> "error", frame |-> i]) /\ "error" \in {"message", "error"}
      BY <1>1, <2>2 DEF SendNack
    <3>2. \A c \in Conns : \A n :
            /\ Received(c, n)' <=> Received(c, n)
            /\ Rejected(c, n)' <=> Rejected(c, n) \/ (c \in conns /\ n = i)
      BY <1>2, <3>1, WriteAdds DEF IInv
    <3> QED
      BY <1>3, <3>2
  <2> QED
    BY <2>1, <2>2
<1>5. RejectedTo' = [d \in Conns |-> IF d \in told THEN RejectedTo[d] \cup {i}
                                                   ELSE RejectedTo[d]]
  <2>1. \A c \in Conns : \A n : Rejected(c, n) => n \in DOMAIN sent
    BY DEF IInv, QueuesFaithful, Rejected
  <2>2. \A c \in Conns : {n \in DOMAIN sent' : Rejected(c, n)'} =
                         IF c \in told THEN {n \in DOMAIN sent : Rejected(c, n)} \cup {i}
                                       ELSE {n \in DOMAIN sent : Rejected(c, n)}
    BY <1>4, <2>1
  <2> QED
    BY <2>2 DEF RejectedTo
<1> QED
  BY <1>4, <1>5 DEF Delivery!Answer

\* The end of a publish, of either kind, is a Settle.
LEMMA PublishSettles ==
  ASSUME IInv, NEW r \in Replicas, Publish(r) \/ PublishFails(r) \/ PublishUnanswered(r)
  PROVE  \E n \in 1..MaxFrames : Delivery!Settle(n)
<1>1. PICK i : i = Head(pubs[r])
  OBVIOUS
<1>2. /\ pubs[r] # << >> /\ pubs' = [pubs EXCEPT ![r] = Tail(@)]
      /\ UNCHANGED <<sock, sessions>>
      /\ Broadcast(i) \/ UNCHANGED <<sent, inbox>>
      /\ SendNack(sent[i].from, i) \/ UNCHANGED got
  BY <1>1 DEF Publish, PublishFails, PublishUnanswered
<1>3. /\ i \in DOMAIN sent /\ sent[i].target \in Users /\ Home(i) = r
      /\ \A q \in Replicas : Pending(q, i) <=> q = r
      /\ \A q \in Replicas, n \in DOMAIN sent :
           Pending(q, n)' => Pending(q, n) /\ (q = r => i < n)
  BY <1>1, <1>2, PubsTail
<1>4. /\ DOMAIN sent' = DOMAIN sent
      /\ \A n \in DOMAIN sent :
           /\ sent'[n].from = sent[n].from
           /\ sent'[n].target = sent[n].target
           /\ Home(n)' = Home(n)
      /\ \A q \in Replicas : \A j \in DOMAIN inbox[q] :
           j \in DOMAIN inbox'[q] /\ inbox'[q][j] = inbox[q][j]
      /\ \A q \in Replicas : \A j \in DOMAIN inbox'[q] :
           \/ j \in DOMAIN inbox[q]
           \/ j = Len(inbox[q]) + 1 /\ inbox'[q][j] = EnvelopeOf(i)
  BY <1>2, <1>3, BroadcastFacts
<1>5. /\ i \in 1..MaxFrames /\ sent[i].from \in Conns
      /\ \A n \in DOMAIN sent : Home(n) \in Replicas
  BY <1>3, FrameFacts DEF IInv
<1>6. SentTo' = SentTo
  BY <1>4 DEF SentTo
<1>7. \A n \in DOMAIN sent : Pending(r, n) => Pending(r, n)' \/ n = i
  <2>1. pubs \in [Replicas -> Seq(1..MaxFrames)] /\ pubs[r] \in Seq(1..MaxFrames)
    BY DEF IInv, TypeOK
  <2>2. /\ DOMAIN pubs[r] = 1..Len(pubs[r]) /\ Len(pubs[r]) \in Nat
        /\ DOMAIN Tail(pubs[r]) = 1..(Len(pubs[r]) - 1)
        /\ i = pubs[r][1]
        /\ \A j \in DOMAIN Tail(pubs[r]) : Tail(pubs[r])[j] = pubs[r][j + 1]
    BY <1>1, <1>2, <2>1, TailFacts
  <2>3. pubs'[r] = Tail(pubs[r])
    BY <1>2, <2>1
  <2> SUFFICES ASSUME NEW k \in DOMAIN pubs[r], k # 1
               PROVE  \E j \in DOMAIN pubs'[r] : pubs'[r][j] = pubs[r][k]
    BY <2>2 DEF Pending
  <2>4. k - 1 \in DOMAIN Tail(pubs[r]) /\ (k - 1) + 1 = k
    BY <2>2
  <2>5. Tail(pubs[r])[k - 1] = pubs[r][k]
    BY <2>2, <2>4
  <2> QED
    BY <2>3, <2>4, <2>5
<1>8. \A q \in Replicas \ {r}, n \in DOMAIN sent : Pending(q, n) => Pending(q, n)'
  BY <1>2 DEF IInv, TypeOK, Pending
<1>9. \A m, n \in DOMAIN sent : n < m => m # n
  BY <1>5, FrameFacts DEF IInv
<1>10. Waiting' = Waiting \ {i} /\ i \in Waiting
  <2>1. \A q \in Replicas, n \in DOMAIN sent : Pending(q, n)' <=> Pending(q, n) /\ n # i
    BY <1>3, <1>7, <1>8, <1>9
  <2>2. \A n \in DOMAIN sent : Pending(Home(n), n)' <=> Pending(Home(n), n) /\ n # i
    BY <1>4, <1>5, <2>1 DEF Pending
  <2> QED
    BY <1>3, <1>4, <2>2 DEF Waiting
<1>11. \A m \in Waiting : Delivery!Origin(m) = Delivery!Origin(i) => i <= m
  <2> SUFFICES ASSUME NEW m \in Waiting, Delivery!Origin(m) = Delivery!Origin(i), m # i
               PROVE  i <= m
    BY <1>5
  <2>1. m \in DOMAIN sent /\ Pending(r, m)
    BY <1>3, OriginIsHome DEF Waiting
  <2>2. i < m /\ m \in 1..MaxFrames
    BY <1>3, <1>7, <2>1, FrameFacts DEF IInv
  <2> QED
    BY <1>5, <2>2
<1>12. \E R \in SUBSET Replicas : Flying' = Flying \cup (R \X {i})
  <2>1. PICK R : R = {q \in Replicas : Carries(q, i)'}
    OBVIOUS
  <2>2. EnvelopeOf(i).envelope.payload = i
    BY DEF EnvelopeOf
  <2>3. \A q \in Replicas, n \in DOMAIN sent :
          Carries(q, n)' <=> Carries(q, n) \/ (n = i /\ q \in R)
    BY <1>4, <2>1, <2>2 DEF Carries
  <2>4. \A p : p \in Flying' <=> p \in Flying \/ p \in R \X {i}
    BY <1>3, <1>4, <2>1, <2>3 DEF Flying
  <2> QED
    BY <2>1, <2>4
<1>13. /\ Delivery!Answer(sent[i].from, i)
       /\ \A c \in Conns : \A n : Received(c, n)' <=> Received(c, n)
  BY <1>2, <1>3, <1>4, <1>5, NackAnswersFrame
<1>14. ReceivedBy' = ReceivedBy
  BY <1>4, <1>13 DEF ReceivedBy
<1>15. SentTo[i].from = sent[i].from
  BY <1>3, OriginIsHome
<1> QED
  BY <1>5, <1>6, <1>10, <1>11, <1>12, <1>13, <1>14, <1>15 DEF Delivery!Settle

\* A lost subscriber connection is a Lose.
LEMMA DropLoses ==
  ASSUME IInv, NEW r \in Replicas, DropSubscriber(r)
  PROVE  Delivery!Lose(r)
<1>1. /\ inbox' = [inbox EXCEPT ![r] = << >>]
      /\ sent' = [n \in DOMAIN sent |->
                    [sent[n] EXCEPT !.owed = {c \in @ : Identity[c].replica # r}]]
      /\ UNCHANGED <<sock, sessions, pubs, got>>
  BY DEF DropSubscriber
<1>2. \A n \in DOMAIN sent : sent[n] \in Frame
  BY FrameFacts DEF IInv
<1>3. /\ DOMAIN sent' = DOMAIN sent
      /\ \A n \in DOMAIN sent : /\ sent'[n].from = sent[n].from
                                /\ sent'[n].target = sent[n].target
  BY <1>1, <1>2 DEF Frame
<1>4. inbox'[r] = << >> /\ \A q \in Replicas \ {r} : inbox'[q] = inbox[q]
  BY <1>1 DEF IInv, TypeOK
<1>5. SentTo' = SentTo /\ Waiting' = Waiting
  <2>1. SentTo' = SentTo
    BY <1>3 DEF SentTo
  <2>2. \A n \in DOMAIN sent : Pending(Home(n), n)' <=> Pending(Home(n), n)
    BY <1>1, <1>3 DEF Pending, Home
  <2> QED
    BY <1>3, <2>1, <2>2 DEF Waiting
<1>6. ReceivedBy' = ReceivedBy /\ RejectedTo' = RejectedTo
  BY <1>1, <1>3 DEF ReceivedBy, RejectedTo, Received, Rejected
<1>7. \A q \in Replicas : \A n : Carries(q, n)' <=> (q # r /\ Carries(q, n))
  BY <1>4 DEF Carries
<1>8. Flying' = {p \in Flying : p[1] # r}
  BY <1>3, <1>7 DEF Flying
<1> QED
  BY <1>5, <1>6, <1>8 DEF Delivery!Lose

\* A frame that is taken is a Submit, one that is invalid a Refuse, and one
\* that is ignored does not show.
LEMMA ReceiveSubmits ==
  ASSUME IInv, NEW s \in Conns, NEW raw \in Raw, Receive(s, raw)
  PROVE  \/ UNCHANGED vars
         \/ \E n \in 1..MaxFrames : \/ Delivery!Refuse(s, n)
                                    \/ \E u \in Users : Delivery!Submit(s, u, n)
<1>1. PICK f, i, r : f = ParseInboundFrame(raw) /\ i = Len(sent) + 1
                     /\ r = Identity[s].replica
  OBVIOUS
<1>2. /\ i <= MaxFrames
      /\ \/ f.kind = "ignore" /\ UNCHANGED <<sent, pubs, got>>
         \/ /\ f.kind # "ignore"
            /\ sent' = Append(sent, [from |-> s, kind |-> f.kind,
                                     target |-> f.target, owed |-> {}])
            /\ \/ /\ f.kind = "send"
                  /\ pubs' = [pubs EXCEPT ![r] = Append(@, i)] /\ UNCHANGED got
               \/ f.kind # "send" /\ SendNack(s, i) /\ UNCHANGED pubs
      /\ UNCHANGED <<sock, sessions, inbox>>
  BY <1>1 DEF Receive, CanSendTo
<1>3. CASE UNCHANGED <<sent, pubs, got>>
  BY <1>2, <1>3 DEF vars
<1>4. CASE /\ f.kind # "ignore"
           /\ sent' = Append(sent, [from |-> s, kind |-> f.kind,
                                    target |-> f.target, owed |-> {}])
           /\ \/ /\ f.kind = "send"
                 /\ pubs' = [pubs EXCEPT ![r] = Append(@, i)] /\ UNCHANGED got
              \/ f.kind # "send" /\ SendNack(s, i) /\ UNCHANGED pubs
  <2>1. /\ sent \in Seq(Frame) /\ MaxFrames \in Nat /\ r \in Replicas
        /\ pubs \in [Replicas -> Seq(1..MaxFrames)]
    BY <1>1, FanoutAssumption DEF IInv, TypeOK
  <2>2. /\ i \in 1..MaxFrames /\ DOMAIN sent = 1..(i - 1)
        /\ \A n \in DOMAIN sent : n < i /\ n # i
        /\ i \notin DOMAIN sent
    BY <1>1, <1>2, <2>1
  <2>3. PICK g : g = [from |-> s, kind |-> f.kind, target |-> f.target, owed |-> {}]
    OBVIOUS
  <2>4. /\ g \in Frame /\ g.from = s /\ g.target = f.target
        /\ f.kind = "send" => f.target \in Users
        /\ f.kind # "send" => f.target = Undefined
    BY <1>1, <1>4, <2>3 DEF Frame, ParseInboundFrame, Raw
  <2>5. /\ DOMAIN sent' = DOMAIN sent \cup {i}
        /\ sent'[i] = g
        /\ \A n \in DOMAIN sent : sent'[n] = sent[n]
    <3>1. sent' = Append(sent, g)
      BY <1>4, <2>3
    <3>2. DOMAIN sent' = 1..i
      BY <1>1, <2>1, <2>4, <3>1
    <3> QED
      BY <1>1, <2>1, <2>2, <2>4, <3>1, <3>2
  <2>6. Delivery!Arrives(s, f.target, i)
    <3>1. SentTo' = [m \in DOMAIN SentTo \cup {i} |->
                       IF m = i THEN [from |-> s, target |-> f.target] ELSE SentTo[m]]
      BY <2>2, <2>4, <2>5 DEF SentTo
    <3>2. \A m \in DOMAIN SentTo : m < i
      BY <2>2 DEF SentTo
    <3> QED
      BY <3>1, <3>2 DEF Delivery!Arrives
  <2>7. /\ \A q \in Replicas : \A n : (Carries(q, n) \/ Pending(q, n)) => n \in DOMAIN sent
        /\ \A c \in Conns : \A n : (Received(c, n) \/ Rejected(c, n)) => n \in DOMAIN sent
    BY DEF IInv, QueuesFaithful, Carries, Pending, Received, Rejected
  <2>8. Flying' = Flying
    <3>1. \A q \in Replicas : \A n : Carries(q, n)' <=> Carries(q, n)
      BY <1>2 DEF Carries
    <3> QED
      BY <2>5, <2>7, <3>1 DEF Flying
  <2>9. \A n \in DOMAIN sent : Home(n)' = Home(n) /\ Home(n) \in Replicas
    BY <2>5, FrameFacts DEF Home, IInv
  <2>10. Home(i)' = r
    BY <1>1, <2>4, <2>5 DEF Home
  <2>11. (\A c \in Conns : \A n : Received(c, n)' <=> Received(c, n)) =>
           ReceivedBy' = ReceivedBy
    BY <2>5, <2>7 DEF ReceivedBy
  <2>12. CASE /\ f.kind = "send"
              /\ pubs' = [pubs EXCEPT ![r] = Append(@, i)] /\ UNCHANGED got
    <3>1. \A q \in Replicas : \A n : Pending(q, n)' <=> Pending(q, n) \/ (q = r /\ n = i)
      <4>1. /\ pubs[r] \in Seq(1..MaxFrames)
            /\ pubs'[r] = Append(pubs[r], i)
            /\ \A q \in Replicas \ {r} : pubs'[q] = pubs[q]
        BY <2>1, <2>12
      <4>2. /\ DOMAIN pubs[r] = 1..Len(pubs[r]) /\ Len(pubs[r]) \in Nat
            /\ DOMAIN pubs'[r] = 1..(Len(pubs[r]) + 1)
            /\ \A j \in DOMAIN pubs[r] : pubs'[r][j] = pubs[r][j]
            /\ pubs'[r][Len(pubs[r]) + 1] = i
        BY <2>2, <4>1, AppendFacts
      <4>3. \A n : Pending(r, n)' <=> Pending(r, n) \/ n = i
        BY <4>2 DEF Pending
      <4>4. \A q \in Replicas \ {r} : \A n : Pending(q, n)' <=> Pending(q, n)
        BY <4>1 DEF Pending
      <4> QED
        BY <4>3, <4>4
    <3>2. \A n \in DOMAIN sent' : Pending(Home(n), n)' <=>
            n = i \/ (n \in DOMAIN sent /\ Pending(Home(n), n))
      <4>1. Pending(Home(i), i)'
        <5>1. Pending(r, i)'
          BY <2>1, <3>1
        <5> QED
          BY <2>10, <5>1 DEF Pending
      <4>2. ASSUME NEW n \in DOMAIN sent, NEW q \in Replicas, q = Home(n)
            PROVE  Pending(Home(n), n)' <=> Pending(Home(n), n)
        <5>1. Home(n)' = q /\ n # i
          BY <2>2, <2>9, <4>2
        <5>2. Pending(q, n)' <=> Pending(q, n)
          BY <3>1, <5>1
        <5> QED
          BY <4>2, <5>1, <5>2 DEF Pending
      <4> QED
        BY <2>5, <2>9, <4>1, <4>2
    <3>3. Waiting' = Waiting \cup {i}
      BY <2>5, <3>2 DEF Waiting
    <3>4. ReceivedBy' = ReceivedBy /\ RejectedTo' = RejectedTo
      BY <2>5, <2>7, <2>12 DEF ReceivedBy, RejectedTo, Received, Rejected
    <3>5. Delivery!Submit(s, f.target, i)
      BY <2>6, <2>8, <3>3, <3>4 DEF Delivery!Submit
    <3> QED
      BY <2>2, <2>4, <2>12, <3>5
  <2>13. CASE f.kind # "send" /\ SendNack(s, i) /\ UNCHANGED pubs
    <3>1. /\ Delivery!Answer(s, i)
          /\ \A c \in Conns : \A n : Received(c, n)' <=> Received(c, n)
      BY <2>2, <2>5, <2>13, NackAnswersFrame
    <3>2. \A n \in DOMAIN sent' : Pending(Home(n), n)' <=>
            n \in DOMAIN sent /\ Pending(Home(n), n)
      <4>1. ~Pending(Home(i), i)'
        BY <2>1, <2>2, <2>7, <2>10, <2>13 DEF Pending
      <4>2. \A n \in DOMAIN sent : Pending(Home(n), n)' <=> Pending(Home(n), n)
        BY <2>9, <2>13 DEF Pending
      <4> QED
        BY <2>2, <2>5, <4>1, <4>2
    <3>3. Waiting' = Waiting
      BY <2>5, <3>2 DEF Waiting
    <3>4. Delivery!Refuse(s, i)
      BY <2>4, <2>6, <2>8, <2>11, <2>13, <3>1, <3>3 DEF Delivery!Refuse
    <3> QED
      BY <2>2, <3>4
  <2> QED
    BY <1>4, <2>12, <2>13
<1> QED
  BY <1>2, <1>3, <1>4

\* A step that leaves frames, queues and connections' items alone does not show.
LEMMA QuietStep ==
  ASSUME UNCHANGED <<sent, pubs, inbox, got>>
  PROVE  UNCHANGED Delivery!deliveryVars
<1>1. SentTo' = SentTo /\ Waiting' = Waiting /\ Flying' = Flying
  BY DEF SentTo, Waiting, Flying, Pending, Home, Carries
<1>2. ReceivedBy' = ReceivedBy /\ RejectedTo' = RejectedTo
  BY DEF ReceivedBy, RejectedTo, Received, Rejected
<1> QED
  BY <1>1, <1>2 DEF Delivery!deliveryVars

\* Every step is one of MessageDelivery, or does not show.
LEMMA DeliveryStep ==
  IInv /\ [Next]_vars => [Delivery!Next]_(Delivery!deliveryVars)
<1> SUFFICES ASSUME IInv, [Next]_vars
             PROVE  Delivery!Next \/ UNCHANGED Delivery!deliveryVars
  OBVIOUS
<1>1. CASE UNCHANGED vars
  BY <1>1, QuietStep DEF vars
<1>2. ASSUME NEW c \in Conns, Connect(c) \/ PeerClose(c) \/ Expire(c) \/ CloseEvent(c)
      PROVE  UNCHANGED Delivery!deliveryVars
  BY <1>2, QuietStep DEF Connect, PeerClose, Expire, CloseEvent
<1>3. ASSUME NEW c \in Conns, NEW raw \in Raw, Receive(c, raw)
      PROVE  Delivery!Next \/ UNCHANGED Delivery!deliveryVars
  BY <1>1, <1>3, ReceiveSubmits DEF Delivery!Next
<1>5. ASSUME NEW r \in Replicas, Publish(r) \/ PublishFails(r) \/ PublishUnanswered(r)
      PROVE  Delivery!Next
  BY <1>5, PublishSettles DEF Delivery!Next
<1>6. ASSUME NEW r \in Replicas, HandleTopicMessage(r)
      PROVE  Delivery!Next
  BY <1>6, HandleDelivers DEF Delivery!Next
<1>7. ASSUME NEW r \in Replicas, DropSubscriber(r)
      PROVE  Delivery!Next
  BY <1>7, DropLoses DEF Delivery!Next
<1> QED
  BY <1>1, <1>2, <1>3, <1>5, <1>6, <1>7 DEF Next

\* Every behaviour of handleMessage, the publishes and handleTopicMessage on
\* all replicas is one of MessageDelivery: whatever closes, expires, fails or is
\* lost, a frame is settled once and in order, travels to a replica once, reaches
\* sessions of its target other than the origin in order, and is rejected to one
\* session of the origin's client id or to none.
THEOREM DeliveryTheorem == Spec => ImplementsDelivery
<1>1. Init => Delivery!Init
  BY DEF Init, Delivery!Init, SentTo, Waiting, Flying, ReceivedBy, RejectedTo
<1> QED
  BY <1>1, DeliveryStep, Invariance, PTL DEF Spec, ImplementsDelivery, Delivery!Spec

-----------------------------------------------------------------------------
(* Settled for good.                                                        *)

\* Once a PUBLISH has ended, and wherever its message is not on its way to, the
\* frame is over: nothing queues it again, nobody is told any more that it is
\* rejected, and no session of that replica receives it later, whichever
\* sessions come, and whatever is resubscribed or lost (handleMessage calls
\* publish once and never retries it).
StaysSettled(i) ==
  ~Pending(Home(i), i) =>
    /\ ~Pending(Home(i), i)'
    /\ \A c \in Conns : Rejected(c, i)' => Rejected(c, i)
    /\ \A r \in Replicas : ~Carries(r, i) =>
         /\ ~Carries(r, i)'
         /\ \A c \in Conns : Identity[c].replica = r /\ Received(c, i)' => Received(c, i)

SettledForGood == [][\A i \in DOMAIN sent : StaysSettled(i)]_vars

\* The same of the frames of MessageDelivery.
StaysOver(n) ==
  /\ n \in DOMAIN SentTo' /\ n \notin Waiting'
  /\ \A c \in Conns : n \in RejectedTo'[c] => n \in RejectedTo[c]
  /\ \A r \in Replicas : <<r, n>> \notin Flying =>
       /\ <<r, n>> \notin Flying'
       /\ \A c \in Conns : Identity[c].replica = r /\ n \in ReceivedBy'[c] => n \in ReceivedBy[c]

\* What MessageDelivery says of a frame that no longer waits.
LEMMA SettledStep ==
  ASSUME [Delivery!Next]_(Delivery!deliveryVars),
         NEW n \in DOMAIN SentTo, n \notin Waiting
  PROVE  StaysOver(n)
<1> USE DEF StaysOver
<1>1. CASE UNCHANGED Delivery!deliveryVars
  BY <1>1 DEF Delivery!deliveryVars
<1>2. ASSUME NEW c \in Conns, NEW u, NEW m \in 1..MaxFrames, Delivery!Arrives(c, u, m)
      PROVE  n \in DOMAIN SentTo' /\ m # n
  <2>1. m # n
    BY <1>2 DEF Delivery!Arrives
  <2>2. SentTo' = [k \in DOMAIN SentTo \cup {m} |->
                     IF k = m THEN [from |-> c, target |-> u] ELSE SentTo[k]]
    BY <1>2 DEF Delivery!Arrives
  <2> QED
    BY <2>1, <2>2
<1>3. ASSUME NEW c, NEW m, m # n, Delivery!Answer(c, m)
      PROVE  \A d \in Conns : n \in RejectedTo'[d] => n \in RejectedTo[d]
  <2>1. PICK told : RejectedTo' = [d \in Conns |-> IF d \in told THEN RejectedTo[d] \cup {m}
                                                                ELSE RejectedTo[d]]
    BY <1>3 DEF Delivery!Answer
  <2> QED
    BY <1>3, <2>1
<1>4. ASSUME NEW c \in Conns, NEW m \in 1..MaxFrames, Delivery!Refuse(c, m)
      PROVE  StaysOver(n)
  <2>1. Delivery!Arrives(c, Undefined, m) /\ Delivery!Answer(c, m)
        /\ UNCHANGED <<Waiting, Flying, ReceivedBy>>
    BY <1>4 DEF Delivery!Refuse
  <2> QED
    BY <1>2, <1>3, <2>1
<1>5. ASSUME NEW c \in Conns, NEW u \in Users, NEW m \in 1..MaxFrames, Delivery!Submit(c, u, m)
      PROVE  StaysOver(n)
  <2>1. Delivery!Arrives(c, u, m) /\ Waiting' = Waiting \cup {m}
        /\ UNCHANGED <<Flying, ReceivedBy, RejectedTo>>
    BY <1>5 DEF Delivery!Submit
  <2> QED
    BY <1>2, <2>1
<1>6. ASSUME NEW m \in 1..MaxFrames, Delivery!Settle(m)
      PROVE  StaysOver(n)
  <2>1. /\ m \in Waiting /\ Waiting' = Waiting \ {m}
        /\ Delivery!Answer(SentTo[m].from, m)
        /\ UNCHANGED <<SentTo, ReceivedBy>>
    BY <1>6 DEF Delivery!Settle
  <2>2. PICK R : Flying' = Flying \cup (R \X {m})
    BY <1>6 DEF Delivery!Settle
  <2>3. m # n
    BY <2>1
  <2> QED
    BY <1>3, <2>1, <2>2, <2>3
<1>7. ASSUME NEW m \in 1..MaxFrames, NEW q \in Replicas, Delivery!Deliver(q, m)
      PROVE  StaysOver(n)
  <2>1. /\ <<q, m>> \in Flying /\ Flying' = Flying \ {<<q, m>>}
        /\ UNCHANGED <<SentTo, Waiting, RejectedTo>>
    BY <1>7 DEF Delivery!Deliver
  <2>2. PICK C : /\ C \subseteq Delivery!Addressees(q, m)
                 /\ ReceivedBy' = [c \in Conns |-> IF c \in C THEN ReceivedBy[c] \cup {m}
                                                             ELSE ReceivedBy[c]]
    BY <1>7 DEF Delivery!Deliver
  <2>3. ASSUME NEW c \in Conns, <<Identity[c].replica, n>> \notin Flying, n \in ReceivedBy'[c]
        PROVE  n \in ReceivedBy[c]
    <3>1. \A d \in C : Identity[d].replica = q
      BY <2>2 DEF Delivery!Addressees
    <3> QED
      BY <2>1, <2>2, <2>3, <3>1
  <2> QED
    BY <2>1, <2>3
<1>8. ASSUME NEW q \in Replicas, Delivery!Lose(q)
      PROVE  StaysOver(n)
  BY <1>8 DEF Delivery!Lose
<1> QED
  BY <1>1, <1>4, <1>5, <1>6, <1>7, <1>8 DEF Delivery!Next

\* A message is handed over in one pass at most: what a replica did not get, or
\* has delivered or lost, never comes back, and a rejection is never repeated.
THEOREM SettledTheorem == Spec => SettledForGood
<1>1. ASSUME [Delivery!Next]_(Delivery!deliveryVars), NEW i \in DOMAIN sent,
             ~Pending(Home(i), i)
      PROVE  StaysSettled(i)
  <2>1. i \in DOMAIN SentTo /\ i \notin Waiting
    BY <1>1 DEF SentTo, Waiting
  <2>2. StaysOver(i)
    BY <1>1, <2>1, SettledStep
  <2>3. i \in DOMAIN sent'
    BY <2>2 DEF StaysOver, SentTo
  <2>4. ~Pending(Home(i), i)'
    BY <2>2, <2>3 DEF StaysOver, Waiting
  <2>5. ASSUME NEW c \in Conns
        PROVE  /\ i \in RejectedTo[c] <=> Rejected(c, i)
               /\ i \in RejectedTo'[c] <=> Rejected(c, i)'
               /\ i \in ReceivedBy[c] <=> Received(c, i)
               /\ i \in ReceivedBy'[c] <=> Received(c, i)'
    BY <1>1, <2>3 DEF RejectedTo, ReceivedBy
  <2>6. ASSUME NEW r \in Replicas
        PROVE  /\ <<r, i>> \in Flying <=> Carries(r, i)
               /\ <<r, i>> \in Flying' <=> Carries(r, i)'
    BY <1>1, <2>3 DEF Flying
  <2> QED
    BY <2>2, <2>4, <2>5, <2>6 DEF StaysOver, StaysSettled
<1>2. IInv /\ [Next]_vars => \A i \in DOMAIN sent : StaysSettled(i)
  BY <1>1, DeliveryStep DEF StaysSettled
<1> QED
  BY <1>2, Invariance, PTL DEF Spec, SettledForGood

-----------------------------------------------------------------------------
(* Sessions.                                                                *)

Phase(c) == IF sock[c] = "new" THEN "new" ELSE IF Live(c) THEN "live" ELSE "ended"

\* The user and the client id of c, each on its replica.
Owner(c) ==
  LET id == Identity[c] IN
    IF sock[c] = "new" THEN Undefined
    ELSE <<<<id.replica, id.user>>, <<id.replica, id.client>>>>

Registries == INSTANCE SessionLifecycle WITH
  Users <- Replicas \X Users, Clients <- Replicas \X Clients,
  phase <- [c \in Conns |-> Phase(c)],
  owner <- [c \in Conns |-> Owner(c)],
  announced <- [p \in Replicas \X Users |-> Cardinality(Members(p[1], p[2]))]

\* The sessions messages are sent to come and go, on each replica, as
\* SessionLifecycle allows, which SessionRegistry implements too: the registry
\* that this module keeps in brief and the one modelled in full promise the same.
ImplementsRegistries == Registries!Spec

\* What the session map needs besides: only a socket that was opened and is not
\* closed has a session, and a user has finitely many on a replica.
SessionsBounded ==
  /\ \A c \in Conns : Live(c) => sock[c] \in {"open", "closing"}
  /\ \A r \in Replicas, u \in Users : IsFiniteSet(Members(r, u))

\* A new session joins the members of its user on its replica.
LEMMA ConnectAdmits ==
  ASSUME IInv, SessionsBounded, NEW c \in Conns, Connect(c)
  PROVE  /\ SessionsBounded'
         /\ \E u \in Replicas \X Users, k \in Replicas \X Clients : Registries!Admit(c, u, k)
<1>1. PICK r, u, k : r = Identity[c].replica /\ u = Identity[c].user /\ k = Identity[c].client
  OBVIOUS
<1>2. /\ r \in Replicas /\ u \in Users /\ k \in Clients
      /\ \A d \in Conns : /\ Identity[d].replica \in Replicas /\ Identity[d].client \in Clients
                          /\ Identity[d].user \in Users /\ d # Undefined
  BY <1>1, FanoutAssumption
<1>3. /\ sock[c] = "new" /\ sessions[r][k] = Undefined
      /\ sock' = [sock EXCEPT ![c] = "open"]
      /\ sessions' = [sessions EXCEPT ![r][k] = c]
  BY <1>1 DEF Connect
<1>4. /\ sessions'[r][k] = c
      /\ \A q \in Replicas, l \in Clients : q # r \/ l # k => sessions'[q][l] = sessions[q][l]
  BY <1>2, <1>3, SlotFacts DEF IInv, TypeOK
<1>5. sock'[c] = "open" /\ \A d \in Conns \ {c} : sock'[d] = sock[d]
  BY <1>3 DEF IInv, TypeOK
<1>6. /\ Live(c)' /\ ~Live(c)
      /\ \A d \in Conns \ {c} : Live(d)' <=> Live(d)
  BY <1>1, <1>2, <1>3, <1>4 DEF Live
<1>7. /\ Members(r, u)' = Members(r, u) \cup {k} /\ k \notin Members(r, u)
      /\ \A q \in Replicas, v \in Users : q # r \/ v # u => Members(q, v)' = Members(q, v)
  <2>1. k \notin Members(r, u) /\ k \in Members(r, u)'
    BY <1>1, <1>2, <1>3, <1>4 DEF Members
  <2>2. \A l \in Clients \ {k} : l \in Members(r, u)' <=> l \in Members(r, u)
    BY <1>2, <1>4 DEF Members
  <2>3. ASSUME NEW q \in Replicas, NEW v \in Users, q # r \/ v # u
        PROVE  Members(q, v)' = Members(q, v)
    <3>1. \A l \in Clients : q # r \/ l # k => sessions'[q][l] = sessions[q][l]
      BY <1>4
    <3>2. q = r => k \notin Members(q, v) /\ k \notin Members(q, v)'
      BY <1>1, <1>2, <1>3, <1>4, <2>3 DEF Members
    <3> QED
      BY <3>1, <3>2 DEF Members
  <2>4. Members(r, u) \subseteq Clients /\ Members(r, u)' \subseteq Clients
    BY DEF Members
  <2> QED
    BY <2>1, <2>2, <2>3, <2>4
<1>8. /\ IsFiniteSet(Members(r, u)')
      /\ Cardinality(Members(r, u)') = Cardinality(Members(r, u)) + 1
  BY <1>2, <1>7, FS_AddElement DEF SessionsBounded
<1>9. SessionsBounded'
  <2>1. \A d \in Conns : Live(d)' => sock'[d] \in {"open", "closing"}
    BY <1>5, <1>6 DEF SessionsBounded
  <2>2. \A q \in Replicas, v \in Users : IsFiniteSet(Members(q, v)')
    BY <1>7, <1>8 DEF SessionsBounded
  <2> QED
    BY <2>1, <2>2 DEF SessionsBounded
<1>10. /\ Phase(c) = "new" /\ Phase(c)' = "live"
       /\ Owner(c)' = <<<<r, u>>, <<r, k>>>>
       /\ \A d \in Conns \ {c} : Phase(d)' = Phase(d) /\ Owner(d)' = Owner(d)
  BY <1>1, <1>3, <1>5, <1>6 DEF Phase, Owner
<1>11. \A d \in Conns : Phase(d) = "live" => Owner(d)[2] # <<r, k>>
  <2> SUFFICES ASSUME NEW d \in Conns, Phase(d) = "live", Owner(d)[2] = <<r, k>>
               PROVE  FALSE
    OBVIOUS
  <2>1. Live(d) /\ Identity[d].replica = r /\ Identity[d].client = k
    BY DEF Phase, Owner
  <2> QED
    BY <1>2, <1>3, <2>1 DEF Live
<1>12. Registries!Admit(c, <<r, u>>, <<r, k>>)
  <2>1. [d \in Conns |-> Phase(d)'] = [[d \in Conns |-> Phase(d)] EXCEPT ![c] = "live"]
    BY <1>10
  <2>2. [d \in Conns |-> Owner(d)'] =
          [[d \in Conns |-> Owner(d)] EXCEPT ![c] = <<<<r, u>>, <<r, k>>>>]
    BY <1>10
  <2>3. [p \in Replicas \X Users |-> Cardinality(Members(p[1], p[2])')] =
          [[p \in Replicas \X Users |-> Cardinality(Members(p[1], p[2]))] EXCEPT
             ![<<r, u>>] = @ + 1]
    <3> DEFINE f == [p \in Replicas \X Users |-> Cardinality(Members(p[1], p[2]))]
    <3>1. ASSUME NEW p \in Replicas \X Users
          PROVE  Cardinality(Members(p[1], p[2])') = [f EXCEPT ![<<r, u>>] = @ + 1][p]
      <4>1. CASE p = <<r, u>>
        BY <1>2, <1>8, <4>1
      <4>2. CASE p # <<r, u>>
        <5>1. p[1] \in Replicas /\ p[2] \in Users /\ (p[1] # r \/ p[2] # u)
          BY <4>2
        <5> QED
          BY <1>7, <4>2, <5>1
      <4> QED
        BY <4>1, <4>2
    <3> QED
      BY <3>1
  <2> QED
    BY <1>10, <1>11, <2>1, <2>2, <2>3 DEF Registries!Admit
<1> QED
  BY <1>2, <1>9, <1>12

\* A live session that is released leaves them.
LEMMA ReleaseEnds ==
  ASSUME IInv, SessionsBounded, NEW c \in Conns, Live(c), sessions' = Released(c),
         NEW state \in {"closing", "closed"}, sock' = [sock EXCEPT ![c] = state]
  PROVE  SessionsBounded' /\ Registries!End(c)
<1>1. PICK r, u, k : r = Identity[c].replica /\ u = Identity[c].user /\ k = Identity[c].client
  OBVIOUS
<1>2. /\ r \in Replicas /\ u \in Users /\ k \in Clients
      /\ \A d \in Conns : /\ Identity[d].replica \in Replicas /\ Identity[d].client \in Clients
                          /\ Identity[d].user \in Users /\ d # Undefined
  BY <1>1, FanoutAssumption
<1>3. sessions[r][k] = c /\ sessions' = [sessions EXCEPT ![r][k] = Undefined]
  BY <1>1 DEF Live, Released
<1>4. /\ sessions'[r][k] = Undefined
      /\ \A q \in Replicas, l \in Clients : q # r \/ l # k => sessions'[q][l] = sessions[q][l]
  BY <1>2, <1>3, SlotFacts DEF IInv, TypeOK
<1>5. sock'[c] = state /\ sock[c] # "new" /\ \A d \in Conns \ {c} : sock'[d] = sock[d]
  BY DEF IInv, TypeOK, SessionsBounded
<1>6. /\ ~Live(c)'
      /\ \A d \in Conns \ {c} : Live(d)' <=> Live(d)
  BY <1>1, <1>2, <1>3, <1>4 DEF Live
<1>7. /\ Members(r, u)' = Members(r, u) \ {k} /\ k \in Members(r, u)
      /\ \A q \in Replicas, v \in Users : q # r \/ v # u => Members(q, v)' = Members(q, v)
  <2>1. k \in Members(r, u) /\ k \notin Members(r, u)'
    BY <1>1, <1>2, <1>3, <1>4 DEF Members
  <2>2. \A l \in Clients \ {k} : l \in Members(r, u)' <=> l \in Members(r, u)
    BY <1>2, <1>4 DEF Members
  <2>3. ASSUME NEW q \in Replicas, NEW v \in Users, q # r \/ v # u
        PROVE  Members(q, v)' = Members(q, v)
    <3>1. \A l \in Clients : q # r \/ l # k => sessions'[q][l] = sessions[q][l]
      BY <1>4
    <3>2. q = r => k \notin Members(q, v) /\ k \notin Members(q, v)'
      BY <1>1, <1>2, <1>3, <1>4, <2>3 DEF Members
    <3> QED
      BY <3>1, <3>2 DEF Members
  <2>4. Members(r, u) \subseteq Clients /\ Members(r, u)' \subseteq Clients
    BY DEF Members
  <2> QED
    BY <2>1, <2>2, <2>3, <2>4
<1>8. /\ IsFiniteSet(Members(r, u)')
      /\ Cardinality(Members(r, u)') = Cardinality(Members(r, u)) - 1
  BY <1>2, <1>7, FS_RemoveElement DEF SessionsBounded
<1>9. SessionsBounded'
  <2>1. \A d \in Conns : Live(d)' => sock'[d] \in {"open", "closing"}
    BY <1>5, <1>6 DEF SessionsBounded
  <2>2. \A q \in Replicas, v \in Users : IsFiniteSet(Members(q, v)')
    BY <1>7, <1>8 DEF SessionsBounded
  <2> QED
    BY <2>1, <2>2 DEF SessionsBounded
<1>10. /\ Phase(c) = "live" /\ Phase(c)' = "ended" /\ Owner(c)[1] = <<r, u>>
       /\ \A d \in Conns \ {c} : Phase(d)' = Phase(d)
       /\ \A d \in Conns : Owner(d)' = Owner(d)
  BY <1>1, <1>5, <1>6 DEF Phase, Owner
<1>11. Registries!End(c)
  <2>1. [d \in Conns |-> Phase(d)'] = [[d \in Conns |-> Phase(d)] EXCEPT ![c] = "ended"]
    BY <1>10
  <2>2. [p \in Replicas \X Users |-> Cardinality(Members(p[1], p[2])')] =
          [[p \in Replicas \X Users |-> Cardinality(Members(p[1], p[2]))] EXCEPT
             ![<<r, u>>] = @ - 1]
    <3> DEFINE f == [p \in Replicas \X Users |-> Cardinality(Members(p[1], p[2]))]
    <3>1. ASSUME NEW p \in Replicas \X Users
          PROVE  Cardinality(Members(p[1], p[2])') = [f EXCEPT ![<<r, u>>] = @ - 1][p]
      <4>1. CASE p = <<r, u>>
        BY <1>2, <1>8, <4>1
      <4>2. CASE p # <<r, u>>
        <5>1. p[1] \in Replicas /\ p[2] \in Users /\ (p[1] # r \/ p[2] # u)
          BY <4>2
        <5> QED
          BY <1>7, <4>2, <5>1
      <4> QED
        BY <4>1, <4>2
    <3> QED
      BY <3>1
  <2>3. [d \in Conns |-> Owner(d)'] = [d \in Conns |-> Owner(d)]
    BY <1>10
  <2> QED
    BY <1>10, <2>1, <2>2, <2>3 DEF Registries!End
<1> QED
  BY <1>9, <1>11

\* A step that leaves the session map alone and opens or closes no session's
\* socket does not show.
LEMMA SessionsQuiet ==
  ASSUME IInv, SessionsBounded, sessions' = sessions,
         \A c \in Conns : /\ sock'[c] = "new" <=> sock[c] = "new"
                          /\ Live(c) => sock'[c] \in {"open", "closing"}
  PROVE  SessionsBounded' /\ UNCHANGED Registries!lifecycleVars
<1>1. /\ \A c \in Conns : Live(c)' <=> Live(c)
      /\ \A r \in Replicas, u \in Users : Members(r, u)' = Members(r, u)
  BY DEF Live, Members
<1>2. SessionsBounded'
  <2>1. \A c \in Conns : Live(c)' => sock'[c] \in {"open", "closing"}
    BY <1>1
  <2>2. \A r \in Replicas, u \in Users : IsFiniteSet(Members(r, u)')
    BY <1>1 DEF SessionsBounded
  <2> QED
    BY <2>1, <2>2 DEF SessionsBounded
<1>3. \A c \in Conns : Phase(c)' = Phase(c) /\ Owner(c)' = Owner(c)
  BY <1>1 DEF Phase, Owner
<1>4. [p \in Replicas \X Users |-> Cardinality(Members(p[1], p[2])')] =
        [p \in Replicas \X Users |-> Cardinality(Members(p[1], p[2]))]
  <2>1. \A p \in Replicas \X Users : Members(p[1], p[2])' = Members(p[1], p[2])
    BY <1>1
  <2> QED
    BY <2>1
<1> QED
  BY <1>2, <1>3, <1>4 DEF Registries!lifecycleVars

\* The steps of the session map are those of SessionLifecycle.
LEMMA SessionsNext ==
  IInv /\ SessionsBounded /\ [Next]_vars =>
    SessionsBounded' /\ [Registries!Next]_(Registries!lifecycleVars)
<1> SUFFICES ASSUME IInv, SessionsBounded, [Next]_vars
             PROVE  /\ SessionsBounded'
                    /\ Registries!Next \/ UNCHANGED Registries!lifecycleVars
  OBVIOUS
<1> DEFINE Goal == /\ SessionsBounded'
                   /\ Registries!Next \/ UNCHANGED Registries!lifecycleVars
<1>1. ASSUME UNCHANGED <<sock, sessions>> PROVE Goal
  BY <1>1, SessionsQuiet DEF SessionsBounded
<1>2. ASSUME NEW c \in Conns, Connect(c) PROVE Goal
  BY <1>2, ConnectAdmits DEF Registries!Next
<1>3. ASSUME NEW c \in Conns, PeerClose(c) PROVE Goal
  <2>1. \A d \in Conns : /\ sock'[d] = "new" <=> sock[d] = "new"
                         /\ Live(d) => sock'[d] \in {"open", "closing"}
    BY <1>3 DEF PeerClose, IInv, TypeOK, SessionsBounded
  <2> QED
    BY <1>3, <2>1, SessionsQuiet DEF PeerClose
<1>4. ASSUME NEW c \in Conns, Expire(c) PROVE Goal
  BY <1>4, ReleaseEnds DEF Expire, Registries!Next
<1>5. ASSUME NEW c \in Conns, CloseEvent(c) PROVE Goal
  <2>1. CASE Live(c)
    BY <1>5, <2>1, ReleaseEnds DEF CloseEvent, Registries!Next
  <2>2. CASE ~Live(c)
    <3>1. sessions' = sessions
      BY <1>5, <2>2, FanoutAssumption DEF CloseEvent, Released, Live, IInv, TypeOK
    <3>2. \A d \in Conns : /\ sock'[d] = "new" <=> sock[d] = "new"
                           /\ Live(d) => sock'[d] \in {"open", "closing"}
      BY <1>5, <2>2 DEF CloseEvent, IInv, TypeOK, SessionsBounded
    <3> QED
      BY <3>1, <3>2, SessionsQuiet
  <2> QED
    BY <2>1, <2>2
<1>6. ASSUME NEW c \in Conns, NEW raw \in Raw, Receive(c, raw) PROVE Goal
  BY <1>1, <1>6 DEF Receive
<1>8. ASSUME NEW r \in Replicas,
             \/ Publish(r) \/ PublishFails(r) \/ PublishUnanswered(r)
             \/ HandleTopicMessage(r) \/ DropSubscriber(r)
      PROVE  Goal
  BY <1>1, <1>8 DEF Publish, PublishFails, PublishUnanswered, HandleTopicMessage,
                    DropSubscriber
<1>9. CASE UNCHANGED vars
  BY <1>1, <1>9 DEF vars
<1> QED
  BY <1>2, <1>3, <1>4, <1>5, <1>6, <1>8, <1>9 DEF Next

\* On every replica the sessions that handleMessage, sendToLocalUser and
\* sendNack rely on live as SessionLifecycle says, which is what SessionRegistry
\* is proved to implement.
THEOREM RegistriesTheorem == Spec => ImplementsRegistries
<1>1. Init => SessionsBounded /\ Registries!Init
  <2> SUFFICES ASSUME Init PROVE SessionsBounded /\ Registries!Init
    OBVIOUS
  <2>1. \A c \in Conns : ~Live(c)
    BY FanoutAssumption DEF Init, Live
  <2>2. \A r \in Replicas, u \in Users : Members(r, u) = {}
    BY DEF Init, Members
  <2>3. SessionsBounded
    BY <2>1, <2>2, FS_EmptySet DEF SessionsBounded
  <2>4. \A c \in Conns : Phase(c) = "new" /\ Owner(c) = Undefined
    BY DEF Init, Phase, Owner
  <2>5. \A p \in Replicas \X Users : Cardinality(Members(p[1], p[2])) = 0
    BY <2>2, FS_EmptySet
  <2> QED
    BY <2>3, <2>4, <2>5 DEF Registries!Init
<1> QED
  BY <1>1, SessionsNext, Invariance, PTL DEF Spec, ImplementsRegistries, Registries!Spec
=============================================================================
