-------------------------- MODULE MessageDelivery --------------------------
(***************************************************************************)
(* What the gateway promises about messages between users, whatever the    *)
(* replicas, Redis and the sockets do: a frame is settled once, in the     *)
(* order its replica took it; it travels to a replica at most once; it is  *)
(* handed over, there, to sessions of the target that are not the origin   *)
(* and that have nothing newer from the same replica; and it is rejected   *)
(* to one session at most, of the client id it came from.  Queues,         *)
(* envelopes and sockets do not appear.  Fanout implements it.             *)
(***************************************************************************)
EXTENDS Naturals

CONSTANTS
  Replicas, Users, Conns, Undefined,
  Identity,   \* Identity[c]: user, client id and replica of connection c
  Frames      \* the numbers of the frames, in the order they arrive

VARIABLES
  frame,      \* frame[n]: sender and target of each frame so far
  waiting,    \* the frames that are neither published nor rejected
  flying,     \* pairs <<r, n>>: frame n is on its way to replica r
  received,   \* received[c]: the frames handed over to connection c
  rejected    \* rejected[c]: the frames connection c was told are rejected

deliveryVars == <<frame, waiting, flying, received, rejected>>

Init ==
  /\ frame = [n \in {} |-> Undefined]
  /\ waiting = {}
  /\ flying = {}
  /\ received = [c \in Conns |-> {}]
  /\ rejected = [c \in Conns |-> {}]

\* The replica that took frame n.
Origin(n) == Identity[frame[n].from].replica

\* A new frame of connection c to user u.
Arrives(c, u, n) ==
  /\ \A m \in DOMAIN frame : m < n
  /\ frame' = [m \in DOMAIN frame \cup {n} |->
                 IF m = n THEN [from |-> c, target |-> u] ELSE frame[m]]

\* The connections of the client id and replica of c.
Answerable(c) ==
  {d \in Conns : /\ Identity[d].client = Identity[c].client
                 /\ Identity[d].replica = Identity[c].replica}

\* One of them at most learns that frame n, which came from c, is rejected.
Answer(c, n) ==
  \E told \in {{}} \cup {{d} : d \in Answerable(c)} :
    rejected' = [d \in Conns |-> IF d \in told THEN rejected[d] \cup {n} ELSE rejected[d]]

Submit(c, u, n) ==
  /\ Arrives(c, u, n)
  /\ waiting' = waiting \cup {n}
  /\ UNCHANGED <<flying, received, rejected>>

\* A frame without a target is rejected at once.
Refuse(c, n) ==
  /\ Arrives(c, Undefined, n)
  /\ Answer(c, n)
  /\ UNCHANGED <<waiting, flying, received>>

\* The oldest frame that waits on its replica is published or rejected: it is
\* sent to some replicas and answered to its sender, either or both.
Settle(n) ==
  /\ n \in waiting
  /\ \A m \in waiting : Origin(m) = Origin(n) => n <= m
  /\ waiting' = waiting \ {n}
  /\ \E R \in SUBSET Replicas : flying' = flying \cup (R \X {n})
  /\ Answer(frame[n].from, n)
  /\ UNCHANGED <<frame, received>>

\* The connections of replica r that may receive frame n.
Addressees(r, n) ==
  {c \in Conns : /\ Identity[c].replica = r
                 /\ Identity[c].user = frame[n].target
                 /\ Identity[c].client # Identity[frame[n].from].client
                 /\ \A m \in received[c] : Origin(m) = Origin(n) => m < n}

Deliver(r, n) ==
  /\ <<r, n>> \in flying
  /\ flying' = flying \ {<<r, n>>}
  /\ \E C \in SUBSET Addressees(r, n) :
       received' = [c \in Conns |-> IF c \in C THEN received[c] \cup {n} ELSE received[c]]
  /\ UNCHANGED <<frame, waiting, rejected>>

\* What is on its way to replica r is lost.
Lose(r) ==
  /\ flying' = {p \in flying : p[1] # r}
  /\ UNCHANGED <<frame, waiting, received, rejected>>

Next ==
  \/ \E c \in Conns, n \in Frames : Refuse(c, n) \/ \E u \in Users : Submit(c, u, n)
  \/ \E n \in Frames : Settle(n) \/ \E r \in Replicas : Deliver(r, n)
  \/ \E r \in Replicas : Lose(r)

Spec == Init /\ [][Next]_deliveryVars
=============================================================================
