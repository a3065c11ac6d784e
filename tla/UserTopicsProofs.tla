-------------------------- MODULE UserTopicsProofs --------------------------
(***************************************************************************)
(* Proofs about UserTopics, for every set of users, every number of        *)
(* outstanding retry loops and every retry budget.                         *)
(***************************************************************************)
EXTENDS UserTopics, TLAPS

-----------------------------------------------------------------------------
(* The inductive invariant.                                                 *)

\* The wire of u carries loops of u that are not asleep, each once, and every
\* such loop is on it.
WireFaithful ==
  /\ \A u \in Users : \A i \in 1..Len(wire[u]) :
       /\ loop[wire[u][i]] # None
       /\ loop[wire[u][i]].user = u
       /\ ~loop[wire[u][i]].asleep
  /\ \A u \in Users : \A i, j \in 1..Len(wire[u]) :
       wire[u][i] = wire[u][j] => i = j
  /\ \A o \in Ops : loop[o] # None /\ ~loop[o].asleep =>
       \E i \in 1..Len(wire[loop[o].user]) : wire[loop[o].user][i] = o
  /\ \A o \in Ops : loop[o] # None /\ loop[o].asleep => loop[o].attempt < Attempts

\* Without a race, a loop that has failed an attempt is the only one.
RetryAlone ==
  \A u \in Users \ raced : \A o, p \in LoopsOf(u) :
    loop[o].asleep \/ loop[o].attempt > 1 => p = o

\* The channel is as a settled subscribe (claim) or unsubscribe left it.
ChannelIs(u, claim) ==
  /\ claim => listeners[u] > 0
  /\ u \notin leftover => listeners[u] = IF claim THEN 1 ELSE 0

\* Without a race the oldest outstanding loop finds the channel as the loops
\* before it were to leave it, and a sleeping loop is what the claim asks for.
OldestFitsChannel ==
  \A u \in Users \ raced :
    /\ wire[u] # << >> => ChannelIs(u, loop[wire[u][1]].kind = "unsubscribe")
    /\ \A o \in LoopsOf(u) : loop[o].asleep =>
         /\ ChannelIs(u, loop[o].kind = "unsubscribe")
         /\ u \in subscribed <=> loop[o].kind = "subscribe"

IInv ==
  /\ TypeOK /\ ClaimOnlyWithSessions /\ UnclaimedGaveUp
  /\ WireFaithful /\ RetryAlone /\ PipelineAlternates
  /\ OldestFitsChannel /\ QuietAgreement

-----------------------------------------------------------------------------
(* Progress of the retry loops.                                             *)

\* The commands and sleeps a loop still has before it, at most.
StepsLeft(l) == 2 * (Attempts - l.attempt) + (IF l.asleep THEN 0 ELSE 1)

\* However the loops of a channel interleave, each step of one uses up some of
\* its budget, or ends it, and leaves the others alone: answers that belong to
\* other loops never start an attempt over.
LoopsAdvance ==
  [][\A o \in Ops : loop[o] # None /\ loop'[o] # loop[o] =>
       /\ \A p \in Ops \ {o} : loop'[p] = loop[p]
       /\ \/ loop'[o] = None
          \/ /\ loop'[o].user = loop[o].user /\ loop'[o].kind = loop[o].kind
             /\ StepsLeft(loop'[o]) < StepsLeft(loop[o])]_vars

-----------------------------------------------------------------------------
(* The proofs.                                                              *)

\* A command appended to a channel's wire comes last.
LEMMA AppendFacts ==
  ASSUME NEW q \in Seq(Ops), NEW o \in Ops
  PROVE  /\ Append(q, o) \in Seq(Ops) /\ Append(q, o) # << >>
         /\ Len(q) \in Nat
         /\ Len(Append(q, o)) = Len(q) + 1
         /\ \A i \in 1..Len(q) : Append(q, o)[i] = q[i] /\ q[i] \in Ops
         /\ Append(q, o)[Len(q) + 1] = o
OBVIOUS

\* The oldest command leaves a channel's wire and the others move up.
LEMMA TailFacts ==
  ASSUME NEW q \in Seq(Ops), q # << >>
  PROVE  /\ Tail(q) \in Seq(Ops)
         /\ Len(q) \in Nat \ {0}
         /\ Head(q) = q[1] /\ q[1] \in Ops
         /\ Len(Tail(q)) = Len(q) - 1
         /\ \A i \in 1..(Len(q) - 1) : Tail(q)[i] = q[i + 1]
         /\ \A i \in 1..Len(q) : q[i] \in Ops
OBVIOUS

\* Initially nobody is connected and no loop runs.
LEMMA InitIInv == Init => IInv
<1> SUFFICES ASSUME Init PROVE IInv
  OBVIOUS
<1> USE TopicAssumption, NoneAssumption
<1>1. TypeOK
  BY DEF Init, TypeOK
<1>2. ClaimOnlyWithSessions /\ UnclaimedGaveUp /\ WireFaithful
  BY DEF Init, ClaimOnlyWithSessions, UnclaimedGaveUp, WireFaithful
<1>3. RetryAlone /\ PipelineAlternates /\ OldestFitsChannel /\ QuietAgreement
  BY DEF Init, RetryAlone, PipelineAlternates, OldestFitsChannel, QuietAgreement,
         LoopsOf, Quiet
<1> QED
  BY <1>1, <1>2, <1>3 DEF IInv

\* The invariants of the claim, which the wire does not enter.
ClaimInv == ClaimOnlyWithSessions /\ UnclaimedGaveUp

\* The invariants of the wire, which the session count does not enter.
WireInv ==
  /\ WireFaithful /\ RetryAlone /\ PipelineAlternates
  /\ OldestFitsChannel /\ QuietAgreement

\* A wire stays free of repetitions when a new loop is appended.
LEMMA NoRepetition ==
  ASSUME NEW u \in Users, NEW o \in Ops, NEW n \in Nat,
         \A i \in 1..n : wire'[u][i] = wire[u][i] /\ wire[u][i] # o,
         wire'[u][n + 1] = o,
         \A i, j \in 1..n : wire[u][i] = wire[u][j] => i = j
  PROVE  \A i, j \in 1..(n + 1) : wire'[u][i] = wire'[u][j] => i = j
<1> SUFFICES ASSUME NEW i \in 1..(n + 1), NEW j \in 1..(n + 1), wire'[u][i] = wire'[u][j]
             PROVE  i = j
  OBVIOUS
<1>1. (i \in 1..n \/ i = n + 1) /\ (j \in 1..n \/ j = n + 1)
  OBVIOUS
<1>2. CASE i \in 1..n /\ j \in 1..n
  BY <1>2
<1>3. CASE i = n + 1 /\ j \in 1..n
  BY <1>3
<1>4. CASE i \in 1..n /\ j = n + 1
  BY <1>4
<1> QED
  BY <1>1, <1>2, <1>3, <1>4

\* A new loop that sends its command keeps the invariants of the wire when the
\* claim moves with it.
LEMMA SentKeeps ==
  ASSUME IInv, NEW u \in Users, NEW kind \in {"subscribe", "unsubscribe"},
         StartLoop(u, kind), ~AnsweredLocally(u, kind), UNCHANGED leftover,
         subscribed' = IF kind = "subscribe" THEN subscribed \cup {u}
                                             ELSE subscribed \ {u},
         u \in subscribed <=> kind = "unsubscribe"
  PROVE  /\ loop' \in [Ops -> Loop \cup {None}]
         /\ wire' \in [Users -> Seq(Ops)]
         /\ listeners' \in [Users -> 0..2]
         /\ raced' \subseteq Users
         /\ WireInv'
<1> USE TopicAssumption, NoneAssumption
<1> DEFINE l == [user |-> u, kind |-> kind, attempt |-> 1, asleep |-> FALSE]
<1>1. PICK o \in Ops :
        /\ loop[o] = None
        /\ loop' = [loop EXCEPT ![o] = l]
        /\ wire' = [wire EXCEPT ![u] = Append(@, o)]
        /\ raced' = IF StartRaces(u, kind) THEN raced \cup {u} ELSE raced
        /\ UNCHANGED <<listeners, leftover>>
  <2>1. l.user = u /\ l.kind = kind
    OBVIOUS
  <2>2. \E o \in Ops : loop[o] = None /\ Call(o, l) /\ MarkRace(u, StartRaces(u, kind))
    BY DEF StartLoop
  <2> HIDE DEF l
  <2> QED
    BY <2>1, <2>2 DEF Call, MarkRace
<1> DEFINE n == Len(wire[u])
<1>2. /\ l \in Loop /\ l # None
      /\ l.user = u /\ l.kind = kind /\ l.attempt = 1 /\ ~l.asleep
  <2>1. 1 \in 1..Attempts
    OBVIOUS
  <2>2. l \in Loop
    BY <2>1 DEF Loop
  <2> QED
    BY <2>2
<1>3. /\ loop'[o] = l
      /\ \A p \in Ops : p # o => loop'[p] = loop[p]
      /\ loop' \in [Ops -> Loop \cup {None}]
  BY <1>1, <1>2 DEF IInv, TypeOK
<1>4. /\ \A v \in Users : v # u => wire'[v] = wire[v]
      /\ wire'[u] = Append(wire[u], o)
      /\ wire[u] \in Seq(Ops)
  BY <1>1 DEF IInv, TypeOK
<1>5. /\ wire' \in [Users -> Seq(Ops)] /\ wire'[u] # << >>
      /\ n \in Nat /\ Len(wire'[u]) = n + 1
      /\ \A i \in 1..n : wire'[u][i] = wire[u][i] /\ wire[u][i] \in Ops
      /\ wire'[u][n + 1] = o
  BY <1>1, <1>4, AppendFacts DEF IInv, TypeOK
<1>6. /\ raced' \subseteq Users /\ raced \subseteq raced'
      /\ u \notin raced' => u \notin raced /\ ~StartRaces(u, kind)
      /\ \A v \in Users : v # u => (v \in raced' <=> v \in raced)
  BY <1>1 DEF IInv, TypeOK
<1> HIDE DEF l, n
<1>7. \A v \in Users : \A i \in 1..Len(wire[v]) : wire[v][i] \in Ops /\ wire[v][i] # o
  <2>1. \A v \in Users : wire[v] \in Seq(Ops)
    BY DEF IInv, TypeOK
  <2> QED
    BY <2>1, <1>1 DEF IInv, WireFaithful
<1>8. WireFaithful'
  <2>1. \A v \in Users : \A i \in 1..Len(wire'[v]) :
          /\ loop'[wire'[v][i]] # None
          /\ loop'[wire'[v][i]].user = v
          /\ ~loop'[wire'[v][i]].asleep
    <3> SUFFICES ASSUME NEW v \in Users, NEW i \in 1..Len(wire'[v])
                 PROVE  /\ loop'[wire'[v][i]] # None
                        /\ loop'[wire'[v][i]].user = v
                        /\ ~loop'[wire'[v][i]].asleep
      OBVIOUS
    <3>1. CASE v = u /\ i = n + 1
      BY <3>1, <1>2, <1>3, <1>5
    <3>2. CASE v = u /\ i # n + 1
      <4>1. i \in 1..n
        BY <3>2, <1>5
      <4>2. wire'[v][i] = wire[u][i] /\ wire[u][i] \in Ops /\ wire[u][i] # o
        BY <4>1, <3>2, <1>5, <1>7 DEF n
      <4>3. loop'[wire'[v][i]] = loop[wire[u][i]]
        BY <4>2, <1>3
      <4> QED
        BY <4>1, <4>3, <3>2 DEF IInv, WireFaithful, n
    <3>3. CASE v # u
      BY <3>3, <1>3, <1>4, <1>7 DEF IInv, WireFaithful
    <3> QED
      BY <3>1, <3>2, <3>3
  <2>2. \A v \in Users : \A i, j \in 1..Len(wire'[v]) : wire'[v][i] = wire'[v][j] => i = j
    <3> SUFFICES ASSUME NEW v \in Users, NEW i \in 1..Len(wire'[v]),
                        NEW j \in 1..Len(wire'[v]), wire'[v][i] = wire'[v][j]
                 PROVE  i = j
      OBVIOUS
    <3>1. CASE v = u
      <4>1. \A p, q \in 1..n : wire[u][p] = wire[u][q] => p = q
        BY DEF IInv, WireFaithful, n
      <4>2. \A p \in 1..n : wire'[u][p] = wire[u][p] /\ wire[u][p] # o
        BY <1>5, <1>7 DEF n
      <4>3. \A p, q \in 1..(n + 1) : wire'[u][p] = wire'[u][q] => p = q
        <5>1. n \in Nat /\ wire'[u][n + 1] = o
          BY <1>5
        <5> QED
          BY <4>1, <4>2, <5>1, NoRepetition
      <4> QED
        BY <3>1, <4>3, <1>5
    <3>2. CASE v # u
      BY <3>2, <1>4 DEF IInv, WireFaithful
    <3> QED
      BY <3>1, <3>2
  <2>3. \A p \in Ops : loop'[p] # None /\ ~loop'[p].asleep =>
          \E i \in 1..Len(wire'[loop'[p].user]) : wire'[loop'[p].user][i] = p
    <3> SUFFICES ASSUME NEW p \in Ops, loop'[p] # None, ~loop'[p].asleep
                 PROVE  \E i \in 1..Len(wire'[loop'[p].user]) : wire'[loop'[p].user][i] = p
      OBVIOUS
    <3>1. CASE p = o
      <4>1. n + 1 \in 1..Len(wire'[u])
        BY <1>5
      <4> QED
        BY <4>1, <3>1, <1>2, <1>3, <1>5
    <3>2. CASE p # o
      <4>1. loop'[p] = loop[p] /\ loop[p].user \in Users
        BY <3>2, <1>3 DEF IInv, TypeOK, Loop
      <4>2. PICK i \in 1..Len(wire[loop[p].user]) : wire[loop[p].user][i] = p
        BY <4>1 DEF IInv, WireFaithful
      <4>3. i \in 1..Len(wire'[loop[p].user]) /\ wire'[loop[p].user][i] = p
        <5>1. CASE loop[p].user = u
          <6>1. i \in 1..n /\ n \in Nat /\ wire[u][i] = p
            BY <4>2, <5>1 DEF n
          <6>2. i \in 1..(n + 1)
            BY <6>1
          <6> QED
            BY <5>1, <6>1, <6>2, <1>5 DEF n
        <5>2. CASE loop[p].user # u
          BY <4>1, <4>2, <5>2, <1>4
        <5> QED
          BY <5>1, <5>2
      <4> QED
        BY <4>1, <4>3
    <3> QED
      BY <3>1, <3>2
  <2>4. \A p \in Ops : loop'[p] # None /\ loop'[p].asleep => loop'[p].attempt < Attempts
    BY <1>2, <1>3 DEF IInv, WireFaithful
  <2> QED
    BY <2>1, <2>2, <2>3, <2>4 DEF WireFaithful
<1>9. /\ \A v \in Users : v # u => LoopsOf(v)' = LoopsOf(v)
      /\ LoopsOf(u)' = LoopsOf(u) \cup {o}
  BY <1>1, <1>2, <1>3 DEF LoopsOf
<1>10. u \notin raced' => \A p \in LoopsOf(u) : ~loop[p].asleep /\ loop[p].attempt = 1
  BY <1>6 DEF StartRaces, LoopsOf, IInv, TypeOK, Loop
<1>11. RetryAlone'
  <2> SUFFICES ASSUME NEW v \in Users \ raced', NEW p \in LoopsOf(v)', NEW r \in LoopsOf(v)',
                      loop'[p].asleep \/ loop'[p].attempt > 1
               PROVE  r = p
    BY DEF RetryAlone
  <2>1. CASE v = u
    BY <2>1, <1>2, <1>3, <1>9, <1>10 DEF LoopsOf
  <2>2. CASE v # u
    <3>1. v \in Users \ raced /\ p \in LoopsOf(v) /\ r \in LoopsOf(v)
      BY <2>2, <1>6, <1>9
    <3>2. loop'[p] = loop[p]
      BY <3>1, <1>1, <1>3 DEF LoopsOf
    <3> QED
      BY <3>1, <3>2 DEF IInv, RetryAlone
  <2> QED
    BY <2>1, <2>2
<1>12. PipelineAlternates'
  <2> SUFFICES ASSUME NEW v \in Users \ raced'
               PROVE  /\ \A i \in 1..(Len(wire'[v]) - 1) :
                           loop'[wire'[v][i]].kind # loop'[wire'[v][i + 1]].kind
                      /\ wire'[v] # << >> =>
                           (v \in subscribed' <=> loop'[wire'[v][Len(wire'[v])]].kind = "subscribe")
    BY DEF PipelineAlternates
  <2>1. CASE v # u
    <3>1. /\ v \in Users \ raced /\ wire'[v] = wire[v]
          /\ v \in subscribed' <=> v \in subscribed
      BY <2>1, <1>4, <1>6
    <3>2. \A i \in 1..Len(wire[v]) : loop'[wire[v][i]] = loop[wire[v][i]]
      BY <1>3, <1>7
    <3>3. wire[v] # << >> => Len(wire[v]) \in 1..Len(wire[v])
      BY DEF IInv, TypeOK
    <3>4. \A i \in 1..(Len(wire[v]) - 1) : i \in 1..Len(wire[v]) /\ i + 1 \in 1..Len(wire[v])
      BY DEF IInv, TypeOK
    <3>5. /\ \A i \in 1..(Len(wire[v]) - 1) :
               loop[wire[v][i]].kind # loop[wire[v][i + 1]].kind
          /\ wire[v] # << >> =>
               (v \in subscribed <=> loop[wire[v][Len(wire[v])]].kind = "subscribe")
      BY <3>1 DEF IInv, PipelineAlternates
    <3>6. \A i \in 1..(Len(wire[v]) - 1) :
            loop'[wire[v][i]].kind # loop'[wire[v][i + 1]].kind
      BY <3>2, <3>4, <3>5
    <3>7. wire[v] # << >> =>
            (v \in subscribed' <=> loop'[wire[v][Len(wire[v])]].kind = "subscribe")
      BY <3>1, <3>2, <3>3, <3>5
    <3> QED
      BY <3>1, <3>6, <3>7
  <2>2. CASE v = u
    <3>1. u \notin raced
      BY <2>2, <1>6
    <3>2. \A i \in 1..n : loop'[wire'[u][i]] = loop[wire[u][i]]
      BY <1>3, <1>5, <1>7 DEF n
    <3>3. n > 0 => loop[wire[u][n]].kind # kind
      <4> SUFFICES ASSUME n > 0 PROVE loop[wire[u][n]].kind # kind
        OBVIOUS
      <4>1. wire[u] # << >> /\ n \in 1..n
        BY <1>4, <1>5 DEF n
      <4>2. u \in subscribed <=> loop[wire[u][n]].kind = "subscribe"
        BY <3>1, <4>1 DEF IInv, PipelineAlternates, n
      <4> QED
        BY <4>2
    <3>4. \A i \in 1..(n - 1) : loop[wire[u][i]].kind # loop[wire[u][i + 1]].kind
      BY <3>1 DEF IInv, PipelineAlternates, n
    <3>5. ASSUME NEW i \in 1..n
          PROVE  loop'[wire'[u][i]].kind # loop'[wire'[u][i + 1]].kind
      <4>1. CASE i = n
        BY <4>1, <3>2, <3>3, <1>2, <1>3, <1>5
      <4>2. CASE i # n
        <5>1. i \in 1..(n - 1) /\ i + 1 \in 1..n
          BY <4>2, <1>5
        <5> QED
          BY <5>1, <3>2, <3>4
      <4> QED
        BY <4>1, <4>2
    <3>6. u \in subscribed' <=> loop'[wire'[u][n + 1]].kind = "subscribe"
      BY <1>2, <1>3, <1>5
    <3>7. Len(wire'[u]) - 1 = n
      BY <1>5
    <3> QED
      BY <2>2, <3>5, <3>6, <3>7, <1>5
  <2> QED
    BY <2>1, <2>2
<1>13. OldestFitsChannel' /\ QuietAgreement'
  <2> SUFFICES ASSUME NEW v \in Users \ raced'
               PROVE  /\ wire'[v] # << >> => ChannelIs(v, loop[wire[v][1]].kind = "unsubscribe")'
                      /\ \A p \in LoopsOf(v)' : loop'[p].asleep =>
                           /\ ChannelIs(v, loop[p].kind = "unsubscribe")'
                           /\ v \in subscribed' <=> loop'[p].kind = "subscribe"
                      /\ Quiet(v)' => ChannelIs(v, v \in subscribed)'
    BY DEF OldestFitsChannel, QuietAgreement, ChannelIs
  <2>1. CASE v # u
    <3>1. /\ v \in Users \ raced /\ wire'[v] = wire[v]
          /\ v \in subscribed' <=> v \in subscribed
          /\ LoopsOf(v)' = LoopsOf(v)
      BY <2>1, <1>4, <1>6, <1>9
    <3>2. \A p \in LoopsOf(v) : loop'[p] = loop[p]
      BY <1>1, <1>3 DEF LoopsOf
    <3>3. wire[v] # << >> => loop'[wire[v][1]] = loop[wire[v][1]]
      <4>1. wire[v] # << >> => 1 \in 1..Len(wire[v])
        BY DEF IInv, TypeOK
      <4> QED
        BY <4>1, <1>3, <1>7
    <3> QED
      BY <3>1, <3>2, <3>3, <1>1 DEF IInv, OldestFitsChannel, QuietAgreement, ChannelIs, Quiet
  <2>2. CASE v = u
    <3>1. u \notin raced
      BY <2>2, <1>6
    <3>2. ChannelIs(u, loop[wire[u][1]].kind = "unsubscribe")'
      <4>1. CASE n = 0
        <5>1. wire[u] = << >> /\ LoopsOf(u) = {}
          BY <4>1, <2>2, <1>4, <1>10 DEF n, IInv, WireFaithful, LoopsOf
        <5>2. ChannelIs(u, u \in subscribed)
          BY <5>1, <3>1 DEF IInv, QuietAgreement, Quiet, ChannelIs
        <5>3. wire'[u][1] = o
          BY <4>1, <1>5
        <5> QED
          BY <5>2, <5>3, <1>1, <1>2, <1>3 DEF ChannelIs
      <4>2. CASE n # 0
        <5>1. wire[u] # << >> /\ 1 \in 1..n
          BY <4>2, <1>5 DEF n
        <5>2. loop'[wire'[u][1]] = loop[wire[u][1]]
          BY <5>1, <1>3, <1>5, <1>7 DEF n
        <5> QED
          BY <3>1, <5>1, <5>2, <1>1 DEF IInv, OldestFitsChannel, ChannelIs
      <4> QED
        BY <4>1, <4>2
    <3>3. \A p \in LoopsOf(u)' : ~loop'[p].asleep
      <4>1. \A p \in LoopsOf(u) : p # o /\ p \in Ops /\ ~loop[p].asleep
        BY <2>2, <1>1, <1>10 DEF LoopsOf
      <4> QED
        BY <4>1, <1>2, <1>3, <1>9
    <3>4. ~Quiet(u)'
      BY <1>9 DEF Quiet
    <3> QED
      BY <2>2, <3>2, <3>3, <3>4
  <2> QED
    BY <2>1, <2>2
<1>14. listeners' \in [Users -> 0..2]
  BY <1>1 DEF IInv, TypeOK
<1> QED
  BY <1>3, <1>5, <1>6, <1>8, <1>11, <1>12, <1>13, <1>14 DEF WireInv

\* The invariants of one user's channel while no race has happened on it.
ChannelInv(v) ==
  v \notin raced =>
    /\ \A p, r \in LoopsOf(v) : loop[p].asleep \/ loop[p].attempt > 1 => r = p
    /\ \A i \in 1..(Len(wire[v]) - 1) :
         loop[wire[v][i]].kind # loop[wire[v][i + 1]].kind
    /\ wire[v] # << >> =>
         (v \in subscribed <=> loop[wire[v][Len(wire[v])]].kind = "subscribe")
    /\ wire[v] # << >> => ChannelIs(v, loop[wire[v][1]].kind = "unsubscribe")
    /\ \A p \in LoopsOf(v) : loop[p].asleep =>
         /\ ChannelIs(v, loop[p].kind = "unsubscribe")
         /\ v \in subscribed <=> loop[p].kind = "subscribe"
    /\ Quiet(v) => ChannelIs(v, v \in subscribed)

\* The invariants of the wire are those of each user's channel.
LEMMA PerChannel == WireInv <=> WireFaithful /\ \A v \in Users : ChannelInv(v)
<1>1. RetryAlone <=>
        \A v \in Users : v \notin raced =>
          \A p, r \in LoopsOf(v) : loop[p].asleep \/ loop[p].attempt > 1 => r = p
  BY DEF RetryAlone
<1>2. PipelineAlternates <=>
        \A v \in Users : v \notin raced =>
          /\ \A i \in 1..(Len(wire[v]) - 1) :
               loop[wire[v][i]].kind # loop[wire[v][i + 1]].kind
          /\ wire[v] # << >> =>
               (v \in subscribed <=> loop[wire[v][Len(wire[v])]].kind = "subscribe")
  BY DEF PipelineAlternates
<1>3. OldestFitsChannel <=>
        \A v \in Users : v \notin raced =>
          /\ wire[v] # << >> => ChannelIs(v, loop[wire[v][1]].kind = "unsubscribe")
          /\ \A p \in LoopsOf(v) : loop[p].asleep =>
               /\ ChannelIs(v, loop[p].kind = "unsubscribe")
               /\ v \in subscribed <=> loop[p].kind = "subscribe"
  BY DEF OldestFitsChannel
<1>4. QuietAgreement <=>
        \A v \in Users : v \notin raced => (Quiet(v) => ChannelIs(v, v \in subscribed))
  BY DEF QuietAgreement, ChannelIs
<1> QED
  BY <1>1, <1>2, <1>3, <1>4 DEF WireInv, ChannelInv

\* The same of the next state.
LEMMA PerChannelNext ==
  WireInv' <=> WireFaithful' /\ \A v \in Users : ChannelInv(v)'
<1>1. (WireInv <=> WireFaithful /\ \A v \in Users : ChannelInv(v))'
  BY PerChannel, PTL
<1> QED
  BY <1>1

\* A channel whose loops, claim and listeners a step leaves alone keeps its
\* invariants.
LEMMA Untouched ==
  ASSUME NEW v \in Users, ChannelInv(v), TypeOK,
         wire'[v] = wire[v],
         LoopsOf(v)' = LoopsOf(v),
         \A p \in LoopsOf(v) : loop'[p] = loop[p],
         \A i \in 1..Len(wire[v]) : loop'[wire[v][i]] = loop[wire[v][i]],
         listeners'[v] = listeners[v],
         v \in subscribed' <=> v \in subscribed,
         v \in leftover' <=> v \in leftover,
         v \in raced' <=> v \in raced
  PROVE  ChannelInv(v)'
<1> SUFFICES ASSUME v \notin raced PROVE ChannelInv(v)'
  BY DEF ChannelInv
<1>1. wire[v] \in Seq(Ops)
  BY DEF TypeOK
<1>2. wire[v] # << >> => Len(wire[v]) \in 1..Len(wire[v]) /\ 1 \in 1..Len(wire[v])
  BY <1>1
<1>3. \A i \in 1..(Len(wire[v]) - 1) : i \in 1..Len(wire[v]) /\ i + 1 \in 1..Len(wire[v])
  BY <1>1
<1>4. \A p, r \in LoopsOf(v) : loop'[p].asleep \/ loop'[p].attempt > 1 => r = p
  BY DEF ChannelInv
<1>5. \A i \in 1..(Len(wire[v]) - 1) :
        loop'[wire[v][i]].kind # loop'[wire[v][i + 1]].kind
  BY <1>3 DEF ChannelInv
<1>6. wire[v] # << >> =>
        /\ v \in subscribed' <=> loop'[wire[v][Len(wire[v])]].kind = "subscribe"
        /\ ChannelIs(v, loop[wire[v][1]].kind = "unsubscribe")'
  BY <1>2 DEF ChannelInv, ChannelIs
<1>7. \A p \in LoopsOf(v) : loop'[p].asleep =>
         /\ ChannelIs(v, loop[p].kind = "unsubscribe")'
         /\ v \in subscribed' <=> loop'[p].kind = "subscribe"
  BY DEF ChannelInv, ChannelIs
<1>8. Quiet(v)' => ChannelIs(v, v \in subscribed)'
  BY DEF ChannelInv, ChannelIs, Quiet
<1> QED
  BY <1>4, <1>5, <1>6, <1>7, <1>8 DEF ChannelInv

\* A loop of u, new or waking up, whose subscribe the client answers at once
\* keeps the invariants, provided that without a race it is u's only loop and an
\* unsubscribe that ran out is why the channel had a listener.
LEMMA LocalKeeps ==
  ASSUME IInv, NEW u \in Users, NEW o \in Ops,
         loop[o] # None => loop[o].asleep /\ loop[o].user = u,
         loop' = [loop EXCEPT ![o] = None],
         listeners' = [listeners EXCEPT ![u] = Listeners("subscribe", @)],
         UNCHANGED <<wire, leftover>>,
         \A v \in Users : v # u => /\ v \in subscribed' <=> v \in subscribed
                                   /\ v \in raced' <=> v \in raced,
         u \notin raced' => /\ u \in subscribed' /\ u \in leftover
                            /\ LoopsOf(u) \subseteq {o}
  PROVE  /\ loop' \in [Ops -> Loop \cup {None}]
         /\ wire' \in [Users -> Seq(Ops)]
         /\ listeners' \in [Users -> 0..2]
         /\ WireInv'
<1> USE NoneAssumption
<1>1. /\ loop' \in [Ops -> Loop \cup {None}] /\ loop'[o] = None
      /\ \A p \in Ops : p # o => loop'[p] = loop[p]
      /\ wire' \in [Users -> Seq(Ops)]
  BY DEF IInv, TypeOK
<1>2. /\ listeners' \in [Users -> 0..2] /\ listeners'[u] > 0
      /\ \A v \in Users : v # u => listeners'[v] = listeners[v]
  <2>1. /\ listeners \in [Users -> 0..2]
        /\ Listeners("subscribe", listeners[u]) \in 1..2
    BY DEF IInv, TypeOK, Listeners
  <2> QED
    BY <2>1
<1>3. \A v \in Users : \A i \in 1..Len(wire[v]) : /\ wire[v][i] \in Ops
                                                  /\ wire[v][i] # o
                                                  /\ loop'[wire[v][i]] = loop[wire[v][i]]
  <2>1. \A v \in Users : wire[v] \in Seq(Ops)
    BY DEF IInv, TypeOK
  <2>2. \A v \in Users : \A i \in 1..Len(wire[v]) : wire[v][i] \in Ops /\ wire[v][i] # o
    BY <2>1 DEF IInv, WireFaithful
  <2> QED
    BY <2>2, <1>1
<1>4. WireFaithful'
  <2>1. \A v \in Users : \A i \in 1..Len(wire'[v]) :
          /\ loop'[wire'[v][i]] # None
          /\ loop'[wire'[v][i]].user = v
          /\ ~loop'[wire'[v][i]].asleep
    BY <1>3 DEF IInv, WireFaithful
  <2>2. \A v \in Users : \A i, j \in 1..Len(wire'[v]) : wire'[v][i] = wire'[v][j] => i = j
    BY DEF IInv, WireFaithful
  <2>3. \A p \in Ops : loop'[p] # None => loop'[p] = loop[p]
    BY <1>1
  <2>4. /\ \A p \in Ops : loop'[p] # None /\ ~loop'[p].asleep =>
             \E i \in 1..Len(wire'[loop'[p].user]) : wire'[loop'[p].user][i] = p
        /\ \A p \in Ops : loop'[p] # None /\ loop'[p].asleep => loop'[p].attempt < Attempts
    BY <2>3 DEF IInv, WireFaithful
  <2> QED
    BY <2>1, <2>2, <2>4 DEF WireFaithful
<1>5. /\ LoopsOf(u)' = LoopsOf(u) \ {o}
      /\ \A v \in Users : v # u => /\ LoopsOf(v)' = LoopsOf(v)
                                   /\ \A p \in LoopsOf(v) : loop'[p] = loop[p]
  BY <1>1 DEF LoopsOf
<1>6. ASSUME NEW v \in Users, v # u PROVE ChannelInv(v)'
  <2>1. ChannelInv(v) /\ TypeOK
    BY PerChannel DEF IInv, WireInv
  <2>2. /\ wire'[v] = wire[v] /\ listeners'[v] = listeners[v]
        /\ v \in subscribed' <=> v \in subscribed
        /\ v \in leftover' <=> v \in leftover
        /\ v \in raced' <=> v \in raced
    BY <1>2, <1>6
  <2>3. /\ LoopsOf(v)' = LoopsOf(v)
        /\ \A p \in LoopsOf(v) : loop'[p] = loop[p]
        /\ \A i \in 1..Len(wire[v]) : loop'[wire[v][i]] = loop[wire[v][i]]
    BY <1>3, <1>5, <1>6
  <2> QED
    BY <2>1, <2>2, <2>3, Untouched
<1>7. ChannelInv(u)'
  <2> SUFFICES ASSUME u \notin raced' PROVE ChannelInv(u)'
    BY DEF ChannelInv
  <2>1. LoopsOf(u)' = {}
    BY <1>5
  <2>2. wire'[u] = << >> /\ Len(wire'[u]) = 0
    <3>1. wire[u] \in Seq(Ops)
      BY DEF IInv, TypeOK
    <3>2. ASSUME 1 \in 1..Len(wire[u]) PROVE FALSE
      <4>1. wire[u][1] \in LoopsOf(u) /\ wire[u][1] # o
        BY <3>2, <1>3 DEF IInv, WireFaithful, LoopsOf
      <4> QED
        BY <4>1
    <3> QED
      BY <3>1, <3>2
  <2>3. ChannelIs(u, u \in subscribed)'
    BY <1>2 DEF ChannelIs
  <2> QED
    BY <2>1, <2>2, <2>3 DEF ChannelInv
<1> QED
  BY <1>1, <1>2, <1>4, <1>6, <1>7, PerChannelNext

\* A new loop keeps the invariants of the wire when the claim moves with it,
\* whether the client answers it or sends its command.
LEMMA StartKeeps ==
  ASSUME IInv, NEW u \in Users, NEW kind \in {"subscribe", "unsubscribe"},
         StartLoop(u, kind), UNCHANGED leftover,
         subscribed' = IF kind = "subscribe" THEN subscribed \cup {u}
                                             ELSE subscribed \ {u},
         u \in subscribed <=> kind = "unsubscribe"
  PROVE  /\ loop' \in [Ops -> Loop \cup {None}]
         /\ wire' \in [Users -> Seq(Ops)]
         /\ listeners' \in [Users -> 0..2]
         /\ raced' \subseteq Users
         /\ WireInv'
<1> USE NoneAssumption
<1> DEFINE l == [user |-> u, kind |-> kind, attempt |-> 1, asleep |-> FALSE]
<1>1. PICK o \in Ops : loop[o] = None /\ Call(o, l) /\ MarkRace(u, StartRaces(u, kind))
  BY DEF StartLoop
<1>2. l.user = u /\ l.kind = kind
  OBVIOUS
<1>3. CASE AnsweredLocally(u, kind)
  <2>1. /\ loop' = [loop EXCEPT ![o] = None]
        /\ listeners' = [listeners EXCEPT ![u] = Listeners("subscribe", @)]
        /\ UNCHANGED wire
    BY <1>1, <1>2, <1>3 DEF Call
  <2>2. kind = "subscribe" /\ listeners[u] > 0
    BY <1>3 DEF AnsweredLocally
  <2>3. /\ raced' \subseteq Users
        /\ \A v \in Users : v # u => (v \in raced' <=> v \in raced)
        /\ u \notin raced' => u \notin raced /\ Quiet(u)
    BY <1>1, <1>3 DEF MarkRace, StartRaces, IInv, TypeOK
  <2>4. u \notin raced' => LoopsOf(u) = {} /\ u \in leftover
    BY <2>2, <2>3 DEF IInv, QuietAgreement, Quiet
  <2>5. /\ u \in subscribed'
        /\ \A v \in Users : v # u => (v \in subscribed' <=> v \in subscribed)
    BY <2>2
  <2> QED
    BY <1>1, <2>1, <2>3, <2>4, <2>5, LocalKeeps
<1>4. CASE ~AnsweredLocally(u, kind)
  BY <1>4, SentKeeps
<1> QED
  BY <1>3, <1>4

\* The oldest command of u's channel is of a loop of u, awake, and is nowhere
\* else on a wire.
LEMMA HeadFacts ==
  ASSUME IInv, NEW u \in Users, wire[u] # << >>
  PROVE  LET o == Head(wire[u]) IN
           /\ o = wire[u][1] /\ o \in Ops
           /\ loop[o] \in Loop /\ loop[o] # None
           /\ loop[o].user = u /\ ~loop[o].asleep
           /\ o \in LoopsOf(u)
           /\ \A v \in Users : \A i \in 1..Len(wire[v]) :
                /\ wire[v][i] \in Ops
                /\ wire[v][i] = o => v = u /\ i = 1
<1> DEFINE o == Head(wire[u])
<1>1. wire[u] \in Seq(Ops) /\ \A v \in Users : wire[v] \in Seq(Ops)
  BY DEF IInv, TypeOK
<1>2. o = wire[u][1] /\ o \in Ops /\ 1 \in 1..Len(wire[u])
  BY <1>1, TailFacts
<1> HIDE DEF o
<1>3. loop[o] # None /\ loop[o].user = u /\ ~loop[o].asleep
  BY <1>2 DEF IInv, WireFaithful
<1>4. loop[o] \in Loop
  BY <1>2, <1>3 DEF IInv, TypeOK
<1>5. o \in LoopsOf(u)
  BY <1>2, <1>3 DEF LoopsOf
<1>6. ASSUME NEW v \in Users, NEW i \in 1..Len(wire[v])
      PROVE  wire[v][i] \in Ops /\ (wire[v][i] = o => v = u /\ i = 1)
  <2>1. wire[v][i] \in Ops
    BY <1>1, <1>6
  <2>2. wire[v][i] = o => v = u
    BY <1>3, <1>6 DEF IInv, WireFaithful
  <2>3. wire[v][i] = o => i = 1
    BY <1>2, <1>6, <2>2 DEF IInv, WireFaithful
  <2> QED
    BY <2>1, <2>2, <2>3
<1> QED
  BY <1>2, <1>3, <1>4, <1>5, <1>6 DEF o

\* A loop of u that a failed attempt put to sleep.
Sleeper(x, u) == x.user = u /\ x.asleep /\ x.attempt < Attempts

\* The oldest command of u's channel is answered: its loop ends (None) or goes
\* to sleep.  The wire stays faithful and other channels are left alone.
LEMMA LeaveWire ==
  ASSUME IInv, NEW u \in Users, wire[u] # << >>, NEW x \in Loop \cup {None},
         x # None => Sleeper(x, u),
         loop' = [loop EXCEPT ![Head(wire[u])] = x],
         wire' = [wire EXCEPT ![u] = Tail(@)]
  PROVE  LET o == Head(wire[u]) IN
           /\ loop' \in [Ops -> Loop \cup {None}]
           /\ wire' \in [Users -> Seq(Ops)]
           /\ WireFaithful'
           /\ loop'[o] = x
           /\ \A p \in Ops : p # o => loop'[p] = loop[p]
           /\ LoopsOf(u)' = IF x = None THEN LoopsOf(u) \ {o} ELSE LoopsOf(u)
           /\ \A v \in Users : v # u =>
                /\ wire'[v] = wire[v]
                /\ LoopsOf(v)' = LoopsOf(v)
                /\ \A p \in LoopsOf(v) : loop'[p] = loop[p]
                /\ \A i \in 1..Len(wire[v]) : loop'[wire[v][i]] = loop[wire[v][i]]
           /\ Len(wire[u]) \in Nat \ {0}
           /\ Len(wire'[u]) = Len(wire[u]) - 1
           /\ \A i \in 1..(Len(wire[u]) - 1) :
                /\ wire'[u][i] = wire[u][i + 1]
                /\ loop'[wire'[u][i]] = loop[wire[u][i + 1]]
<1> DEFINE o == Head(wire[u])
           n == Len(wire[u])
<1> USE NoneAssumption
<1>0. x # None => x.user = u /\ x.asleep /\ x.attempt < Attempts
  BY DEF Sleeper
<1>1. /\ o = wire[u][1] /\ o \in Ops
      /\ loop[o] \in Loop /\ loop[o] # None
      /\ loop[o].user = u /\ ~loop[o].asleep
      /\ o \in LoopsOf(u)
      /\ \A v \in Users : \A i \in 1..Len(wire[v]) :
           /\ wire[v][i] \in Ops
           /\ wire[v][i] = o => v = u /\ i = 1
  BY HeadFacts
<1>2. /\ wire[u] \in Seq(Ops)
      /\ wire'[u] = Tail(wire[u])
      /\ \A v \in Users : v # u => wire'[v] = wire[v]
  BY DEF IInv, TypeOK
<1>3. /\ n \in Nat \ {0} /\ Len(wire'[u]) = n - 1
      /\ \A i \in 1..(n - 1) : wire'[u][i] = wire[u][i + 1]
      /\ wire' \in [Users -> Seq(Ops)]
  BY <1>2, TailFacts DEF IInv, TypeOK
<1>4. /\ loop'[o] = x
      /\ \A p \in Ops : p # o => loop'[p] = loop[p]
      /\ loop' \in [Ops -> Loop \cup {None}]
  BY <1>1 DEF IInv, TypeOK
<1> HIDE DEF o, n
<1>5. \A i \in 1..(n - 1) : /\ i + 1 \in 1..n
                            /\ wire[u][i + 1] \in Ops /\ wire[u][i + 1] # o
                            /\ loop'[wire'[u][i]] = loop[wire[u][i + 1]]
  <2> SUFFICES ASSUME NEW i \in 1..(n - 1)
               PROVE  /\ i + 1 \in 1..n
                      /\ wire[u][i + 1] \in Ops /\ wire[u][i + 1] # o
                      /\ loop'[wire'[u][i]] = loop[wire[u][i + 1]]
    OBVIOUS
  <2>1. i + 1 \in 1..n /\ i + 1 # 1
    BY <1>3
  <2>2. wire[u][i + 1] \in Ops /\ wire[u][i + 1] # o
    BY <2>1, <1>1 DEF n
  <2> QED
    BY <2>1, <2>2, <1>3, <1>4
<1>6. \A v \in Users : v # u =>
        \A i \in 1..Len(wire[v]) : loop'[wire[v][i]] = loop[wire[v][i]]
  BY <1>1, <1>4
<1>7. /\ LoopsOf(u)' = IF x = None THEN LoopsOf(u) \ {o} ELSE LoopsOf(u)
      /\ \A v \in Users : v # u => /\ LoopsOf(v)' = LoopsOf(v)
                                   /\ \A p \in LoopsOf(v) : loop'[p] = loop[p]
  BY <1>0, <1>1, <1>4 DEF LoopsOf
<1>8. WireFaithful'
  <2>1. \A v \in Users : \A i \in 1..Len(wire'[v]) :
          /\ loop'[wire'[v][i]] # None
          /\ loop'[wire'[v][i]].user = v
          /\ ~loop'[wire'[v][i]].asleep
    <3> SUFFICES ASSUME NEW v \in Users, NEW i \in 1..Len(wire'[v])
                 PROVE  /\ loop'[wire'[v][i]] # None
                        /\ loop'[wire'[v][i]].user = v
                        /\ ~loop'[wire'[v][i]].asleep
      OBVIOUS
    <3>1. CASE v = u
      <4>1. i \in 1..(n - 1)
        BY <3>1, <1>3
      <4>2. /\ i + 1 \in 1..Len(wire[u])
            /\ loop'[wire'[v][i]] = loop[wire[u][i + 1]]
        BY <3>1, <4>1, <1>5 DEF n
      <4>3. /\ loop[wire[u][i + 1]] # None
            /\ loop[wire[u][i + 1]].user = u
            /\ ~loop[wire[u][i + 1]].asleep
        BY <4>2 DEF IInv, WireFaithful
      <4> QED
        BY <3>1, <4>2, <4>3
    <3>2. CASE v # u
      <4>1. i \in 1..Len(wire[v]) /\ loop'[wire'[v][i]] = loop[wire[v][i]]
        BY <3>2, <1>2, <1>6
      <4> QED
        BY <4>1 DEF IInv, WireFaithful
    <3> QED
      BY <3>1, <3>2
  <2>2. \A v \in Users : \A i, j \in 1..Len(wire'[v]) : wire'[v][i] = wire'[v][j] => i = j
    <3> SUFFICES ASSUME NEW v \in Users, NEW i \in 1..Len(wire'[v]),
                        NEW j \in 1..Len(wire'[v]), wire'[v][i] = wire'[v][j]
                 PROVE  i = j
      OBVIOUS
    <3>1. CASE v = u
      <4>1. i \in 1..(n - 1) /\ j \in 1..(n - 1)
        BY <3>1, <1>3
      <4>2. /\ i + 1 \in 1..Len(wire[u]) /\ j + 1 \in 1..Len(wire[u])
            /\ wire[u][i + 1] = wire[u][j + 1]
        BY <3>1, <4>1, <1>3, <1>5 DEF n
      <4>3. i + 1 = j + 1
        BY <4>2 DEF IInv, WireFaithful
      <4> QED
        BY <4>1, <4>3, <1>3
    <3>2. CASE v # u
      BY <3>2, <1>2 DEF IInv, WireFaithful
    <3> QED
      BY <3>1, <3>2
  <2>3. \A p \in Ops : loop'[p] # None /\ ~loop'[p].asleep =>
          \E i \in 1..Len(wire'[loop'[p].user]) : wire'[loop'[p].user][i] = p
    <3> SUFFICES ASSUME NEW p \in Ops, loop'[p] # None, ~loop'[p].asleep
                 PROVE  \E i \in 1..Len(wire'[loop'[p].user]) : wire'[loop'[p].user][i] = p
      OBVIOUS
    <3>1. p # o
      BY <1>0, <1>4
    <3>2. loop'[p] = loop[p] /\ loop[p].user \in Users
      BY <3>1, <1>4 DEF IInv, TypeOK, Loop
    <3>3. PICK i \in 1..Len(wire[loop[p].user]) : wire[loop[p].user][i] = p
      BY <3>2 DEF IInv, WireFaithful
    <3>4. CASE loop[p].user # u
      BY <3>2, <3>3, <3>4, <1>2
    <3>5. CASE loop[p].user = u
      <4>1. i # 1 /\ i \in 1..n
        BY <3>1, <3>3, <3>5, <1>1 DEF n
      <4>2. i - 1 \in 1..(n - 1) /\ (i - 1) + 1 = i
        BY <4>1, <1>3
      <4>3. wire'[u][i - 1] = p
        BY <4>2, <3>3, <3>5, <1>3
      <4> QED
        BY <3>2, <3>5, <4>2, <4>3, <1>3
    <3> QED
      BY <3>4, <3>5
  <2>4. \A p \in Ops : loop'[p] # None /\ loop'[p].asleep => loop'[p].attempt < Attempts
    BY <1>0, <1>4 DEF IInv, WireFaithful
  <2> QED
    BY <2>1, <2>2, <2>3, <2>4 DEF WireFaithful
<1> QED
  BY <1>2, <1>3, <1>4, <1>5, <1>6, <1>7, <1>8 DEF o, n

\* If a loop of a channel without a race has failed an attempt it is alone;
\* otherwise every loop of the channel is on the wire.
LEMMA AwakeOnWire ==
  ASSUME IInv, NEW u \in Users, u \notin raced, wire[u] # << >>
  PROVE  /\ \A p \in LoopsOf(u) : ~loop[p].asleep
         /\ Len(wire[u]) = 1 => LoopsOf(u) = {Head(wire[u])}
<1>1. /\ Head(wire[u]) = wire[u][1] /\ Head(wire[u]) \in LoopsOf(u)
      /\ ~loop[Head(wire[u])].asleep
  BY HeadFacts
<1>2. \A p \in LoopsOf(u) : ~loop[p].asleep
  BY <1>1 DEF IInv, RetryAlone
<1>3. \A p \in LoopsOf(u) : \E i \in 1..Len(wire[u]) : wire[u][i] = p
  BY <1>2 DEF IInv, WireFaithful, LoopsOf
<1>4. ASSUME Len(wire[u]) = 1 PROVE LoopsOf(u) = {Head(wire[u])}
  <2>1. \A p \in LoopsOf(u) : p = wire[u][1]
    <3> SUFFICES ASSUME NEW p \in LoopsOf(u) PROVE p = wire[u][1]
      OBVIOUS
    <3>1. PICK i \in 1..Len(wire[u]) : wire[u][i] = p
      BY <1>3
    <3>2. i = 1
      BY <3>1, <1>4
    <3> QED
      BY <3>1, <3>2
  <2> QED
    BY <2>1, <1>1
<1> QED
  BY <1>2, <1>4

\* A command succeeds.
LEMMA ResolveKeeps ==
  ASSUME IInv, NEW u \in Users, Resolve(u)
  PROVE  IInv'
<1> DEFINE o == Head(wire[u])
           n == Len(wire[u])
<1> USE TopicAssumption, NoneAssumption
<1>1. /\ wire[u] # << >>
      /\ listeners' = [listeners EXCEPT ![u] = Listeners(loop[o].kind, @)]
      /\ leftover' = IF loop[o].kind = "unsubscribe" THEN leftover \ {u} ELSE leftover
      /\ loop' = [loop EXCEPT ![o] = None]
      /\ raced' = IF EndsRace(o) THEN raced \ {u} ELSE raced
      /\ wire' = [wire EXCEPT ![u] = Tail(@)]
      /\ UNCHANGED <<sessions, subscribed, gaveUp>>
  BY DEF Resolve
<1>2. /\ o = wire[u][1] /\ o \in Ops /\ loop[o] \in Loop /\ o \in LoopsOf(u)
      /\ loop[o].user = u
  BY <1>1, HeadFacts
<1>3. /\ loop' \in [Ops -> Loop \cup {None}]
      /\ wire' \in [Users -> Seq(Ops)]
      /\ WireFaithful'
      /\ \A p \in Ops : p # o => loop'[p] = loop[p]
      /\ LoopsOf(u)' = LoopsOf(u) \ {o}
      /\ \A v \in Users : v # u =>
           /\ wire'[v] = wire[v]
           /\ LoopsOf(v)' = LoopsOf(v)
           /\ \A p \in LoopsOf(v) : loop'[p] = loop[p]
           /\ \A i \in 1..Len(wire[v]) : loop'[wire[v][i]] = loop[wire[v][i]]
      /\ n \in Nat \ {0}
      /\ Len(wire'[u]) = n - 1
      /\ \A i \in 1..(n - 1) :
           /\ wire'[u][i] = wire[u][i + 1]
           /\ loop'[wire'[u][i]] = loop[wire[u][i + 1]]
  BY <1>1, LeaveWire
<1>4. PICK k \in {"subscribe", "unsubscribe"} : loop[o].kind = k
  BY <1>2 DEF Loop
<1> HIDE DEF o, n
<1>5. /\ listeners' \in [Users -> 0..2] /\ leftover' \subseteq Users
      /\ listeners'[u] = Listeners(loop[o].kind, listeners[u])
      /\ \A v \in Users : v # u => /\ listeners'[v] = listeners[v]
                                   /\ v \in leftover' <=> v \in leftover
  <2>1. listeners[u] \in 0..2 /\ Listeners(loop[o].kind, listeners[u]) \in 0..2
    BY DEF IInv, TypeOK, Listeners
  <2>2. listeners' = [listeners EXCEPT ![u] = Listeners(loop[o].kind, listeners[u])]
    BY <1>1
  <2>3. leftover' \in {leftover, leftover \ {u}}
    BY <1>1
  <2> QED
    BY <2>1, <2>2, <2>3 DEF IInv, TypeOK
<1>11. raced' \subseteq Users /\ \A v \in Users : v # u => (v \in raced' <=> v \in raced)
  BY <1>1 DEF IInv, TypeOK
<1>6. TypeOK'
  BY <1>1, <1>3, <1>5, <1>11 DEF IInv, TypeOK
<1>7. ClaimOnlyWithSessions' /\ UnclaimedGaveUp'
  BY <1>1 DEF IInv, ClaimOnlyWithSessions, UnclaimedGaveUp
<1>8. WireFaithful /\ \A v \in Users : ChannelInv(v)
  BY PerChannel DEF IInv, WireInv
<1>9. ASSUME NEW v \in Users, v # u PROVE ChannelInv(v)'
  BY <1>1, <1>3, <1>5, <1>8, <1>9, <1>11, Untouched DEF IInv
<1>12. CASE EndsRace(o)
  <2>1. loop[o].kind = "unsubscribe" /\ u \notin subscribed' /\ LoopsOf(u)' = {}
    BY <1>1, <1>2, <1>3, <1>12 DEF EndsRace
  <2>2. n = 1
    <3>1. ASSUME n # 1 PROVE FALSE
      <4>1. 2 \in 1..n
        BY <3>1, <1>3
      <4>2. wire[u][2] \in Ops /\ wire[u][2] # o
        BY <4>1, <1>1, HeadFacts DEF o, n
      <4>3. wire[u][2] \in LoopsOf(u)
        BY <4>1, <4>2 DEF IInv, WireFaithful, LoopsOf, n
      <4> QED
        BY <4>2, <4>3, <2>1, <1>3
    <3> QED
      BY <3>1
  <2>3. wire'[u] = << >> /\ Len(wire'[u]) = 0
    BY <2>2, <1>3
  <2>4. ChannelIs(u, u \in subscribed)'
    BY <2>1, <1>5 DEF ChannelIs, Listeners
  <2>5. ChannelInv(u)'
    BY <2>1, <2>3, <2>4 DEF ChannelInv
  <2> QED
    BY <2>5, <1>3, <1>6, <1>7, <1>9, PerChannelNext DEF IInv, WireInv
<1>10. ASSUME ~EndsRace(o) PROVE ChannelInv(u)'
  <2> SUFFICES ASSUME u \notin raced PROVE ChannelInv(u)'
    BY <1>1, <1>10 DEF ChannelInv
  <2>1. /\ \A p \in LoopsOf(u) : ~loop[p].asleep
        /\ n = 1 => LoopsOf(u) = {o}
    BY <1>1, AwakeOnWire DEF o, n
  <2>2. ChannelIs(u, k = "unsubscribe")
    BY <1>1, <1>2, <1>4, <1>8 DEF ChannelInv
  <2>3. ChannelIs(u, k = "subscribe")'
    <3>1. listeners[u] \in 0..2
      BY DEF IInv, TypeOK
    <3>2. CASE k = "subscribe"
      <4>1. /\ listeners'[u] = IF listeners[u] = 2 THEN 2 ELSE listeners[u] + 1
            /\ leftover' = leftover
        BY <3>2, <1>1, <1>4, <1>5 DEF Listeners, o
      <4>2. listeners'[u] > 0 /\ (u \notin leftover' => listeners'[u] = 1)
        BY <3>1, <3>2, <4>1, <2>2 DEF ChannelIs
      <4> QED
        BY <4>2, <3>2 DEF ChannelIs
    <3>3. CASE k = "unsubscribe"
      <4>1. listeners'[u] = 0
        BY <3>3, <1>4, <1>5 DEF Listeners
      <4> QED
        BY <4>1, <3>3 DEF ChannelIs
    <3> QED
      BY <3>2, <3>3
  <2>4. \A p \in LoopsOf(u)' : p \in LoopsOf(u) /\ loop'[p] = loop[p]
    BY <1>3 DEF LoopsOf
  <2>5. \A i \in 1..(n - 1) : /\ i + 1 \in 1..n
                              /\ wire[u][i + 1] \in LoopsOf(u)'
                              /\ loop[wire[u][i + 1]].kind \in {"subscribe", "unsubscribe"}
    <3> SUFFICES ASSUME NEW i \in 1..(n - 1)
                 PROVE  /\ i + 1 \in 1..n
                        /\ wire[u][i + 1] \in LoopsOf(u)'
                        /\ loop[wire[u][i + 1]].kind \in {"subscribe", "unsubscribe"}
      OBVIOUS
    <3>1. i + 1 \in 1..n /\ i + 1 # 1
      BY <1>3
    <3>2. wire[u][i + 1] \in Ops /\ wire[u][i + 1] # o
      BY <3>1, <1>1, HeadFacts DEF o, n
    <3>3. loop[wire[u][i + 1]] # None /\ loop[wire[u][i + 1]].user = u
      BY <3>1 DEF IInv, WireFaithful, n
    <3>4. loop[wire[u][i + 1]] \in Loop
      BY <3>2, <3>3 DEF IInv, TypeOK
    <3> QED
      BY <3>1, <3>2, <3>3, <3>4, <1>3 DEF LoopsOf, Loop
  <2>6. \A p, r \in LoopsOf(u)' : loop'[p].asleep \/ loop'[p].attempt > 1 => r = p
    BY <1>8, <2>4 DEF ChannelInv
  <2>7. \A i \in 1..(Len(wire'[u]) - 1) :
          loop'[wire'[u][i]].kind # loop'[wire'[u][i + 1]].kind
    <3> SUFFICES ASSUME NEW i \in 1..((n - 1) - 1)
                 PROVE  loop'[wire'[u][i]].kind # loop'[wire'[u][i + 1]].kind
      BY <1>3
    <3>1. i \in 1..(n - 1) /\ i + 1 \in 1..(n - 1)
      BY <1>3
    <3>2. /\ loop'[wire'[u][i]] = loop[wire[u][i + 1]]
          /\ loop'[wire'[u][i + 1]] = loop[wire[u][(i + 1) + 1]]
      BY <3>1, <1>3
    <3> QED
      BY <3>1, <3>2, <1>8 DEF ChannelInv, n
  <2>8. ASSUME wire'[u] # << >>
        PROVE  /\ u \in subscribed' <=> loop'[wire'[u][Len(wire'[u])]].kind = "subscribe"
               /\ ChannelIs(u, loop[wire[u][1]].kind = "unsubscribe")'
    <3>1. n - 1 \in 1..(n - 1) /\ 1 \in 1..(n - 1)
      <4>1. Len(wire'[u]) # 0
        BY <2>8, <1>3
      <4> QED
        BY <4>1, <1>3
    <3>2. loop'[wire'[u][n - 1]] = loop[wire[u][n]]
      <4>1. (n - 1) + 1 = n
        BY <1>3
      <4> QED
        BY <3>1, <4>1, <1>3
    <3>3. u \in subscribed <=> loop[wire[u][n]].kind = "subscribe"
      BY <1>1, <1>8 DEF ChannelInv, n
    <3>4. loop'[wire'[u][1]] = loop[wire[u][1 + 1]]
      BY <3>1, <1>3
    <3>5. loop[wire[u][1 + 1]].kind \in {"subscribe", "unsubscribe"} \ {k}
      BY <3>1, <2>5, <1>2, <1>4, <1>8 DEF ChannelInv, n
    <3>6. (loop'[wire'[u][1]].kind = "unsubscribe") <=> (k = "subscribe")
      BY <3>4, <3>5
    <3> QED
      BY <3>2, <3>3, <3>6, <1>1, <1>3, <2>3 DEF ChannelIs
  <2>9. \A p \in LoopsOf(u)' : ~loop'[p].asleep
    BY <2>1, <2>4
  <2>10. ASSUME Quiet(u)' PROVE ChannelIs(u, u \in subscribed)'
    <3>1. n = 1
      <4>1. ASSUME n # 1 PROVE FALSE
        <5>1. 1 \in 1..(n - 1)
          BY <4>1, <1>3
        <5> QED
          BY <5>1, <2>5, <2>10 DEF Quiet
      <4> QED
        BY <4>1
    <3>2. u \in subscribed <=> k = "subscribe"
      BY <3>1, <1>1, <1>2, <1>4, <1>8 DEF ChannelInv, n
    <3> QED
      BY <3>2, <2>3, <1>1 DEF ChannelIs
  <2> QED
    BY <2>6, <2>7, <2>8, <2>9, <2>10 DEF ChannelInv
<1> QED
  BY <1>3, <1>6, <1>7, <1>9, <1>10, <1>12, PerChannelNext DEF IInv, WireInv

\* A command fails: its loop sleeps, or gives up.
LEMMA RejectKeeps ==
  ASSUME IInv, NEW u \in Users, Reject(u)
  PROVE  IInv'
<1> DEFINE o == Head(wire[u])
           n == Len(wire[u])
           next == IF Exhausted(loop[o]) THEN None ELSE [loop[o] EXCEPT !.asleep = TRUE]
<1> USE TopicAssumption, NoneAssumption
<1>1. /\ wire[u] # << >>
      /\ raced' = IF LoopsOf(loop[o].user) # {o} THEN raced \cup {u} ELSE raced
      /\ wire' = [wire EXCEPT ![u] = Tail(@)]
      /\ UNCHANGED <<sessions, listeners>>
  BY DEF Reject, MarkRace, FailureRaces
<1>2. /\ o = wire[u][1] /\ o \in Ops /\ loop[o] \in Loop /\ loop[o] # None
      /\ o \in LoopsOf(u) /\ loop[o].user = u /\ ~loop[o].asleep
  BY <1>1, HeadFacts
<1>3. loop' = [loop EXCEPT ![o] = next]
  BY <1>2 DEF Reject
<1>4. PICK x \in Loop \cup {None} :
        /\ x = next
        /\ x # None => /\ x.user = u /\ x.asleep /\ x.attempt < Attempts
                       /\ x.kind = loop[o].kind /\ ~Exhausted(loop[o])
        /\ x = None <=> Exhausted(loop[o])
  <2>1. CASE Exhausted(loop[o])
    BY <2>1
  <2>2. CASE ~Exhausted(loop[o])
    <3>1. loop[o].attempt \in 1..Attempts /\ loop[o].attempt # Attempts
      BY <2>2, <1>2 DEF Exhausted, Loop
    <3>2. next = [loop[o] EXCEPT !.asleep = TRUE]
      BY <2>2
    <3>3. /\ next \in Loop /\ next.user = u /\ next.asleep
          /\ next.attempt = loop[o].attempt /\ next.kind = loop[o].kind
      BY <3>2, <1>2 DEF Loop
    <3> HIDE DEF next
    <3>4. next # None /\ next.attempt < Attempts
      BY <3>1, <3>3
    <3> QED
      BY <2>2, <3>3, <3>4
  <2> QED
    BY <2>1, <2>2
<1> HIDE DEF next
<1>14. loop' = [loop EXCEPT ![o] = x]
  BY <1>3, <1>4
<1>5. /\ loop' \in [Ops -> Loop \cup {None}]
      /\ wire' \in [Users -> Seq(Ops)]
      /\ WireFaithful'
      /\ loop'[o] = x
      /\ LoopsOf(u)' = IF x = None THEN LoopsOf(u) \ {o} ELSE LoopsOf(u)
      /\ \A v \in Users : v # u =>
           /\ wire'[v] = wire[v]
           /\ LoopsOf(v)' = LoopsOf(v)
           /\ \A p \in LoopsOf(v) : loop'[p] = loop[p]
           /\ \A i \in 1..Len(wire[v]) : loop'[wire[v][i]] = loop[wire[v][i]]
      /\ n \in Nat \ {0}
      /\ Len(wire'[u]) = n - 1
  <2>1. x # None => Sleeper(x, u)
    BY <1>4 DEF Sleeper
  <2>2. x \in Loop \cup {None}
    BY <1>4
  <2>3. wire[u] # << >> /\ wire' = [wire EXCEPT ![u] = Tail(@)]
    BY <1>1
  <2> QED
    BY <1>14, <2>1, <2>2, <2>3, LeaveWire, ZenonT(60)
<1>6. PICK k \in {"subscribe", "unsubscribe"} : loop[o].kind = k
  BY <1>2 DEF Loop
<1> HIDE DEF o, n
<1>7. \/ Exhausted(loop[o]) /\ GiveUp(u, k)
      \/ ~Exhausted(loop[o]) /\ UNCHANGED <<subscribed, leftover, gaveUp>>
  BY <1>6 DEF Reject, o
<1>8. /\ subscribed' \in {subscribed, subscribed \ {u}}
      /\ subscribed' # subscribed => u \in gaveUp'
      /\ gaveUp' \in {gaveUp, gaveUp \cup {u}}
      /\ leftover' \in {leftover, leftover \cup {u}}
      /\ raced' \in {raced, raced \cup {u}}
  BY <1>1, <1>7 DEF GiveUp
<1>9. TypeOK'
  BY <1>1, <1>5, <1>8 DEF IInv, TypeOK
<1>10. ClaimOnlyWithSessions' /\ UnclaimedGaveUp'
  BY <1>1, <1>8 DEF IInv, TypeOK, ClaimOnlyWithSessions, UnclaimedGaveUp
<1>11. \A v \in Users : ChannelInv(v)
  BY PerChannel DEF IInv, WireInv
<1>12. ASSUME NEW v \in Users, v # u PROVE ChannelInv(v)'
  <2>1. /\ v \in subscribed' <=> v \in subscribed
        /\ v \in leftover' <=> v \in leftover
        /\ v \in raced' <=> v \in raced
        /\ listeners'[v] = listeners[v]
    BY <1>1, <1>8, <1>12
  <2> QED
    BY <1>5, <1>11, <1>12, <2>1, Untouched DEF IInv
<1>13. ChannelInv(u)'
  <2> SUFFICES ASSUME u \notin raced' PROVE ChannelInv(u)'
    BY DEF ChannelInv
  <2>1. u \notin raced /\ LoopsOf(u) = {o}
    BY <1>1, <1>2 DEF o
  <2>2. n = 1
    <3>1. ASSUME n # 1 PROVE FALSE
      <4>1. 2 \in 1..n
        BY <3>1, <1>5
      <4>2. wire[u][2] \in Ops /\ wire[u][2] # o
        BY <4>1, <1>1, HeadFacts DEF o, n
      <4>3. wire[u][2] \in LoopsOf(u)
        BY <4>1, <4>2 DEF IInv, WireFaithful, LoopsOf, n
      <4> QED
        BY <4>2, <4>3, <2>1
    <3> QED
      BY <3>1
  <2>3. wire'[u] = << >> /\ Len(wire'[u]) = 0
    BY <2>2, <1>5
  <2>4. /\ ChannelIs(u, k = "unsubscribe")
        /\ u \in subscribed <=> k = "subscribe"
    BY <2>1, <2>2, <1>1, <1>2, <1>6, <1>11 DEF ChannelInv, n
  <2>5. CASE ~Exhausted(loop[o])
    <3>1. /\ LoopsOf(u)' = {o} /\ loop'[o].kind = k
          /\ UNCHANGED <<subscribed, leftover, listeners>>
      BY <2>1, <2>5, <1>1, <1>4, <1>5, <1>6, <1>7 DEF o
    <3> QED
      BY <3>1, <2>3, <2>4 DEF ChannelInv, ChannelIs, Quiet
  <2>6. CASE Exhausted(loop[o])
    <3>1. LoopsOf(u)' = {}
      BY <2>1, <2>6, <1>4, <1>5 DEF o
    <3>2. ChannelIs(u, u \in subscribed)'
      BY <2>4, <2>6, <1>1, <1>7 DEF GiveUp, ChannelIs, IInv, TypeOK
    <3> QED
      BY <3>1, <3>2, <2>3 DEF ChannelInv
  <2> QED
    BY <2>5, <2>6
<1> QED
  BY <1>5, <1>9, <1>10, <1>12, <1>13, PerChannelNext DEF IInv, WireInv

\* A sleeping loop whose subscribe is answered at once.
LEMMA RetryLocalKeeps ==
  ASSUME IInv, NEW o \in Ops, Retry(o), AnsweredLocally(loop[o].user, loop[o].kind)
  PROVE  IInv'
<1> USE TopicAssumption, NoneAssumption
<1>1. loop[o] # None /\ loop[o].asleep /\ loop[o] \in Loop
  BY DEF Retry, IInv, TypeOK
<1>2. PICK w \in Users : w = loop[o].user
  BY <1>1 DEF Loop
<1>3. /\ loop' = [loop EXCEPT ![o] = None]
      /\ listeners' = [listeners EXCEPT ![w] = Listeners("subscribe", @)]
      /\ UNCHANGED <<wire, sessions, subscribed, raced, leftover, gaveUp>>
  <2> DEFINE l == [loop[o] EXCEPT !.asleep = FALSE, !.attempt = loop[o].attempt + 1]
  <2>1. l.user = loop[o].user /\ l.kind = loop[o].kind
    BY <1>1 DEF Loop
  <2>2. Call(o, l) /\ UNCHANGED <<sessions, subscribed, raced, leftover, gaveUp>>
    BY DEF Retry
  <2> HIDE DEF l
  <2> QED
    BY <2>1, <2>2, <1>2 DEF Call
<1>4. loop[o].kind = "subscribe" /\ listeners[w] > 0
  BY <1>2 DEF AnsweredLocally
<1>5. ASSUME w \notin raced
      PROVE  w \in subscribed /\ w \in leftover /\ LoopsOf(w) \subseteq {o}
  <2>1. ChannelInv(w)
    BY PerChannel DEF IInv, WireInv
  <2>2. o \in LoopsOf(w)
    BY <1>1, <1>2 DEF LoopsOf
  <2>3. ChannelIs(w, FALSE) /\ w \in subscribed
    BY <1>1, <1>4, <1>5, <2>1, <2>2 DEF ChannelInv, ChannelIs
  <2> QED
    BY <1>1, <1>4, <1>5, <2>1, <2>2, <2>3 DEF ChannelInv, ChannelIs
<1>6. /\ loop' \in [Ops -> Loop \cup {None}]
      /\ wire' \in [Users -> Seq(Ops)]
      /\ listeners' \in [Users -> 0..2]
      /\ WireInv'
  BY <1>1, <1>2, <1>3, <1>5, LocalKeeps
<1>7. TypeOK'
  BY <1>3, <1>6 DEF IInv, TypeOK
<1>8. ClaimOnlyWithSessions' /\ UnclaimedGaveUp'
  BY <1>3 DEF IInv, ClaimOnlyWithSessions, UnclaimedGaveUp
<1> QED
  BY <1>6, <1>7, <1>8 DEF IInv, WireInv

\* A sleeping loop sends its command again.
LEMMA RetrySentKeeps ==
  ASSUME IInv, NEW o \in Ops, Retry(o), ~AnsweredLocally(loop[o].user, loop[o].kind)
  PROVE  IInv'
<1> DEFINE next == [loop[o] EXCEPT !.asleep = FALSE, !.attempt = loop[o].attempt + 1]
<1> USE TopicAssumption, NoneAssumption
<1>1. /\ loop[o] # None /\ loop[o].asleep
      /\ loop' = [loop EXCEPT ![o] = next]
      /\ wire' = [wire EXCEPT ![loop[o].user] = Append(@, o)]
      /\ UNCHANGED <<sessions, subscribed, listeners, raced, leftover, gaveUp>>
  <2>1. /\ loop[o] # None /\ loop[o].asleep /\ loop[o] \in Loop
        /\ Call(o, next) /\ UNCHANGED <<sessions, subscribed, raced, leftover, gaveUp>>
    BY DEF Retry, IInv, TypeOK
  <2>2. next.user = loop[o].user /\ next.kind = loop[o].kind
    BY <2>1 DEF Loop
  <2> HIDE DEF next
  <2> QED
    BY <2>1, <2>2 DEF Call
<1>2. loop[o] \in Loop /\ loop[o].attempt < Attempts
  BY <1>1 DEF IInv, TypeOK, WireFaithful
<1>3. PICK w \in Users, x \in Loop :
        /\ w = loop[o].user /\ x = next
        /\ x # None /\ x.user = w /\ ~x.asleep /\ x.kind = loop[o].kind
  <2>1. loop[o].attempt + 1 \in 1..Attempts
    BY <1>2 DEF Loop
  <2>2. /\ next \in Loop /\ next.user = loop[o].user /\ ~next.asleep
        /\ next.kind = loop[o].kind /\ loop[o].user \in Users
    BY <1>2, <2>1 DEF Loop
  <2> QED
    BY <2>2
<1>4. /\ loop' \in [Ops -> Loop \cup {None}]
      /\ loop'[o] = x
      /\ \A p \in Ops : p # o => loop'[p] = loop[p]
  BY <1>1, <1>3 DEF IInv, TypeOK
<1> HIDE DEF next
<1> DEFINE m == Len(wire[w])
<1>5. \A v \in Users : wire[v] \in Seq(Ops)
  BY DEF IInv, TypeOK
<1>6. /\ wire'[w] = Append(wire[w], o)
      /\ \A v \in Users : v # w => wire'[v] = wire[v]
  BY <1>1, <1>3 DEF IInv, TypeOK
<1>10. /\ m \in Nat /\ Len(wire'[w]) = m + 1 /\ wire'[w] # << >>
       /\ \A i \in 1..m : wire'[w][i] = wire[w][i]
       /\ wire'[w][m + 1] = o
       /\ \A v \in Users : v # w => wire'[v] = wire[v]
       /\ loop[o].user = w /\ x.user = w
       /\ wire'[w] \in Seq(Ops)
  BY <1>3, <1>5, <1>6, AppendFacts
<1>7. wire' \in [Users -> Seq(Ops)]
  BY <1>1, <1>3, <1>5, <1>6, <1>10 DEF IInv, TypeOK
<1>8. \A v \in Users : \A i \in 1..Len(wire[v]) : /\ wire[v][i] \in Ops /\ wire[v][i] # o
                                                  /\ loop'[wire[v][i]] = loop[wire[v][i]]
  <2>1. \A v \in Users : \A i \in 1..Len(wire[v]) : wire[v][i] \in Ops /\ wire[v][i] # o
    BY <1>1, <1>5 DEF IInv, WireFaithful
  <2> QED
    BY <2>1, <1>4
<1>9. \A v \in Users : LoopsOf(v)' = LoopsOf(v)
  BY <1>1, <1>3, <1>4 DEF LoopsOf
<1> HIDE DEF m
<1>11. WireFaithful'
  <2>1. \A v \in Users : \A i \in 1..Len(wire'[v]) :
          /\ loop'[wire'[v][i]] # None
          /\ loop'[wire'[v][i]].user = v
          /\ ~loop'[wire'[v][i]].asleep
    <3> SUFFICES ASSUME NEW v \in Users, NEW i \in 1..Len(wire'[v])
                 PROVE  /\ loop'[wire'[v][i]] # None
                        /\ loop'[wire'[v][i]].user = v
                        /\ ~loop'[wire'[v][i]].asleep
      OBVIOUS
    <3>1. CASE v = w /\ i = m + 1
      BY <3>1, <1>3, <1>4, <1>10
    <3>2. CASE ~(v = w /\ i = m + 1)
      <4>1. i \in 1..Len(wire[v]) /\ wire'[v][i] = wire[v][i]
        BY <3>2, <1>10 DEF m
      <4>2. loop'[wire'[v][i]] = loop[wire[v][i]]
        BY <4>1, <1>8
      <4> QED
        BY <4>1, <4>2 DEF IInv, WireFaithful
    <3> QED
      BY <3>1, <3>2
  <2>2. \A v \in Users : \A i, j \in 1..Len(wire'[v]) : wire'[v][i] = wire'[v][j] => i = j
    <3> SUFFICES ASSUME NEW v \in Users, NEW i \in 1..Len(wire'[v]),
                        NEW j \in 1..Len(wire'[v]), wire'[v][i] = wire'[v][j]
                 PROVE  i = j
      OBVIOUS
    <3>1. CASE v = w
      <4>1. \A p, q \in 1..m : wire[w][p] = wire[w][q] => p = q
        BY DEF IInv, WireFaithful, m
      <4>2. \A p \in 1..m : wire'[w][p] = wire[w][p] /\ wire[w][p] # o
        BY <1>8, <1>10 DEF m
      <4>3. \A p, q \in 1..(m + 1) : wire'[w][p] = wire'[w][q] => p = q
        <5>1. m \in Nat /\ wire'[w][m + 1] = o
          BY <1>10
        <5> QED
          BY <4>1, <4>2, <5>1, NoRepetition
      <4> QED
        BY <3>1, <4>3, <1>10
    <3>2. CASE v # w
      <4>1. wire'[v] = wire[v]
        BY <3>2, <1>10
      <4> QED
        BY <4>1 DEF IInv, WireFaithful
    <3> QED
      BY <3>1, <3>2
  <2>3. \A p \in Ops : loop'[p] # None /\ ~loop'[p].asleep =>
          \E i \in 1..Len(wire'[loop'[p].user]) : wire'[loop'[p].user][i] = p
    <3> SUFFICES ASSUME NEW p \in Ops, loop'[p] # None, ~loop'[p].asleep
                 PROVE  \E i \in 1..Len(wire'[loop'[p].user]) : wire'[loop'[p].user][i] = p
      OBVIOUS
    <3>1. CASE p = o
      <4>1. m + 1 \in 1..Len(wire'[w])
        BY <1>10
      <4> QED
        BY <4>1, <3>1, <1>4, <1>10
    <3>2. CASE p # o
      <4>1. loop'[p] = loop[p] /\ loop[p].user \in Users
        BY <3>2, <1>4 DEF IInv, TypeOK, Loop
      <4>2. PICK i \in 1..Len(wire[loop[p].user]) : wire[loop[p].user][i] = p
        BY <4>1 DEF IInv, WireFaithful
      <4>3. i \in 1..Len(wire'[loop[p].user]) /\ wire'[loop[p].user][i] = p
        BY <4>1, <4>2, <1>10 DEF m
      <4> QED
        BY <4>1, <4>3
    <3> QED
      BY <3>1, <3>2
  <2>4. \A p \in Ops : loop'[p] # None /\ loop'[p].asleep => loop'[p].attempt < Attempts
    BY <1>3, <1>4 DEF IInv, WireFaithful
  <2> QED
    BY <2>1, <2>2, <2>3, <2>4 DEF WireFaithful
<1>12. TypeOK'
  BY <1>1, <1>4, <1>7 DEF IInv, TypeOK
<1>13. ClaimOnlyWithSessions' /\ UnclaimedGaveUp'
  BY <1>1 DEF IInv, ClaimOnlyWithSessions, UnclaimedGaveUp
<1>14. \A v \in Users : ChannelInv(v)
  BY PerChannel DEF IInv, WireInv
<1>15. ASSUME NEW v \in Users, v # w PROVE ChannelInv(v)'
  <2>1. \A p \in LoopsOf(v) : loop'[p] = loop[p]
    BY <1>4, <1>10, <1>15 DEF LoopsOf
  <2> QED
    BY <2>1, <1>1, <1>8, <1>9, <1>10, <1>14, <1>15, Untouched DEF IInv
<1>16. ChannelInv(w)'
  <2> SUFFICES ASSUME w \notin raced PROVE ChannelInv(w)'
    BY <1>1 DEF ChannelInv
  <2>1. o \in LoopsOf(w)
    BY <1>1, <1>10 DEF LoopsOf
  <2>2. LoopsOf(w) = {o}
    BY <2>1, <1>1, <1>14 DEF ChannelInv
  <2>3. m = 0
    <3>1. ASSUME m # 0 PROVE FALSE
      <4>1. 1 \in 1..m
        BY <3>1, <1>10
      <4>2. wire[w][1] \in LoopsOf(w) /\ wire[w][1] # o
        BY <4>1, <1>8 DEF IInv, WireFaithful, LoopsOf, m
      <4> QED
        BY <4>2, <2>2
    <3> QED
      BY <3>1
  <2>4. PICK k \in {"subscribe", "unsubscribe"} : loop[o].kind = k
    BY <1>2 DEF Loop
  <2>5. /\ ChannelIs(w, k = "unsubscribe")
        /\ w \in subscribed <=> k = "subscribe"
    BY <2>1, <2>4, <1>1, <1>14 DEF ChannelInv
  <2>6. /\ LoopsOf(w)' = {o} /\ ~loop'[o].asleep /\ loop'[o].kind = k
        /\ Len(wire'[w]) = 1 /\ wire'[w][1] = o
    BY <2>2, <2>3, <2>4, <1>3, <1>4, <1>9, <1>10
  <2>7. ChannelIs(w, k = "unsubscribe")'
    BY <2>5, <1>1 DEF ChannelIs
  <2> QED
    BY <2>5, <2>6, <2>7, <1>1 DEF ChannelInv, ChannelIs, Quiet
<1> QED
  BY <1>11, <1>12, <1>13, <1>15, <1>16, PerChannelNext DEF IInv, WireInv

\* A lifecycle event that leaves the claim alone starts no loop.
LEMMA NoLoopKeeps ==
  ASSUME IInv, NoLoop, UNCHANGED <<subscribed, leftover>>
  PROVE  WireInv'
<1>1. WireFaithful'
  BY DEF IInv, NoLoop, WireFaithful
<1>2. \A v \in Users : ChannelInv(v) /\ LoopsOf(v)' = LoopsOf(v)
  BY PerChannel DEF IInv, WireInv, LoopsOf, NoLoop
<1>3. \A v \in Users : ChannelInv(v)'
  BY <1>2, Untouched DEF IInv, NoLoop
<1> QED
  BY <1>1, <1>3, PerChannelNext

\* Every step preserves the inductive invariant.
LEMMA NextIInv == IInv /\ [Next]_vars => IInv'
<1> SUFFICES ASSUME IInv, [Next]_vars PROVE IInv'
  OBVIOUS
<1> USE TopicAssumption
<1>1. CASE UNCHANGED vars
  <2>1. WireInv'
    BY <1>1, NoLoopKeeps DEF vars, NoLoop
  <2> QED
    BY <1>1, <2>1 DEF vars, IInv, WireInv, TypeOK, ClaimOnlyWithSessions, UnclaimedGaveUp
<1>2. ASSUME NEW u \in Users, Connect(u) PROVE IInv'
  <2>1. /\ sessions' = [sessions EXCEPT ![u] = @ + 1] /\ sessions[u] < MaxSessions
        /\ UNCHANGED leftover
    BY <1>2 DEF Connect
  <2>2. /\ sessions' \in [Users -> 0..MaxSessions] /\ sessions'[u] > 0
        /\ \A v \in Users : v # u => sessions'[v] = sessions[v]
    BY <2>1 DEF IInv, TypeOK
  <2>3. CASE u \in subscribed
    <3>1. NoLoop /\ UNCHANGED <<subscribed, gaveUp>>
      BY <1>2, <2>3 DEF Connect, HandleConnect
    <3>2. WireInv'
      BY <2>1, <3>1, NoLoopKeeps
    <3>3. TypeOK'
      BY <2>1, <2>2, <3>1 DEF IInv, TypeOK, NoLoop
    <3>4. ClaimOnlyWithSessions' /\ UnclaimedGaveUp'
      BY <2>2, <2>3, <3>1 DEF IInv, TypeOK, ClaimOnlyWithSessions, UnclaimedGaveUp
    <3> QED
      BY <3>2, <3>3, <3>4 DEF IInv, WireInv
  <2>4. CASE u \notin subscribed
    <3>1. /\ subscribed' = subscribed \cup {u} /\ gaveUp' = gaveUp \ {u}
          /\ StartLoop(u, "subscribe")
      BY <1>2, <2>4 DEF Connect, HandleConnect
    <3>2. /\ loop' \in [Ops -> Loop \cup {None}]
          /\ wire' \in [Users -> Seq(Ops)]
          /\ listeners' \in [Users -> 0..2]
          /\ raced' \subseteq Users
          /\ WireInv'
      BY <2>1, <2>4, <3>1, StartKeeps
    <3>3. TypeOK'
      BY <2>1, <2>2, <3>1, <3>2 DEF IInv, TypeOK
    <3>4. ClaimOnlyWithSessions' /\ UnclaimedGaveUp'
      BY <2>2, <3>1 DEF IInv, TypeOK, ClaimOnlyWithSessions, UnclaimedGaveUp
    <3> QED
      BY <3>2, <3>3, <3>4 DEF IInv, WireInv
  <2> QED
    BY <2>3, <2>4
<1>3. ASSUME NEW u \in Users, Disconnect(u) PROVE IInv'
  <2>1. /\ sessions' = [sessions EXCEPT ![u] = @ - 1] /\ sessions[u] > 0
        /\ UNCHANGED <<leftover, gaveUp>>
    BY <1>3 DEF Disconnect
  <2>2. /\ sessions' \in [Users -> 0..MaxSessions] /\ sessions'[u] = sessions[u] - 1
        /\ sessions[u] \in 0..MaxSessions
        /\ \A v \in Users : v # u => sessions'[v] = sessions[v]
    BY <2>1 DEF IInv, TypeOK
  <2>3. CASE sessions[u] - 1 > 0 \/ u \notin subscribed
    <3>1. NoLoop /\ UNCHANGED subscribed
      BY <1>3, <2>3 DEF Disconnect, HandleDisconnect
    <3>2. WireInv'
      BY <2>1, <3>1, NoLoopKeeps
    <3>3. TypeOK'
      BY <2>1, <2>2, <3>1 DEF IInv, TypeOK, NoLoop
    <3>4. ClaimOnlyWithSessions' /\ UnclaimedGaveUp'
      BY <2>1, <2>2, <2>3, <3>1 DEF IInv, TypeOK, ClaimOnlyWithSessions, UnclaimedGaveUp
    <3> QED
      BY <3>2, <3>3, <3>4 DEF IInv, WireInv
  <2>4. CASE ~(sessions[u] - 1 > 0) /\ u \in subscribed
    <3>1. subscribed' = subscribed \ {u} /\ StartLoop(u, "unsubscribe")
      BY <1>3, <2>4 DEF Disconnect, HandleDisconnect
    <3>2. /\ loop' \in [Ops -> Loop \cup {None}]
          /\ wire' \in [Users -> Seq(Ops)]
          /\ listeners' \in [Users -> 0..2]
          /\ raced' \subseteq Users
          /\ WireInv'
      BY <2>1, <2>4, <3>1, StartKeeps
    <3>3. TypeOK'
      BY <2>1, <2>2, <3>1, <3>2 DEF IInv, TypeOK
    <3>4. ClaimOnlyWithSessions' /\ UnclaimedGaveUp'
      BY <2>1, <2>2, <2>4, <3>1 DEF IInv, TypeOK, ClaimOnlyWithSessions, UnclaimedGaveUp
    <3> QED
      BY <3>2, <3>3, <3>4 DEF IInv, WireInv
  <2> QED
    BY <2>3, <2>4
<1>4. ASSUME NEW u \in Users, Resolve(u) \/ Reject(u) PROVE IInv'
  BY <1>4, ResolveKeeps, RejectKeeps
<1>5. ASSUME NEW o \in Ops, Retry(o) PROVE IInv'
  BY <1>5, RetryLocalKeeps, RetrySentKeeps
<1> QED
  BY <1>1, <1>2, <1>3, <1>4, <1>5 DEF Next

\* The inductive invariant holds in every reachable state.
THEOREM InvariantHolds == Spec => []IInv
BY InitIInv, NextIInv, PTL DEF Spec

\* No step leaves the types: no loop attempts more often than its budget.
THEOREM TypeTheorem == Spec => []TypeOK
<1>1. IInv => TypeOK
  BY DEF IInv
<1> QED
  BY <1>1, InvariantHolds, PTL

\* A channel is claimed only for a user with local sessions.
THEOREM ClaimTheorem == Spec => []ClaimOnlyWithSessions
<1>1. IInv => ClaimOnlyWithSessions
  BY DEF IInv
<1> QED
  BY <1>1, InvariantHolds, PTL

\* A user with sessions is unclaimed only after an exhausted subscribe, the one
\* that made the claim or an older one, with no connect since.
THEOREM UnclaimedTheorem == Spec => []UnclaimedGaveUp
<1>1. IInv => UnclaimedGaveUp
  BY DEF IInv
<1> QED
  BY <1>1, InvariantHolds, PTL

\* Claim and subscription agree whenever all loops of the user have ended and
\* none raced since the last unsubscribe that ended them: none failed beside
\* another, and no subscribe was answered while an UNSUBSCRIBE was on its way.
THEOREM AgreementTheorem == Spec => []QuietAgreement
<1>1. IInv => QuietAgreement
  BY DEF IInv
<1> QED
  BY <1>1, InvariantHolds, PTL

\* Without such a race, outstanding commands alternate and end as the claim says.
THEOREM PipelineTheorem == Spec => []PipelineAlternates
<1>1. IInv => PipelineAlternates
  BY DEF IInv
<1> QED
  BY <1>1, InvariantHolds, PTL

\* Whatever the interleaving of its loops, withTopicOp makes progress: no step
\* starts an attempt of a loop over or touches another loop's attempts.
THEOREM AdvanceTheorem == Spec => LoopsAdvance
<1> DEFINE Advance ==
      \A o \in Ops : loop[o] # None /\ loop'[o] # loop[o] =>
        /\ \A p \in Ops \ {o} : loop'[p] = loop[p]
        /\ \/ loop'[o] = None
           \/ /\ loop'[o].user = loop[o].user /\ loop'[o].kind = loop[o].kind
              /\ StepsLeft(loop'[o]) < StepsLeft(loop[o])
<1>1. IInv /\ [Next]_vars => [Advance]_vars
  <2> SUFFICES ASSUME IInv, Next PROVE Advance
    OBVIOUS
  <2>1. loop \in [Ops -> Loop \cup {None}] /\ Attempts \in Nat
    BY TopicAssumption DEF IInv, TypeOK
  <2>2. ASSUME NEW u \in Users, NEW kind, StartLoop(u, kind) PROVE Advance
    BY <2>1, <2>2 DEF StartLoop, Call
  <2>3. ASSUME NEW u \in Users, Connect(u) \/ Disconnect(u) PROVE Advance
    BY <2>2, <2>3 DEF Connect, Disconnect, HandleConnect, HandleDisconnect, NoLoop
  <2>4. ASSUME NEW u \in Users, Resolve(u) \/ Reject(u) PROVE Advance
    <3>1. PICK o \in Ops : /\ o = Head(wire[u]) /\ loop[o] \in Loop /\ ~loop[o].asleep
      BY <2>4, HeadFacts DEF Resolve, Reject
    <3>2. CASE loop' = [loop EXCEPT ![o] = None]
      BY <2>1, <3>2
    <3>3. CASE loop' = [loop EXCEPT ![o].asleep = TRUE]
      <4>1. /\ loop'[o] = [loop[o] EXCEPT !.asleep = TRUE]
            /\ \A p \in Ops \ {o} : loop'[p] = loop[p]
        BY <2>1, <3>3
      <4>2. /\ loop'[o].user = loop[o].user /\ loop'[o].kind = loop[o].kind
            /\ loop'[o].attempt = loop[o].attempt /\ loop'[o].asleep
            /\ loop[o].attempt \in 1..Attempts
        BY <3>1, <4>1 DEF Loop
      <4>3. StepsLeft(loop'[o]) < StepsLeft(loop[o])
        BY <2>1, <3>1, <4>2 DEF StepsLeft
      <4> QED
        BY <4>1, <4>2, <4>3
    <3> QED
      BY <2>4, <3>1, <3>2, <3>3 DEF Resolve, Reject
  <2>5. ASSUME NEW o \in Ops, Retry(o), loop' = [loop EXCEPT ![o] = None] PROVE Advance
    BY <2>1, <2>5
  <2>6. ASSUME NEW o \in Ops, Retry(o), loop' # [loop EXCEPT ![o] = None] PROVE Advance
    <3>1. /\ loop[o] \in Loop /\ loop[o].asleep
          /\ loop' = [loop EXCEPT ![o] = [loop[o] EXCEPT !.asleep = FALSE,
                                                         !.attempt = loop[o].attempt + 1]]
      BY <2>1, <2>6 DEF Retry, Call
    <3>2. /\ loop'[o] = [loop[o] EXCEPT !.asleep = FALSE, !.attempt = loop[o].attempt + 1]
          /\ \A p \in Ops \ {o} : loop'[p] = loop[p]
      BY <2>1, <3>1
    <3>3. /\ loop'[o].user = loop[o].user /\ loop'[o].kind = loop[o].kind
          /\ loop'[o].attempt = loop[o].attempt + 1 /\ loop'[o].asleep = FALSE
          /\ loop[o].attempt \in 1..Attempts
      <4>1. PICK l, n : /\ l = loop[o] /\ l \in Loop /\ n = l.attempt + 1
                        /\ loop'[o] = [l EXCEPT !.asleep = FALSE, !.attempt = n]
        BY <3>1, <3>2
      <4>2. LET m == [l EXCEPT !.asleep = FALSE, !.attempt = n] IN
              m.user = l.user /\ m.kind = l.kind /\ m.attempt = n /\ m.asleep = FALSE
        BY <4>1 DEF Loop
      <4>3. l.attempt \in 1..Attempts
        BY <4>1 DEF Loop
      <4> QED
        BY <4>1, <4>2, <4>3
    <3>4. StepsLeft(loop'[o]) < StepsLeft(loop[o])
      BY <2>1, <3>1, <3>3 DEF StepsLeft
    <3> QED
      BY <3>2, <3>3, <3>4
  <2> QED
    BY <2>3, <2>4, <2>5, <2>6 DEF Next
<1> QED
  BY <1>1, InvariantHolds, PTL DEF Spec, LoopsAdvance
=============================================================================
