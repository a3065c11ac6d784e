----------------------------- MODULE BootProofs -----------------------------
(* Proofs of the safety properties of Boot, for every number of replicas,    *)
(* tables, attempts and signals.  A step of a replica leaves its loop over   *)
(* the tables, stays at its table, goes on to the next one, or does not      *)
(* touch the loop: one lemma for each, then one step per action.             *)
EXTENDS Boot, TLAPS

-----------------------------------------------------------------------------
(* The inductive invariant.                                                 *)

\* A replica in its loop has the tables before its own complete, and has seen
\* its own table active when it turns to the TTL.
LoopProgress ==
  \A r \in Replicas : pc[r] \in Ensuring =>
    /\ \A i \in 1..(at[r] - 1) : Ready(i)
    /\ pc[r] \in {"ttl", "update"} => table[at[r]] = "active"

\* While tracing is on, its listeners are on both signals.
ListenersKept == \A r \in Replicas : started[r] => hooked[r] = Signals

\* RaceHasWinner, with a replica that is not about to lose.
WinnerInLoop ==
  tried /\ ~fault /\ (\A i \in 1..Tables : ttl[i] # "other") =>
    \/ AllReady
    \/ \E r \in Replicas :
         pc[r] \in Ensuring /\ (pc[r] = "update" => ttl[at[r]] = "off")

IInv == TypeOK /\ LoopProgress /\ EnsuredReady /\ ListenersKept /\ WinnerInLoop

-----------------------------------------------------------------------------
(* The proofs.                                                              *)

\* The ranges of a replica's stage, table and attempt after a move.
LEMMA GotoTypes ==
  ASSUME TypeOK, NEW r \in Replicas, NEW stage \in Stages, NEW i \in 1..Tables,
         Goto(r, stage, i)
  PROVE  /\ pc' \in [Replicas -> Stages]
         /\ at' \in [Replicas -> 1..Tables]
         /\ attempt' \in [Replicas -> 1..Attempts]
BY BootAssumption DEF TypeOK, Goto

\* A replica moves to a stage outside its loop: it was not in it, or a fault
\* is on record.
LEMMA LeaveKeeps ==
  ASSUME IInv, NEW r \in Replicas, NEW stage \in Stages \ Ensuring,
         Goto(r, stage, 1),
         \/ UNCHANGED <<ensured, started, hooked>>
         \/ /\ ensured' = [ensured EXCEPT ![r] = FALSE]
            /\ started' = [started EXCEPT ![r] = FALSE]
            /\ hooked' = [hooked EXCEPT ![r] = {}],
         UNCHANGED <<table, ttl, tried>>,
         fault' \in BOOLEAN,
         (fault' = fault /\ pc[r] \notin Ensuring) \/ fault' = TRUE
  PROVE  IInv'
<1>1. TypeOK'
  <2>1. /\ pc' \in [Replicas -> Stages]
        /\ at' \in [Replicas -> 1..Tables]
        /\ attempt' \in [Replicas -> 1..Attempts]
    BY GotoTypes, BootAssumption DEF IInv
  <2>2. /\ ensured' \in [Replicas -> BOOLEAN]
        /\ started' \in [Replicas -> BOOLEAN]
        /\ hooked' \in [Replicas -> SUBSET Signals]
    BY DEF IInv, TypeOK
  <2> QED
    BY <2>1, <2>2 DEF IInv, TypeOK
<1>2. \A q \in Replicas : pc'[q] \in Ensuring =>
        q # r /\ pc'[q] = pc[q] /\ at'[q] = at[q]
  BY DEF IInv, TypeOK, Goto
<1>3. LoopProgress'
  BY <1>2 DEF IInv, LoopProgress, Ready
<1>4. EnsuredReady'
  BY DEF IInv, TypeOK, EnsuredReady, AllReady, Ready
<1>5. ListenersKept'
  BY DEF IInv, TypeOK, ListenersKept
<1>6. WinnerInLoop'
  <2>1. CASE fault' = TRUE
    BY <2>1 DEF WinnerInLoop
  <2>2. CASE fault' = fault /\ pc[r] \notin Ensuring
    <3>1. \A q \in Replicas : pc[q] \in Ensuring => pc'[q] = pc[q] /\ at'[q] = at[q]
      BY <2>2 DEF IInv, TypeOK, Goto
    <3> QED
      BY <2>2, <3>1 DEF IInv, WinnerInLoop, AllReady, Ready
  <2> QED
    BY <2>1, <2>2
<1> QED
  BY <1>1, <1>3, <1>4, <1>5, <1>6 DEF IInv

\* A replica stays at its table.
LEMMA StayKeeps ==
  ASSUME IInv, NEW r \in Replicas, NEW stage \in Ensuring,
         pc[r] \in Ensuring,
         Goto(r, stage, at[r]),
         stage \in {"ttl", "update"} => table[at[r]] = "active",
         stage = "update" => ttl[at[r]] # "expiresAt",
         \/ table' = table
         \/ /\ table[at[r]] = "absent"
            /\ table' = [table EXCEPT ![at[r]] = "creating"],
         UNCHANGED <<ensured, started, hooked, ttl, tried, fault>>
  PROVE  IInv'
<1> USE DEF IInv
<1>0. stage \in Stages /\ at[r] \in 1..Tables
  BY DEF Stages, TypeOK
<1>1. TypeOK'
  BY <1>0, GotoTypes DEF TypeOK
<1>2. /\ \A q \in Replicas : at'[q] = at[q]
      /\ \A q \in Replicas \ {r} : pc'[q] = pc[q]
      /\ pc'[r] = stage
  BY DEF TypeOK, Goto
<1>3. \A i \in 1..Tables : table[i] = "active" => table'[i] = "active"
  BY DEF TypeOK
<1>4. LoopProgress'
  <2> SUFFICES ASSUME NEW q \in Replicas, pc'[q] \in Ensuring
               PROVE  /\ \A i \in 1..(at'[q] - 1) : Ready(i)'
                      /\ pc'[q] \in {"ttl", "update"} => table'[at'[q]] = "active"
    BY DEF LoopProgress
  <2>1. pc[q] \in Ensuring
    BY <1>2
  <2>2. at[q] \in 1..Tables
    BY DEF TypeOK
  <2>3. \A i \in 1..(at'[q] - 1) : Ready(i)'
    BY <1>2, <1>3, <2>1, <2>2, BootAssumption DEF LoopProgress, Ready
  <2>4. pc'[q] \in {"ttl", "update"} => table[at[q]] = "active"
    BY <1>2, <2>1 DEF LoopProgress
  <2> QED
    BY <1>2, <1>3, <2>2, <2>3, <2>4
<1>5. EnsuredReady'
  BY <1>3 DEF EnsuredReady, AllReady, Ready
<1>6. ListenersKept'
  BY DEF ListenersKept
<1>7. WinnerInLoop'
  <2> SUFFICES ASSUME tried, ~fault, \A i \in 1..Tables : ttl[i] # "other", ~AllReady
               PROVE  \E q \in Replicas :
                        pc'[q] \in Ensuring /\ (pc'[q] = "update" => ttl[at'[q]] = "off")
    BY <1>3 DEF WinnerInLoop, AllReady, Ready
  <2>1. pc'[r] = "update" => ttl[at'[r]] = "off"
    BY <1>0, <1>2 DEF TypeOK, TtlStates
  <2> QED
    BY <1>2, <2>1
<1> QED
  BY <1>1, <1>4, <1>5, <1>6, <1>7

\* A replica whose table is complete goes on to the next, or ends its loop.
LEMMA NextTableKeeps ==
  ASSUME IInv, NEW r \in Replicas,
         pc[r] \in Ensuring,
         NextTable(r),
         table[at[r]] = "active",
         HasTtl(at[r]) => ttl'[at[r]] = "expiresAt",
         ttl' = ttl \/ ttl' = [ttl EXCEPT ![at[r]] = "expiresAt"],
         UNCHANGED <<table, tried, fault>>
  PROVE  IInv'
<1> USE DEF IInv
<1>0. at[r] \in 1..Tables /\ Tables \in Nat
  BY BootAssumption DEF TypeOK
<1>1. TypeOK'
  <2>1. /\ pc' \in [Replicas -> Stages]
        /\ at' \in [Replicas -> 1..Tables]
        /\ attempt' \in [Replicas -> 1..Attempts]
        /\ ensured' \in [Replicas -> BOOLEAN]
        /\ UNCHANGED <<started, hooked>>
    <3>1. CASE at[r] < Tables /\ Goto(r, "describe", at[r] + 1)
                 /\ UNCHANGED <<ensured, started, hooked>>
      <4>1. "describe" \in Stages /\ at[r] + 1 \in 1..Tables
        BY <1>0, <3>1 DEF Stages, Ensuring
      <4> QED
        BY <3>1, <4>1, GotoTypes DEF TypeOK
    <3>2. CASE at[r] = Tables /\ Goto(r, "redis", 1)
                 /\ ensured' = [ensured EXCEPT ![r] = TRUE]
                 /\ UNCHANGED <<started, hooked>>
      <4>1. "redis" \in Stages /\ 1 \in 1..Tables
        BY <1>0, <3>2, BootAssumption DEF Stages
      <4> QED
        BY <3>2, <4>1, GotoTypes DEF TypeOK
    <3> QED
      BY <3>1, <3>2 DEF NextTable
  <2>2. /\ ttl' \in [1..Tables -> TtlStates]
        /\ \A i \in 1..Tables : table'[i] = "absent" => ttl'[i] = "off"
    BY <1>0 DEF TypeOK, TtlStates
  <2> QED
    BY <2>1, <2>2 DEF TypeOK
<1>2. \A i \in 1..Tables : Ready(i) => Ready(i)'
  BY DEF TypeOK, Ready
<1>3. \A i \in 1..at[r] : Ready(i)'
  <2>1. \A i \in 1..(at[r] - 1) : Ready(i)'
    BY <1>0, <1>2 DEF LoopProgress
  <2>2. \A i \in 1..at[r] : i = at[r] => Ready(i)'
    BY DEF Ready
  <2> QED
    BY <1>0, <2>1, <2>2
<1>4. \A q \in Replicas \ {r} : pc'[q] = pc[q] /\ at'[q] = at[q]
  BY DEF NextTable, Goto, TypeOK
<1>5. \/ at[r] < Tables /\ pc'[r] = "describe" /\ at'[r] = at[r] + 1 /\ ensured' = ensured
      \/ at[r] = Tables /\ pc'[r] = "redis" /\ ensured' = [ensured EXCEPT ![r] = TRUE]
  BY DEF NextTable, Goto, TypeOK
<1>6. at[r] = Tables => AllReady'
  BY <1>3 DEF AllReady
<1>7. LoopProgress'
  <2> SUFFICES ASSUME NEW q \in Replicas, pc'[q] \in Ensuring
               PROVE  /\ \A i \in 1..(at'[q] - 1) : Ready(i)'
                      /\ pc'[q] \in {"ttl", "update"} => table[at'[q]] = "active"
    BY DEF LoopProgress
  <2>1. CASE q = r
    BY <1>0, <1>3, <1>5, <2>1 DEF Ensuring
  <2>2. CASE q # r
    <3>1. at[q] \in 1..Tables
      BY DEF TypeOK
    <3> QED
      BY <1>0, <1>2, <1>4, <2>2, <3>1 DEF LoopProgress
  <2> QED
    BY <2>1, <2>2
<1>8. EnsuredReady'
  <2>1. AllReady => AllReady'
    BY <1>2 DEF AllReady
  <2>2. \A q \in Replicas : ensured'[q] => ensured[q] \/ AllReady'
    BY <1>5, <1>6 DEF TypeOK
  <2> QED
    BY <2>1, <2>2 DEF EnsuredReady
<1>9. ListenersKept'
  BY DEF ListenersKept, NextTable
<1>10. WinnerInLoop'
  BY <1>0, <1>5, <1>6 DEF WinnerInLoop, Ensuring
<1> QED
  BY <1>1, <1>7, <1>8, <1>9, <1>10

\* Every step keeps the inductive invariant.
LEMMA NextKeeps ==
  ASSUME IInv, [Next]_vars
  PROVE  IInv'
<1> USE DEF IInv
<1> DEFINE R(r) == pc[r] \in Stages /\ at[r] \in 1..Tables /\ 1 \in 1..Tables
<1>0. \A r \in Replicas : R(r)
  BY BootAssumption DEF TypeOK
<1>1. ASSUME NEW r \in Replicas, Start(r)
      PROVE  IInv'
  <2>1. TypeOK'
    <3>1. /\ pc' \in [Replicas -> Stages]
          /\ at' \in [Replicas -> 1..Tables]
          /\ attempt' \in [Replicas -> 1..Attempts]
      BY <1>0, <1>1, GotoTypes DEF Start, Stages
    <3>2. /\ started' \in [Replicas -> BOOLEAN]
          /\ hooked' \in [Replicas -> SUBSET Signals]
      BY <1>1 DEF TypeOK, Start, InitTracing
    <3> QED
      BY <1>1, <3>1, <3>2 DEF TypeOK, Start
  <2>2. \A q \in Replicas : pc'[q] \in Ensuring => pc'[q] = pc[q] /\ at'[q] = at[q]
    BY <1>1 DEF Start, Goto, TypeOK, Ensuring
  <2>3. \A q \in Replicas : pc[q] \in Ensuring => pc'[q] = pc[q] /\ at'[q] = at[q]
    BY <1>1 DEF Start, Goto, TypeOK, Ensuring
  <2>4. LoopProgress'
    BY <1>1, <2>2 DEF Start, LoopProgress, Ready
  <2>5. EnsuredReady'
    BY <1>1 DEF Start, EnsuredReady, AllReady, Ready
  <2>6. ListenersKept'
    BY <1>1 DEF Start, InitTracing, ListenersKept, TypeOK
  <2>7. WinnerInLoop'
    BY <1>1, <2>3 DEF Start, WinnerInLoop, AllReady, Ready
  <2> QED
    BY <2>1, <2>4, <2>5, <2>6, <2>7
<1>2. ASSUME NEW r \in Replicas, Ping(r)
      PROVE  IInv'
  <2>1. CASE Continue(r, "redis") /\ UNCHANGED tried
    <3>1. "redis" \in Stages \ Ensuring /\ pc[r] \notin Ensuring /\ fault' \in BOOLEAN
      BY <1>2 DEF Ping, Stages, Ensuring, TypeOK
    <3> QED
      BY <1>2, <2>1, <3>1, LeaveKeeps DEF Ping, Continue
  <2>2. CASE Continue(r, "describe") /\ tried' = TRUE
    <3>1. TypeOK'
      <4>1. /\ pc' \in [Replicas -> Stages]
            /\ at' \in [Replicas -> 1..Tables]
            /\ attempt' \in [Replicas -> 1..Attempts]
        BY <1>0, <2>2, GotoTypes DEF Continue, Stages, Ensuring
      <4> QED
        BY <1>2, <2>2, <4>1 DEF TypeOK, Ping, Continue
    <3>2. /\ \A q \in Replicas \ {r} : pc'[q] = pc[q] /\ at'[q] = at[q]
          /\ pc'[r] = "describe" /\ at'[r] = 1
      BY <2>2 DEF Continue, Goto, TypeOK
    <3>3. LoopProgress'
      BY <1>2, <3>2 DEF Ping, LoopProgress, Ready
    <3>4. EnsuredReady' /\ ListenersKept'
      BY <1>2, <2>2 DEF Ping, Continue, EnsuredReady, AllReady, Ready, ListenersKept
    <3>5. WinnerInLoop'
      BY <3>2 DEF WinnerInLoop, Ensuring
    <3> QED
      BY <3>1, <3>3, <3>4, <3>5
  <2> QED
    BY <1>2, <2>1, <2>2 DEF Ping
<1>3. ASSUME NEW r \in Replicas, NextAttempt(r), UNCHANGED <<table, ttl, tried, fault>>
      PROVE  IInv'
  <2>1. TypeOK'
    BY <1>3, BootAssumption DEF TypeOK, NextAttempt
  <2>2. LoopProgress' /\ EnsuredReady' /\ ListenersKept' /\ WinnerInLoop'
    BY <1>3 DEF NextAttempt, LoopProgress, EnsuredReady, ListenersKept, WinnerInLoop,
                AllReady, Ready
  <2> QED
    BY <2>1, <2>2
<1>4. ASSUME NEW r \in Replicas, Exit(r), UNCHANGED <<table, ttl, tried>>,
             fault' = (fault \/ pc[r] \in Ensuring)
      PROVE  IInv'
  <2>1. /\ "down" \in Stages \ Ensuring
        /\ fault' \in BOOLEAN
        /\ (fault' = fault /\ pc[r] \notin Ensuring) \/ fault' = TRUE
    BY <1>4 DEF Stages, Ensuring, TypeOK
  <2> QED
    BY <1>4, <2>1, LeaveKeeps DEF Exit
<1>5. ASSUME NEW r \in Replicas, ConnectFails(r)
      PROVE  IInv'
  <2>1. pc[r] \notin Ensuring /\ fault \in BOOLEAN
    BY <1>5 DEF ConnectFails, Ensuring, TypeOK
  <2> QED
    BY <1>3, <1>4, <1>5, <2>1 DEF ConnectFails
<1>6. ASSUME NEW r \in Replicas,
             ConnectRedis(r) \/ ConnectSubscriber(r) \/ StartScrapeServer(r) \/ Listen(r)
      PROVE  IInv'
  <2>1. pc[r] \notin Ensuring /\ fault \in BOOLEAN /\ UNCHANGED <<table, ttl, tried, fault>>
    BY <1>6 DEF ConnectRedis, ConnectSubscriber, StartScrapeServer, Listen, Ensuring, TypeOK
  <2>2. \/ Exit(r)
        \/ \E stage \in {"subscriber", "metrics", "listen", "serving"} : Continue(r, stage)
    BY <1>6 DEF ConnectRedis, ConnectSubscriber, StartScrapeServer, Listen
  <2>3. {"subscriber", "metrics", "listen", "serving"} \subseteq Stages \ Ensuring
    BY DEF Stages, Ensuring
  <2> QED
    BY <1>4, <2>1, <2>2, <2>3, LeaveKeeps DEF Continue
<1>7. ASSUME NEW r \in Replicas, TableActive(r), pc[r] \in Ensuring,
             table[at[r]] = "active", UNCHANGED <<table, ttl, tried, fault>>
      PROVE  IInv'
  <2>1. CASE HasTtl(at[r])
    BY <1>7, <2>1, StayKeeps DEF TableActive, Ensuring
  <2>2. CASE ~HasTtl(at[r])
    BY <1>7, <2>2, NextTableKeeps DEF TableActive
  <2> QED
    BY <2>1, <2>2
<1>8. ASSUME NEW r \in Replicas, Describe(r)
      PROVE  IInv'
  <2>1. pc[r] \in Ensuring /\ {"wait", "create"} \subseteq Ensuring
    BY <1>8 DEF Describe, Ensuring
  <2> QED
    BY <1>7, <1>8, <2>1, StayKeeps DEF Describe
<1>9. ASSUME NEW r \in Replicas, Create(r)
      PROVE  IInv'
  <2>1. pc[r] \in Ensuring /\ "wait" \in Ensuring
    BY <1>9 DEF Create, Ensuring
  <2>2. \/ table' = table
        \/ /\ table[at[r]] = "absent"
           /\ table' = [table EXCEPT ![at[r]] = "creating"]
    BY <1>9 DEF Create, TypeOK
  <2> QED
    BY <1>9, <2>1, <2>2, StayKeeps DEF Create
<1>10. ASSUME NEW r \in Replicas, BootstrapFailed(r), UNCHANGED <<table, ttl, tried>>,
              fault' = TRUE
       PROVE  IInv'
  <2>1. "redis" \in Stages \ Ensuring
    BY DEF Stages, Ensuring
  <2> QED
    BY <1>10, <2>1, LeaveKeeps DEF BootstrapFailed, Continue
<1>11. ASSUME NEW r \in Replicas, Wait(r)
       PROVE  IInv'
  <2>1. pc[r] \in Ensuring
    BY <1>11 DEF Wait, Ensuring
  <2> QED
    BY <1>3, <1>7, <1>10, <1>11, <2>1 DEF Wait
<1>12. ASSUME NEW r \in Replicas, DescribeTtl(r)
       PROVE  IInv'
  <2>1. pc[r] \in Ensuring /\ "update" \in Ensuring /\ table[at[r]] = "active"
    BY <1>12 DEF DescribeTtl, Ensuring, LoopProgress
  <2> QED
    BY <1>12, <2>1, StayKeeps, NextTableKeeps DEF DescribeTtl
<1>13. ASSUME NEW r \in Replicas, UpdateTtl(r)
       PROVE  IInv'
  <2>1. pc[r] \in Ensuring /\ table[at[r]] = "active" /\ at[r] \in 1..Tables
    BY <1>0, <1>13 DEF UpdateTtl, Ensuring, LoopProgress
  <2>2. CASE ttl' = [ttl EXCEPT ![at[r]] = "expiresAt"] /\ NextTable(r)
    <3>1. ttl'[at[r]] = "expiresAt"
      BY <2>1, <2>2 DEF TypeOK
    <3> QED
      BY <1>13, <2>1, <2>2, <3>1, NextTableKeeps DEF UpdateTtl
  <2>3. CASE ttl[at[r]] # "off" /\ BootstrapFailed(r) /\ UNCHANGED ttl
    <3>1. TypeOK' /\ LoopProgress' /\ EnsuredReady' /\ ListenersKept'
      <4>1. "redis" \in Stages
        BY DEF Stages
      <4>2. TypeOK'
        BY <1>0, <1>13, <2>3, <4>1, GotoTypes DEF UpdateTtl, BootstrapFailed, Continue, TypeOK
      <4>3. \A q \in Replicas : pc'[q] \in Ensuring => pc'[q] = pc[q] /\ at'[q] = at[q]
        BY <2>3 DEF BootstrapFailed, Continue, Goto, TypeOK, Ensuring
      <4>4. LoopProgress'
        BY <1>13, <2>3, <4>3 DEF UpdateTtl, LoopProgress, Ready
      <4>5. EnsuredReady' /\ ListenersKept'
        BY <1>13, <2>3 DEF UpdateTtl, BootstrapFailed, Continue, EnsuredReady, AllReady,
                           Ready, ListenersKept
      <4> QED
        BY <4>2, <4>4, <4>5
    <3>2. \A q \in Replicas \ {r} : pc'[q] = pc[q] /\ at'[q] = at[q]
      BY <2>3 DEF BootstrapFailed, Continue, Goto, TypeOK
    <3>3. pc[r] = "update" /\ UNCHANGED <<table, ttl, tried, fault>>
      BY <1>13, <2>3 DEF UpdateTtl
    <3>4. WinnerInLoop'
      BY <2>3, <3>2, <3>3 DEF WinnerInLoop, AllReady, Ready
    <3> QED
      BY <3>1, <3>4
  <2> QED
    BY <1>13, <2>2, <2>3 DEF UpdateTtl
<1>14. ASSUME NEW r \in Replicas, RequestFails(r)
       PROVE  IInv'
  <2>1. "redis" \in Stages /\ at[r] \in 1..Tables
    BY <1>0 DEF Stages
  <2>2. pc[r] = "update" => table[at[r]] = "active"
    BY DEF LoopProgress, Ensuring
  <2>3. TypeOK'
    <3>1. /\ table' \in [1..Tables -> {"absent", "creating", "active"}]
          /\ ttl' \in [1..Tables -> TtlStates]
          /\ \A i \in 1..Tables : table'[i] = "absent" => ttl'[i] = "off"
      BY <1>14, <2>1, <2>2 DEF RequestFails, TypeOK, TtlStates
    <3>2. /\ pc' \in [Replicas -> Stages]
          /\ at' \in [Replicas -> 1..Tables]
          /\ attempt' \in [Replicas -> 1..Attempts]
      BY <1>0, <1>14, <2>1, GotoTypes DEF RequestFails, BootstrapFailed, Continue
    <3> QED
      BY <1>14, <3>1, <3>2 DEF RequestFails, BootstrapFailed, Continue, TypeOK
  <2>4. \A i \in 1..Tables : /\ table[i] = "active" => table'[i] = "active"
                             /\ Ready(i) => Ready(i)'
    BY <1>14, <2>1 DEF RequestFails, TypeOK, Ready
  <2>5. \A q \in Replicas : pc'[q] \in Ensuring => pc'[q] = pc[q] /\ at'[q] = at[q]
    BY <1>14 DEF RequestFails, BootstrapFailed, Continue, Goto, TypeOK, Ensuring
  <2>6. LoopProgress'
    <3>1. \A q \in Replicas : at[q] \in 1..Tables
      BY <1>0
    <3> QED
      BY <2>4, <2>5, <3>1, BootAssumption DEF LoopProgress
  <2>7. EnsuredReady' /\ ListenersKept' /\ WinnerInLoop'
    BY <1>14, <2>4 DEF RequestFails, BootstrapFailed, Continue, EnsuredReady, AllReady,
                       ListenersKept, WinnerInLoop
  <2> QED
    BY <2>3, <2>6, <2>7
<1>15. ASSUME NEW i \in 1..Tables, Activate(i)
       PROVE  IInv'
  <2>1. TypeOK'
    BY <1>15 DEF Activate, replicaVars, TypeOK
  <2>2. \A j \in 1..Tables : /\ table[j] = "active" => table'[j] = "active"
                             /\ Ready(j) => Ready(j)'
    BY <1>15 DEF Activate, TypeOK, Ready
  <2>3. LoopProgress'
    <3>1. \A q \in Replicas : at[q] \in 1..Tables
      BY <1>0
    <3> QED
      BY <1>15, <2>2, <3>1, BootAssumption DEF Activate, replicaVars, LoopProgress
  <2>4. EnsuredReady' /\ ListenersKept' /\ WinnerInLoop'
    BY <1>15, <2>2 DEF Activate, replicaVars, EnsuredReady, AllReady, ListenersKept, WinnerInLoop
  <2> QED
    BY <2>1, <2>3, <2>4
<1>16. ASSUME NEW r \in Replicas, NEW s \in Signals, SignalHandled(r, s)
       PROVE  IInv'
  <2>1. TypeOK'
    BY <1>16 DEF SignalHandled, TypeOK
  <2>2. ListenersKept'
    BY <1>16 DEF SignalHandled, TypeOK, ListenersKept
  <2>3. LoopProgress' /\ EnsuredReady' /\ WinnerInLoop'
    BY <1>16 DEF SignalHandled, LoopProgress, EnsuredReady, WinnerInLoop, AllReady, Ready
  <2> QED
    BY <2>1, <2>2, <2>3
<1>17. CASE UNCHANGED vars
  BY <1>17 DEF vars, TypeOK, LoopProgress, EnsuredReady, ListenersKept, WinnerInLoop,
               AllReady, Ready
<1> QED
  BY <1>1, <1>2, <1>4, <1>5, <1>6, <1>8, <1>9, <1>11, <1>12, <1>13, <1>14, <1>15, <1>16,
     <1>17 DEF Next, DynamoInit, SignalEnds, Kill

LEMMA InitIInv == Init => IInv
<1> SUFFICES ASSUME Init PROVE IInv
  OBVIOUS
<1>1. TypeOK
  <2>1. /\ pc \in [Replicas -> Stages]
        /\ at \in [Replicas -> 1..Tables]
        /\ attempt \in [Replicas -> 1..Attempts]
    BY BootAssumption DEF Init, Stages
  <2>2. table \in [1..Tables -> {"absent", "creating", "active"}]
    BY DEF Init
  <2> QED
    BY <2>1, <2>2 DEF Init, TypeOK
<1>2. LoopProgress /\ EnsuredReady /\ ListenersKept /\ WinnerInLoop
  BY DEF Init, LoopProgress, EnsuredReady, ListenersKept, WinnerInLoop, Ensuring
<1> QED
  BY <1>1, <1>2 DEF IInv

\* The inductive invariant holds in every state.
THEOREM Invariance == Spec => []IInv
<1>1. IInv /\ [Next]_vars => IInv'
  BY NextKeeps
<1> QED
  BY InitIInv, <1>1, PTL DEF Spec

\* Stages, counters and table states of all replicas keep their ranges.
THEOREM TypeCorrect == Spec => []TypeOK
<1>1. IInv => TypeOK
  BY DEF IInv
<1> QED
  BY <1>1, Invariance, PTL

\* A replica whose ensureTablesExist returned has all tables, with any number
\* of replicas booting beside it, failing requests and crashes.
THEOREM EnsuredTablesReady == Spec => []EnsuredReady
<1>1. IInv => EnsuredReady
  BY DEF IInv
<1> QED
  BY <1>1, Invariance, PTL

\* Replicas that lose the race to enable TTL do not leave tables incomplete.
THEOREM TtlRaceHasWinner == Spec => []RaceHasWinner
<1>1. IInv => RaceHasWinner
  BY DEF IInv, WinnerInLoop, RaceHasWinner
<1> QED
  BY <1>1, Invariance, PTL

\* A signal ends a process only after shutdownTracing took its tracing down.
THEOREM SignalsFlushFirst == Spec => NoSignalBeforeFlush
<1>1. IInv => (\A r \in Replicas, s \in Signals : SignalEnds(r, s) => ~started[r])
  BY DEF IInv, ListenersKept, SignalEnds
<1> QED
  BY <1>1, Invariance, PTL DEF NoSignalBeforeFlush

-----------------------------------------------------------------------------
(* The boot advances.                                                       *)

\* The first component that differs decides.
LEMMA PrecedesFacts ==
  ASSUME NEW a \in Nat, NEW b \in Nat, NEW c \in Nat, NEW d \in Nat,
         NEW w \in Nat, NEW x \in Nat, NEW y \in Nat, NEW z \in Nat,
         \/ a < w
         \/ a = w /\ b < x
         \/ a = w /\ b = x /\ c < y
         \/ a = w /\ b = x /\ c = y /\ d < z
  PROVE  Precedes(<<a, b, c, d>>, <<w, x, y, z>>)
<1> DEFINE p == <<a, b, c, d>>
           q == <<w, x, y, z>>
<1>1. CASE a < w
  <2>1. p[1] < q[1] /\ \A j \in 1..(1 - 1) : p[j] = q[j]
    BY <1>1
  <2> QED
    BY <2>1 DEF Precedes
<1>2. CASE a = w /\ b < x
  <2>1. p[2] < q[2] /\ \A j \in 1..(2 - 1) : p[j] = q[j]
    BY <1>2
  <2> QED
    BY <2>1 DEF Precedes
<1>3. CASE a = w /\ b = x /\ c < y
  <2>1. p[3] < q[3] /\ \A j \in 1..(3 - 1) : p[j] = q[j]
    BY <1>3
  <2> QED
    BY <2>1 DEF Precedes
<1>4. CASE a = w /\ b = x /\ c = y /\ d < z
  <2>1. p[4] < q[4] /\ \A j \in 1..(4 - 1) : p[j] = q[j]
    BY <1>4
  <2> QED
    BY <2>1 DEF Precedes
<1> QED
  BY <1>1, <1>2, <1>3, <1>4

\* The ranks of the stages.
LEMMA RankFacts ==
  /\ \A stage \in Stages : Hook(stage) \in Nat /\ Request(stage) \in Nat
  /\ \A stage \in Ensuring : Hook(stage) = 2
  /\ Hook("ping") = 1 /\ Hook("redis") = 3 /\ Hook("subscriber") = 4
  /\ Hook("metrics") = 5 /\ Hook("listen") = 6 /\ Hook("serving") = 7
  /\ Request("describe") = 1 /\ Request("create") = 2 /\ Request("wait") = 3
  /\ Request("ttl") = 4 /\ Request("update") = 5
BY DEF Hook, Request, Stages, Ensuring

\* A replica goes to a later stage, and the others stay where they are.
LEMMA GotoAdvances ==
  ASSUME TypeOK, NEW r \in Replicas, NEW stage \in Stages, NEW i \in 1..Tables,
         Goto(r, stage, i),
         \/ Hook(pc[r]) < Hook(stage)
         \/ Hook(pc[r]) = Hook(stage) /\ at[r] < i
         \/ Hook(pc[r]) = Hook(stage) /\ at[r] = i /\ Request(pc[r]) < Request(stage)
  PROVE  \A q \in Replicas : Advances(q)
<1>1. /\ pc'[r] = stage /\ at'[r] = i /\ attempt'[r] = 1
      /\ \A q \in Replicas \ {r} : pc'[q] = pc[q] /\ at'[q] = at[q] /\ attempt'[q] = attempt[q]
  BY DEF TypeOK, Goto
<1>2. /\ Hook(pc[r]) \in Nat /\ Request(pc[r]) \in Nat
      /\ Hook(stage) \in Nat /\ Request(stage) \in Nat
      /\ at[r] \in Nat /\ i \in Nat /\ attempt[r] \in Nat /\ 1 \in Nat
  BY RankFacts, BootAssumption DEF TypeOK
<1>3. Precedes(<<Hook(pc[r]), at[r], Request(pc[r]), attempt[r]>>,
               <<Hook(stage), i, Request(stage), 1>>)
  BY <1>2, PrecedesFacts
<1>4. Position(r)' = <<Hook(stage), i, Request(stage), 1>>
  BY <1>1 DEF Position
<1>5. Precedes(Position(r), Position(r)')
  BY <1>3, <1>4 DEF Position
<1>6. \A q \in Replicas \ {r} : UNCHANGED Position(q)
  BY <1>1 DEF Position
<1> QED
  BY <1>5, <1>6 DEF Advances

\* An attempt that fails is counted.
LEMMA AttemptAdvances ==
  ASSUME TypeOK, NEW r \in Replicas, NextAttempt(r)
  PROVE  \A q \in Replicas : Advances(q)
<1>1. /\ pc' = pc /\ at' = at /\ attempt'[r] = attempt[r] + 1
      /\ \A q \in Replicas \ {r} : attempt'[q] = attempt[q]
  BY DEF TypeOK, NextAttempt
<1>2. /\ Hook(pc[r]) \in Nat /\ Request(pc[r]) \in Nat
      /\ at[r] \in Nat /\ attempt[r] \in Nat /\ attempt[r] + 1 \in Nat
      /\ attempt[r] < attempt[r] + 1
  BY RankFacts, BootAssumption DEF TypeOK
<1>3. Precedes(<<Hook(pc[r]), at[r], Request(pc[r]), attempt[r]>>,
               <<Hook(pc[r]), at[r], Request(pc[r]), attempt[r] + 1>>)
  BY <1>2, PrecedesFacts
<1>4. Position(r)' = <<Hook(pc[r]), at[r], Request(pc[r]), attempt[r] + 1>>
  BY <1>1 DEF Position
<1>5. Precedes(Position(r), Position(r)')
  BY <1>3, <1>4 DEF Position
<1>6. \A q \in Replicas \ {r} : UNCHANGED Position(q)
  BY <1>1 DEF Position
<1> QED
  BY <1>5, <1>6 DEF Advances

\* Leaving the loop over the tables, at its end or for an error, is an advance.
LEMMA LoopLeftAdvances ==
  ASSUME TypeOK, NEW r \in Replicas, pc[r] \in Ensuring, Goto(r, "redis", 1)
  PROVE  \A q \in Replicas : Advances(q)
<1>1. "redis" \in Stages /\ 1 \in 1..Tables
  BY BootAssumption DEF Stages
<1>2. Hook(pc[r]) < Hook("redis")
  BY RankFacts
<1> QED
  BY <1>1, <1>2, GotoAdvances

\* So is the next table, and the next request for the same table.
LEMMA RequestAdvances ==
  ASSUME TypeOK, NEW r \in Replicas, pc[r] \in Ensuring, NEW stage \in Ensuring,
         Goto(r, stage, at[r]), Request(pc[r]) < Request(stage)
  PROVE  \A q \in Replicas : Advances(q)
<1>1. stage \in Stages /\ at[r] \in 1..Tables
  BY DEF Stages, TypeOK
<1>2. Hook(pc[r]) = Hook(stage) /\ at[r] = at[r]
  BY RankFacts
<1> QED
  BY <1>1, <1>2, GotoAdvances

LEMMA TableAdvances ==
  ASSUME TypeOK, NEW r \in Replicas, pc[r] \in Ensuring, NextTable(r)
  PROVE  \A q \in Replicas : Advances(q)
<1>1. CASE at[r] < Tables /\ Goto(r, "describe", at[r] + 1)
  <2>1. /\ "describe" \in Stages /\ "describe" \in Ensuring
        /\ at[r] + 1 \in 1..Tables /\ at[r] < at[r] + 1
    BY <1>1, BootAssumption DEF Stages, Ensuring, TypeOK
  <2>2. Hook(pc[r]) = Hook("describe")
    BY <2>1, RankFacts
  <2> QED
    BY <1>1, <2>1, <2>2, GotoAdvances
<1> QED
  BY <1>1, LoopLeftAdvances DEF NextTable

LEMMA ActiveAdvances ==
  ASSUME TypeOK, NEW r \in Replicas, pc[r] \in {"describe", "wait"}, TableActive(r)
  PROVE  \A q \in Replicas : Advances(q)
<1>1. pc[r] \in Ensuring /\ "ttl" \in Ensuring /\ Request(pc[r]) < Request("ttl")
  BY RankFacts DEF Ensuring
<1> QED
  BY <1>1, RequestAdvances, TableAdvances DEF TableActive

\* DynamoService, the Redis clients, the scrape server and the port come up in
\* order: no step of a booting process repeats an earlier hook, table, request
\* or attempt, however many replicas boot beside it.
THEOREM BootNeverTurnsBack == Spec => BootAdvances
<1>1. IInv /\ [Next]_vars => [\A r \in Replicas : Advances(r)]_vars
  <2> SUFFICES ASSUME TypeOK, Next PROVE \A q \in Replicas : Advances(q)
    BY DEF IInv
  <2>1. ASSUME NEW r \in Replicas, Start(r)
        PROVE  \A q \in Replicas : Advances(q)
    <3>1. /\ pc[r] = "down"
          /\ \A q \in Replicas \ {r} : pc'[q] = pc[q] /\ at'[q] = at[q] /\ attempt'[q] = attempt[q]
      BY <2>1 DEF Start, Goto, TypeOK
    <3>2. \A q \in Replicas \ {r} : UNCHANGED Position(q)
      BY <3>1 DEF Position
    <3> QED
      BY <3>1, <3>2 DEF Advances
  <2>2. ASSUME NEW r \in Replicas, Exit(r)
        PROVE  \A q \in Replicas : Advances(q)
    <3>1. /\ pc'[r] = "down"
          /\ \A q \in Replicas \ {r} : pc'[q] = pc[q] /\ at'[q] = at[q] /\ attempt'[q] = attempt[q]
      BY <2>2 DEF Exit, Goto, TypeOK
    <3>2. \A q \in Replicas \ {r} : UNCHANGED Position(q)
      BY <3>1 DEF Position
    <3> QED
      BY <3>1, <3>2 DEF Advances
  <2>3. ASSUME NEW r \in Replicas,
               \/ Ping(r) \/ ConnectRedis(r) \/ ConnectSubscriber(r)
               \/ StartScrapeServer(r) \/ (pc[r] = "listen" /\ Continue(r, "serving"))
        PROVE  \A q \in Replicas : Advances(q)
    <3>1. PICK stage \in Stages : Goto(r, stage, 1) /\ Hook(pc[r]) < Hook(stage)
      <4>1. CASE Ping(r)
        <5>1. /\ "describe" \in Stages /\ "redis" \in Stages
              /\ Hook("ping") < Hook("describe") /\ Hook("ping") < Hook("redis")
          BY RankFacts DEF Stages, Ensuring
        <5> QED
          BY <4>1, <5>1 DEF Ping, Continue
      <4>2. CASE ConnectRedis(r)
        BY <4>2, RankFacts DEF ConnectRedis, Continue, Stages
      <4>3. CASE ConnectSubscriber(r)
        BY <4>3, RankFacts DEF ConnectSubscriber, Continue, Stages
      <4>4. CASE StartScrapeServer(r)
        BY <4>4, RankFacts DEF StartScrapeServer, Continue, Stages
      <4>5. CASE pc[r] = "listen" /\ Continue(r, "serving")
        BY <4>5, RankFacts DEF Continue, Stages
      <4> QED
        BY <2>3, <4>1, <4>2, <4>3, <4>4, <4>5
    <3>2. 1 \in 1..Tables
      BY BootAssumption
    <3> QED
      BY <3>1, <3>2, GotoAdvances
  <2>4. ASSUME NEW r \in Replicas, ConnectFails(r)
        PROVE  \A q \in Replicas : Advances(q)
    BY <2>2, <2>4, AttemptAdvances DEF ConnectFails
  <2>5. ASSUME NEW r \in Replicas, Describe(r) \/ Create(r) \/ DescribeTtl(r)
        PROVE  \A q \in Replicas : Advances(q)
    <3>1. /\ {"describe", "create", "ttl", "wait", "update"} \subseteq Ensuring
          /\ Request("describe") < Request("create") /\ Request("describe") < Request("wait")
          /\ Request("create") < Request("wait") /\ Request("ttl") < Request("update")
      BY RankFacts DEF Ensuring
    <3>2. CASE Describe(r)
      BY <3>1, <3>2, ActiveAdvances, RequestAdvances DEF Describe
    <3>3. CASE Create(r)
      BY <3>1, <3>3, RequestAdvances DEF Create
    <3>4. CASE DescribeTtl(r)
      BY <3>1, <3>4, TableAdvances, RequestAdvances DEF DescribeTtl
    <3> QED
      BY <2>5, <3>2, <3>3, <3>4
  <2>6. ASSUME NEW r \in Replicas, Wait(r) \/ UpdateTtl(r) \/ RequestFails(r)
        PROVE  \A q \in Replicas : Advances(q)
    <3>1. /\ pc[r] \in Ensuring
          /\ \/ pc[r] = "wait" /\ TableActive(r)
             \/ NextAttempt(r) \/ NextTable(r) \/ Goto(r, "redis", 1)
      BY <2>6 DEF Wait, UpdateTtl, RequestFails, BootstrapFailed, Continue, Ensuring
    <3> QED
      BY <3>1, ActiveAdvances, AttemptAdvances, TableAdvances, LoopLeftAdvances
  <2>7. ASSUME UNCHANGED <<pc, at, attempt>>
        PROVE  \A q \in Replicas : Advances(q)
    BY <2>7 DEF Advances, Position
  <2>8. ASSUME NEW r \in Replicas, NEW s \in Signals, SignalHandled(r, s)
        PROVE  \A q \in Replicas : Advances(q)
    BY <2>7, <2>8 DEF SignalHandled
  <2>9. ASSUME NEW i \in 1..Tables, Activate(i)
        PROVE  \A q \in Replicas : Advances(q)
    BY <2>7, <2>9 DEF Activate, replicaVars
  <2>10. ASSUME NEW r \in Replicas, Listen(r)
         PROVE  \A q \in Replicas : Advances(q)
    BY <2>2, <2>3, <2>10 DEF Listen
  <2>11. ASSUME NEW r \in Replicas, NEW s \in Signals, SignalEnds(r, s)
         PROVE  \A q \in Replicas : Advances(q)
    BY <2>2, <2>11 DEF SignalEnds
  <2>12. ASSUME NEW r \in Replicas, Kill(r)
         PROVE  \A q \in Replicas : Advances(q)
    BY <2>2, <2>12 DEF Kill
  <2> QED
    BY <2>1, <2>3, <2>4, <2>5, <2>6, <2>8, <2>9, <2>10, <2>11, <2>12 DEF Next, DynamoInit
<1> QED
  BY <1>1, Invariance, PTL DEF Spec, BootAdvances
=============================================================================
