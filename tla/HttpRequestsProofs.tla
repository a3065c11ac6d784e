------------------------- MODULE HttpRequestsProofs -------------------------
(* Proofs of the safety properties of HttpRequests, for any finite set of    *)
(* requests and any inputs.                                                  *)
EXTENDS HttpRequests, FiniteSetTheorems, TLAPS

-----------------------------------------------------------------------------
(* The inductive invariant.                                                 *)

\* A status is there once answered, and not before.
StatusWhenAnswered == \A r \in Reqs : phase[r] # "answered" => status[r] = 0

\* Handlers run for their own routes.
PhaseOfRoute ==
  \A r \in Reqs :
    /\ phase[r] \in {"get", "ttl"} => req[r].route = "get"
    /\ phase[r] = "set" => req[r].route = "set"
    /\ phase[r] = "ping" => req[r].route = "ready"

\* The listeners' flag and the events agree; finish comes after the answer.
ReleasedOnEvent ==
  \A r \in Reqs :
    /\ released[r] <=> events[r] # {}
    /\ ~Tracked(r) => events[r] = {}

\* A running GET has seen the entry there is, and the value it read.
ReadSeen ==
  \A r \in Reqs : Reading(r) =>
    /\ entry \in seen[r]
    /\ phase[r] = "ttl" =>
         answer[r] # None /\ \E e \in seen[r] \ {None} : e.value = answer[r].value

\* NxExclusive, with the winner's entry still there.
WinnerHolds == NxExclusive /\ (winners # {} => entry # None)

IInv ==
  /\ TypeOK /\ StatusWhenAnswered /\ PhaseOfRoute
  /\ ReleasedOnEvent /\ GaugeExact /\ ObservedOnce
  /\ ReadSeen /\ EntryPlausible /\ WritesExpire /\ WinnerHolds
  /\ ReadyTruthful /\ OneKey

-----------------------------------------------------------------------------
(* Types and routes.                                                        *)

\* Every request has one of the route labels.
LEMMA LabelTypes == \A route : ResolveRouteLabel(route) \in Labels
<1> TAKE route
<1>1. DOMAIN Template = {"hello", "get", "set"}
  BY DEF Template
<1>2. Template["hello"] = "/" /\ Template["get"] = "/redis" /\ Template["set"] = "/redis"
  BY DEF Template
<1> QED
  BY <1>1, <1>2 DEF ResolveRouteLabel, Labels

LEMMA WriteTypes ==
  ASSUME TypeOK, NEW r \in Reqs, req[r] # None, Write(r)
  PROVE  /\ entry' \in Entry \cup {None}
         /\ winners' \subseteq Reqs
         /\ seen' \in [Reqs -> SUBSET (Entry \cup {None})]
<1>1. req[r].expiration \in {"absent", "null", "given"}
  BY HttpAssumption DEF TypeOK, Request
<1>2. ToSetOptions(req[r]).expiration \in Lives
  BY DEF ToSetOptions, Lives
<1>3. entry' \in Entry \cup {None}
  BY <1>2 DEF Write, Entry, TypeOK
<1>4. Watch(entry') /\ winners' \subseteq Reqs
  BY DEF Write, TypeOK
<1> QED
  BY <1>3, <1>4 DEF Watch, TypeOK

\* A request that arrived moves to another phase or is answered.
LEMMA MoveTypes ==
  ASSUME TypeOK, NEW r \in Reqs, phase[r] # "new", UNCHANGED req,
         \/ \E code \in Statuses : Answer(r, code)
         \/ \E to \in Phases \ {"new"} : Advance(r, to)
  PROVE  /\ phase' \in [Reqs -> Phases]
         /\ status' \in [Reqs -> Statuses \cup {0}]
         /\ \A q \in Reqs : (req'[q] = None <=> phase'[q] = "new")
<1>1. CASE \E code \in Statuses : Answer(r, code)
  <2>1. "answered" \in Phases \ {"new"}
    BY DEF Phases
  <2> QED
    BY <1>1, <2>1 DEF Answer, TypeOK
<1>2. CASE \E to \in Phases \ {"new"} : Advance(r, to)
  BY <1>2 DEF Advance, TypeOK
<1> QED
  BY <1>1, <1>2

LEMMA TypeOKKeeps ==
  ASSUME IInv, [Next]_vars
  PROVE  TypeOK'
<1> USE DEF IInv
<1>1. ASSUME NEW r \in Reqs, NEW q \in Inputs, Arrive(r, q)
      PROVE  TypeOK'
  <2>1. q # None
    BY HttpAssumption
  <2> QED
    BY <1>1, <2>1 DEF Arrive, Advance, TypeOK, Phases
<1>2. ASSUME NEW r \in Reqs, Authenticate(r)
      PROVE  TypeOK'
  <2>1. config' \in PemKeys \cup {None}
    BY <1>2 DEF Authenticate, GetConfig, GetJwtConfig, TypeOK
  <2>2. \/ \E code \in Statuses : Answer(r, code)
        \/ \E to \in Phases \ {"new"} : Advance(r, to)
    BY <1>2 DEF Authenticate, Statuses, Phases
  <2> QED
    BY <1>2, <2>1, <2>2, MoveTypes DEF Authenticate, TypeOK, metricVars, redisVars
<1>3. ASSUME NEW r \in Reqs, Handle(r)
      PROVE  TypeOK'
  <2>1. \/ \E code \in Statuses : Answer(r, code)
        \/ \E to \in Phases \ {"new"} : Advance(r, to)
    BY <1>3 DEF Handle, Statuses, Phases
  <2> QED
    BY <1>3, <2>1, MoveTypes DEF Handle, TypeOK, metricVars, redisVars
<1>4. ASSUME NEW r \in Reqs, RedisGet(r)
      PROVE  TypeOK'
  <2>1. answer' \in [Reqs -> Entry \cup {None}]
    BY <1>4 DEF RedisGet, TypeOK
  <2>2. \/ \E code \in Statuses : Answer(r, code)
        \/ \E to \in Phases \ {"new"} : Advance(r, to)
    BY <1>4 DEF RedisGet, Statuses, Phases
  <2> QED
    BY <1>4, <2>1, <2>2, MoveTypes DEF RedisGet, TypeOK, metricVars, redisVars
<1>5. ASSUME NEW r \in Reqs, RedisTtl(r)
      PROVE  TypeOK'
  <2>1. Reading(r)
    BY <1>5 DEF RedisTtl, PhaseOfRoute, Reading
  <2>2. answer[r] \in Entry
    BY <1>5, <2>1 DEF RedisTtl, ReadSeen, TypeOK
  <2>3. answer' \in [Reqs -> Entry \cup {None}]
    <3>1. CASE UNCHANGED answer
      BY <3>1 DEF TypeOK
    <3>2. CASE entry # None /\ answer' = [answer EXCEPT ![r].life = entry.life]
      <4>1. [answer[r] EXCEPT !.life = entry.life] \in Entry
        BY <2>2, <3>2 DEF TypeOK, Entry
      <4> QED
        BY <3>2, <4>1 DEF TypeOK
    <3> QED
      BY <1>5, <3>1, <3>2 DEF RedisTtl
  <2>4. \E code \in Statuses : Answer(r, code)
    BY <1>5 DEF RedisTtl, Statuses
  <2> QED
    BY <1>5, <2>3, <2>4, MoveTypes DEF RedisTtl, TypeOK, metricVars, redisVars
<1>6. ASSUME NEW r \in Reqs, RedisSet(r)
      PROVE  TypeOK'
  <2>1. req[r] # None
    BY <1>6 DEF RedisSet, TypeOK
  <2>2. \E code \in Statuses : Answer(r, code)
    BY <1>6 DEF RedisSet, Statuses
  <2> QED
    BY <1>6, <2>1, <2>2, WriteTypes, MoveTypes DEF RedisSet, TypeOK, metricVars
<1>7. ASSUME NEW r \in Reqs, RedisFails(r)
      PROVE  TypeOK'
  <2>1. req[r] # None
    BY <1>7 DEF RedisFails, TypeOK
  <2>2. /\ entry' \in Entry \cup {None}
        /\ winners' \subseteq Reqs
        /\ seen' \in [Reqs -> SUBSET (Entry \cup {None})]
    BY <1>7, <2>1, WriteTypes DEF RedisFails, redisVars, TypeOK
  <2>3. \E code \in Statuses : Answer(r, code)
    BY <1>7 DEF RedisFails, Statuses
  <2> QED
    BY <1>7, <2>2, <2>3, MoveTypes DEF RedisFails, TypeOK, metricVars
<1>8. ASSUME NEW r \in Reqs, NEW d \in Deps, NEW o \in {"up", "down"}, PingSettles(r, d, o)
      PROVE  TypeOK'
  <2>1. ping' \in [Reqs -> [Deps -> {"pending", "up", "down"}]]
    <3>1. [ping[r] EXCEPT ![d] = o] \in [Deps -> {"pending", "up", "down"}]
      BY DEF TypeOK
    <3> QED
      BY <1>8, <3>1 DEF PingSettles, TypeOK
  <2>2. UNCHANGED <<phase, status>> \/ \E code \in Statuses : Answer(r, code)
    BY <1>8 DEF PingSettles, Statuses
  <2> QED
    BY <1>8, <2>1, <2>2, MoveTypes DEF PingSettles, TypeOK, metricVars, redisVars
<1>9. ASSUME NEW r \in Reqs, Finish(r)
      PROVE  TypeOK'
  <2>1. total' \in [Labels -> Nat]
    BY <1>9, LabelTypes DEF Finish, ObserveHttp, TypeOK
  <2>2. gauge' \in Int /\ released' \in [Reqs -> BOOLEAN]
    BY <1>9 DEF Finish, Release, TypeOK
  <2> QED
    BY <1>9, <2>1, <2>2 DEF Finish, TypeOK, redisVars
<1>10. ASSUME NEW r \in Reqs, Close(r)
       PROVE  TypeOK'
  BY <1>10 DEF Close, Release, TypeOK, redisVars
<1>11. ASSUME NEW k \in PemKeys \cup {None}, ReplaceKey(k)
       PROVE  TypeOK'
  BY <1>11 DEF ReplaceKey, TypeOK, metricVars, redisVars
<1>12. CASE Expire
  BY <1>12 DEF Expire, Watch, TypeOK, metricVars
<1>13. CASE UNCHANGED vars
  BY <1>13 DEF vars, TypeOK
<1> QED
  BY <1>1, <1>2, <1>3, <1>4, <1>5, <1>6, <1>7, <1>8, <1>9, <1>10, <1>11, <1>12, <1>13 DEF Next

-----------------------------------------------------------------------------
(* The gauge and the counter.                                               *)

\* The tracked requests that are open, and those that were observed.
Open == {r \in Reqs : Tracked(r) /\ events[r] = {}}

Observed(l) == {r \in Reqs :
  Tracked(r) /\ "finish" \in events[r] /\ ResolveRouteLabel(req[r].route) = l}

\* Whatever the header, parseByteLength makes a size observeHttp takes.
LEMMA LengthIsSize ==
  ASSUME NEW value
  PROVE  ParseByteLength(value) \in Nat
  BY DEF ParseByteLength

LEMMA MetricsKeep ==
  ASSUME IInv, [Next]_vars
  PROVE  ReleasedOnEvent' /\ GaugeExact' /\ ObservedOnce'
<1> USE DEF IInv
<1>0. /\ IsFiniteSet(Open) /\ gauge = Cardinality(Open)
      /\ \A l \in Labels : IsFiniteSet(Observed(l)) /\ total[l] = Cardinality(Observed(l))
  BY HttpAssumption, FS_Subset DEF Open, Observed, GaugeExact, ObservedOnce
<1>1. SUFFICES /\ ReleasedOnEvent'
               /\ gauge' = Cardinality(Open')
               /\ \A l \in Labels : total'[l] = Cardinality(Observed(l)')
  BY DEF GaugeExact, ObservedOnce, Open, Observed
<1>2. CASE UNCHANGED <<req, metricVars>>
  BY <1>0, <1>2 DEF metricVars, ReleasedOnEvent, Tracked, Open, Observed
<1>3. ASSUME NEW r \in Reqs, NEW q \in Inputs, Arrive(r, q)
      PROVE  /\ ReleasedOnEvent'
             /\ gauge' = Cardinality(Open')
             /\ \A l \in Labels : total'[l] = Cardinality(Observed(l)')
  <2>1. req[r] = None /\ q # None /\ ~Tracked(r)
    BY <1>3, HttpAssumption DEF Arrive, TypeOK, Tracked
  <2>2. events[r] = {} /\ events' = events /\ released' = released
    BY <1>3, <2>1 DEF Arrive, ReleasedOnEvent
  <2>3. /\ \A p \in Reqs \ {r} : Tracked(p)' = Tracked(p) /\ req'[p] = req[p]
        /\ Tracked(r)' = ~IsHealthRequest(q.route)
    BY <1>3, <2>1 DEF Arrive, TypeOK, Tracked
  <2>4. ReleasedOnEvent'
    BY <2>2, <2>3 DEF ReleasedOnEvent
  <2>5. r \notin Open /\ Open' = IF IsHealthRequest(q.route) THEN Open ELSE Open \cup {r}
    BY <2>1, <2>2, <2>3 DEF Open
  <2>6. gauge' = Cardinality(Open')
    BY <1>0, <1>3, <2>5, FS_AddElement DEF Arrive
  <2>7. \A l \in Labels : Observed(l)' = Observed(l)
    BY <2>1, <2>2, <2>3 DEF Observed
  <2> QED
    BY <1>0, <1>3, <2>4, <2>6, <2>7 DEF Arrive
<1>4. ASSUME NEW r \in Reqs, Release(r), Tracked(r), UNCHANGED req,
             NEW e \in {"finish", "close"}, events' = [events EXCEPT ![r] = @ \cup {e}]
      PROVE  ReleasedOnEvent' /\ gauge' = Cardinality(Open')
  <2>1. \A p \in Reqs : Tracked(p)' = Tracked(p)
    BY <1>4 DEF Tracked
  <2>2. /\ events'[r] # {} /\ released'[r]
        /\ \A p \in Reqs \ {r} : events'[p] = events[p] /\ released'[p] = released[p]
    BY <1>4 DEF Release, TypeOK
  <2>3. ReleasedOnEvent'
    BY <1>4, <2>1, <2>2 DEF ReleasedOnEvent
  <2>4. Open' = Open \ {r}
    BY <2>1, <2>2 DEF Open
  <2>5. r \in Open <=> ~released[r]
    BY <1>4 DEF Open, ReleasedOnEvent
  <2> QED
    BY <1>0, <1>4, <2>3, <2>4, <2>5, FS_RemoveElement DEF Release
<1>5. ASSUME NEW r \in Reqs, Close(r)
      PROVE  /\ ReleasedOnEvent'
             /\ gauge' = Cardinality(Open')
             /\ \A l \in Labels : total'[l] = Cardinality(Observed(l)')
  <2>1. \A l \in Labels : Observed(l)' = Observed(l)
    BY <1>5 DEF Close, Observed, Tracked, TypeOK
  <2> QED
    BY <1>0, <1>4, <1>5, <2>1 DEF Close
<1>6. ASSUME NEW r \in Reqs, Finish(r)
      PROVE  /\ ReleasedOnEvent'
             /\ gauge' = Cardinality(Open')
             /\ \A l \in Labels : total'[l] = Cardinality(Observed(l)')
  <2> DEFINE label == ResolveRouteLabel(req[r].route)
  <2>1. total' = [total EXCEPT ![label] = @ + 1] /\ label \in Labels
    BY <1>6, LengthIsSize, LabelTypes DEF Finish, ObserveHttp, Tracked
  <2>2. \A l \in Labels : Observed(l)' = IF l = label THEN Observed(l) \cup {r} ELSE Observed(l)
    BY <1>6 DEF Finish, Observed, Tracked, TypeOK
  <2>3. \A l \in Labels : r \notin Observed(l)
    BY <1>6 DEF Finish, Observed
  <2>4. \A l \in Labels : total'[l] = Cardinality(Observed(l)')
    <3> TAKE l \in Labels
    <3>1. CASE l = label
      <4>1. total'[l] = total[l] + 1
        BY <2>1, <3>1 DEF TypeOK
      <4>2. Cardinality(Observed(l) \cup {r}) = Cardinality(Observed(l)) + 1
        BY <1>0, <2>3, FS_AddElement
      <4> QED
        BY <1>0, <2>2, <3>1, <4>1, <4>2
    <3>2. CASE l # label
      BY <1>0, <2>1, <2>2, <3>2 DEF TypeOK
    <3> QED
      BY <3>1, <3>2
  <2> QED
    BY <1>4, <1>6, <2>4 DEF Finish
<1> QED
  BY <1>2, <1>3, <1>5, <1>6 DEF Next, vars, metricVars, Authenticate, Handle, RedisGet,
     RedisTtl, RedisSet, RedisFails, PingSettles, ReplaceKey, Expire

-----------------------------------------------------------------------------
(* GET and POST /redis.                                                     *)

\* A SET either changes nothing or leaves an entry of r with a lifetime, and
\* an NX writer finds none.
LEMMA WriteCases ==
  ASSUME TypeOK, NEW r \in Reqs, Write(r)
  PROVE  /\ Watch(entry')
         /\ \/ entry' = entry /\ winners' = winners
            \/ /\ entry' \in Entry /\ entry'.life # "persistent"
               /\ winners' = winners \/ (entry = None /\ winners' = winners \cup {r})
<1>1. ToSetOptions(req[r]).expiration \in {"default", "given"}
  BY DEF ToSetOptions
<1>2. ToSetOptions(req[r]).condition = req[r].condition
  BY DEF ToSetOptions
<1> QED
  BY <1>1, <1>2 DEF Write, Entry, Lives

LEMMA PhaseOfRouteKeeps ==
  ASSUME IInv, [Next]_vars
  PROVE  PhaseOfRoute'
<1> USE DEF IInv
<1>1. ASSUME NEW r \in Reqs, NEW q \in Inputs, Arrive(r, q)
      PROVE  PhaseOfRoute'
  BY <1>1 DEF Arrive, Advance, TypeOK, PhaseOfRoute
<1>2. ASSUME NEW r \in Reqs, UNCHANGED req,
             \/ \E code \in Statuses : Answer(r, code)
             \/ \E to \in {"handler", "get", "set", "ping", "ttl"} : Advance(r, to),
             phase'[r] \in {"get", "ttl"} => req[r].route = "get",
             phase'[r] = "set" => req[r].route = "set",
             phase'[r] = "ping" => req[r].route = "ready"
      PROVE  PhaseOfRoute'
  BY <1>2 DEF Answer, Advance, TypeOK, PhaseOfRoute
<1>3. ASSUME NEW r \in Reqs, Authenticate(r)
      PROVE  PhaseOfRoute'
  <2>1. \/ \E code \in Statuses : Answer(r, code)
        \/ Advance(r, "handler")
    BY <1>3 DEF Authenticate, Statuses
  <2>2. phase'[r] \in {"answered", "handler"}
    BY <2>1 DEF Answer, Advance, TypeOK
  <2> QED
    BY <1>2, <1>3, <2>1, <2>2 DEF Authenticate
<1>4. ASSUME NEW r \in Reqs, Handle(r)
      PROVE  PhaseOfRoute'
  BY <1>4 DEF Handle, Answer, Advance, TypeOK, PhaseOfRoute
<1>5. ASSUME NEW r \in Reqs, RedisGet(r)
      PROVE  PhaseOfRoute'
  BY <1>5 DEF RedisGet, Answer, Advance, TypeOK, PhaseOfRoute
<1>6. ASSUME NEW r \in Reqs, UNCHANGED req, \E code \in Statuses : Answer(r, code)
      PROVE  PhaseOfRoute'
  BY <1>6 DEF Answer, TypeOK, PhaseOfRoute
<1>7. ASSUME NEW r \in Reqs,
             \/ RedisTtl(r) \/ RedisSet(r) \/ RedisFails(r)
             \/ \E d \in Deps, o \in {"up", "down"} : PingSettles(r, d, o)
      PROVE  PhaseOfRoute'
  <2>1. /\ UNCHANGED req
        /\ UNCHANGED phase \/ \E code \in Statuses : Answer(r, code)
    BY <1>7 DEF RedisTtl, RedisSet, RedisFails, PingSettles, Statuses
  <2>2. CASE UNCHANGED phase
    BY <2>1, <2>2 DEF PhaseOfRoute
  <2> QED
    BY <1>6, <2>1, <2>2
<1>8. CASE UNCHANGED <<req, phase>>
  BY <1>8 DEF PhaseOfRoute
<1> QED
  BY <1>1, <1>3, <1>4, <1>5, <1>7, <1>8 DEF Next, vars, Finish, Close, ReplaceKey, Expire

LEMMA WritesKeep ==
  ASSUME IInv, [Next]_vars
  PROVE  WritesExpire' /\ WinnerHolds'
<1> USE DEF IInv
<1>1. CASE UNCHANGED <<entry, winners>>
  BY <1>1 DEF WritesExpire, WinnerHolds, NxExclusive
<1>2. ASSUME NEW r \in Reqs, Write(r)
      PROVE  WritesExpire' /\ WinnerHolds'
  <2>1. WritesExpire'
    BY <1>2, WriteCases DEF WritesExpire
  <2>2. winners' # {} => entry' # None
    BY <1>2, WriteCases, HttpAssumption DEF WinnerHolds
  <2>3. NxExclusive'
    <3>1. CASE winners' = winners
      BY <3>1 DEF WinnerHolds, NxExclusive
    <3>2. CASE entry = None /\ winners' = winners \cup {r}
      <4>1. winners' = {r}
        BY <3>2 DEF WinnerHolds
      <4>2. Cardinality({r}) = 1
        BY FS_Singleton
      <4> QED
        BY <4>1, <4>2 DEF NxExclusive
    <3> QED
      BY <1>2, <3>1, <3>2, WriteCases
  <2> QED
    BY <2>1, <2>2, <2>3 DEF WinnerHolds
<1>3. CASE Expire
  BY <1>3, FS_EmptySet DEF Expire, WritesExpire, WinnerHolds, NxExclusive
<1> QED
  BY <1>1, <1>2, <1>3 DEF Next, vars, redisVars, Arrive, Authenticate, Handle, RedisGet,
     RedisTtl, RedisSet, RedisFails, PingSettles, ReplaceKey, Finish, Close

\* The facts about one GET: what it has seen while it runs, what it answers.
SeenBy(r) ==
  Reading(r) =>
    /\ entry \in seen[r]
    /\ phase[r] = "ttl" =>
         answer[r] # None /\ \E e \in seen[r] \ {None} : e.value = answer[r].value

Plausible(r) ==
  phase[r] = "answered" /\ req[r].route = "get" =>
    /\ status[r] = 200 =>
         /\ \E e \in seen[r] \ {None} : e.value = answer[r].value
         /\ \E e \in seen[r] \ {None} : e.life = answer[r].life
    /\ status[r] = 404 => None \in seen[r]

\* A GET that a step leaves alone keeps them if it is shown the new entry.
LEMMA OtherReadKeeps ==
  ASSUME NEW r \in Reqs, SeenBy(r), Plausible(r),
         req'[r] = req[r], phase'[r] = phase[r], status'[r] = status[r],
         answer'[r] = answer[r],
         \/ entry' = entry /\ seen'[r] = seen[r]
         \/ seen'[r] = IF Reading(r) THEN seen[r] \cup {entry'} ELSE seen[r]
  PROVE  SeenBy(r)' /\ Plausible(r)'
<1>1. Reading(r)' = Reading(r)
  BY DEF Reading
<1>2. seen[r] \subseteq seen'[r]
  OBVIOUS
<1>3. SeenBy(r)'
  BY <1>1, <1>2 DEF SeenBy
<1>4. Plausible(r)'
  BY <1>2 DEF Plausible
<1> QED
  BY <1>3, <1>4

LEMMA ReadsKeep ==
  ASSUME IInv, [Next]_vars
  PROVE  ReadSeen' /\ EntryPlausible'
<1> USE DEF IInv
<1>0. \A r \in Reqs : SeenBy(r) /\ Plausible(r)
  BY DEF SeenBy, Plausible, ReadSeen, EntryPlausible
<1>1. SUFFICES \A r \in Reqs : SeenBy(r)' /\ Plausible(r)'
  BY DEF SeenBy, Plausible, ReadSeen, EntryPlausible
<1>2. ASSUME NEW r \in Reqs, UNCHANGED <<req, entry, seen>>,
             \A p \in Reqs \ {r} : /\ phase'[p] = phase[p] /\ status'[p] = status[p]
                                  /\ answer'[p] = answer[p],
             SeenBy(r)' /\ Plausible(r)'
      PROVE  \A p \in Reqs : SeenBy(p)' /\ Plausible(p)'
  BY <1>0, <1>2, OtherReadKeeps
<1>3. ASSUME NEW r \in Reqs, NEW q \in Inputs, Arrive(r, q)
      PROVE  \A p \in Reqs : SeenBy(p)' /\ Plausible(p)'
  <2>1. SeenBy(r)' /\ Plausible(r)'
    BY <1>3 DEF Arrive, Advance, TypeOK, SeenBy, Plausible, Reading
  <2>2. \A p \in Reqs \ {r} : SeenBy(p)' /\ Plausible(p)'
    <3> TAKE p \in Reqs \ {r}
    <3>1. /\ req'[p] = req[p] /\ phase'[p] = phase[p] /\ status'[p] = status[p]
          /\ answer'[p] = answer[p] /\ entry' = entry /\ seen'[p] = seen[p]
      BY <1>3 DEF Arrive, Advance, TypeOK
    <3> QED
      BY <1>0, <3>1, OtherReadKeeps
  <2> QED
    BY <2>1, <2>2
<1>4. ASSUME NEW r \in Reqs, Authenticate(r)
      PROVE  \A p \in Reqs : SeenBy(p)' /\ Plausible(p)'
  <2>1. /\ UNCHANGED <<req, entry, seen, answer>>
        /\ \A p \in Reqs \ {r} : phase'[p] = phase[p] /\ status'[p] = status[p]
    BY <1>4 DEF Authenticate, Answer, Advance, TypeOK, redisVars
  <2>2. \/ phase'[r] = "handler"
        \/ phase'[r] = "answered" /\ status'[r] = 401
        \/ phase'[r] = "answered" /\ req[r].route = "unknown"
    BY <1>4 DEF Authenticate, Answer, Advance, TypeOK
  <2>3. SeenBy(r)' /\ Plausible(r)'
    BY <1>0, <1>4, <2>1, <2>2 DEF Authenticate, SeenBy, Plausible, Reading
  <2> QED
    BY <1>2, <2>1, <2>3
<1>5. ASSUME NEW r \in Reqs, Handle(r)
      PROVE  \A p \in Reqs : SeenBy(p)' /\ Plausible(p)'
  <2>1. /\ UNCHANGED <<req, entry, seen, answer>>
        /\ \A p \in Reqs \ {r} : phase'[p] = phase[p] /\ status'[p] = status[p]
    BY <1>5 DEF Handle, Answer, Advance, TypeOK, redisVars
  <2>2. \/ phase'[r] \in {"get", "set", "ping"}
        \/ phase'[r] = "answered" /\ status'[r] = 400
        \/ phase'[r] = "answered" /\ req[r].route # "get"
    BY <1>5 DEF Handle, Answer, Advance, TypeOK
  <2>3. SeenBy(r)' /\ Plausible(r)'
    BY <1>0, <1>5, <2>1, <2>2 DEF Handle, SeenBy, Plausible, Reading
  <2> QED
    BY <1>2, <2>1, <2>3
<1>6. ASSUME NEW r \in Reqs, RedisGet(r)
      PROVE  \A p \in Reqs : SeenBy(p)' /\ Plausible(p)'
  <2>1. /\ UNCHANGED <<req, entry, seen>>
        /\ \A p \in Reqs \ {r} : /\ phase'[p] = phase[p] /\ status'[p] = status[p]
                                 /\ answer'[p] = answer[p]
    BY <1>6 DEF RedisGet, Answer, Advance, TypeOK, redisVars
  <2>2. \/ entry = None /\ phase'[r] = "answered" /\ status'[r] = 404
        \/ entry # None /\ phase'[r] = "ttl" /\ answer'[r] = entry
    BY <1>6 DEF RedisGet, Answer, Advance, TypeOK
  <2>3. Reading(r)
    BY <1>6 DEF RedisGet, PhaseOfRoute, Reading
  <2>4. SeenBy(r)' /\ Plausible(r)'
    BY <1>0, <2>1, <2>2, <2>3 DEF SeenBy, Plausible, Reading
  <2> QED
    BY <1>2, <2>1, <2>4
<1>7. ASSUME NEW r \in Reqs, RedisTtl(r)
      PROVE  \A p \in Reqs : SeenBy(p)' /\ Plausible(p)'
  <2>1. /\ UNCHANGED <<req, entry, seen>>
        /\ \A p \in Reqs \ {r} : /\ phase'[p] = phase[p] /\ status'[p] = status[p]
                                 /\ answer'[p] = answer[p]
    BY <1>7 DEF RedisTtl, Answer, TypeOK, redisVars
  <2>2. Reading(r) /\ phase[r] = "ttl"
    BY <1>7 DEF RedisTtl, PhaseOfRoute, Reading
  <2>3. answer[r] \in Entry
    BY <2>2 DEF ReadSeen, TypeOK
  <2>4. /\ phase'[r] = "answered"
        /\ \/ entry = None /\ status'[r] = 404
           \/ /\ entry # None /\ status'[r] = 200
              /\ answer'[r].value = answer[r].value /\ answer'[r].life = entry.life
    BY <1>7, <2>3 DEF RedisTtl, Answer, TypeOK, Entry
  <2>5. SeenBy(r)' /\ Plausible(r)'
    BY <1>0, <2>1, <2>2, <2>4 DEF SeenBy, Plausible, Reading
  <2> QED
    BY <1>2, <2>1, <2>5
<1>8. ASSUME NEW r \in Reqs, RedisSet(r) \/ RedisFails(r)
      PROVE  \A p \in Reqs : SeenBy(p)' /\ Plausible(p)'
  <2>1. /\ UNCHANGED <<req, answer>>
        /\ \A p \in Reqs \ {r} : phase'[p] = phase[p] /\ status'[p] = status[p]
        /\ phase'[r] = "answered"
        /\ status'[r] = 500 \/ req[r].route # "get"
    BY <1>8 DEF RedisSet, RedisFails, Answer, TypeOK, PhaseOfRoute
  <2>2. \/ UNCHANGED <<entry, seen>>
        \/ \A p \in Reqs : seen'[p] = IF Reading(p) THEN seen[p] \cup {entry'} ELSE seen[p]
    BY <1>8, WriteCases DEF RedisSet, RedisFails, redisVars, Watch
  <2>3. SeenBy(r)' /\ Plausible(r)'
    BY <1>8, <2>1 DEF RedisSet, SeenBy, Plausible, Reading
  <2>4. \A p \in Reqs \ {r} : SeenBy(p)' /\ Plausible(p)'
    BY <1>0, <2>1, <2>2, OtherReadKeeps
  <2> QED
    BY <2>3, <2>4
<1>9. ASSUME NEW r \in Reqs, NEW d \in Deps, NEW o \in {"up", "down"}, PingSettles(r, d, o)
      PROVE  \A p \in Reqs : SeenBy(p)' /\ Plausible(p)'
  <2>1. /\ UNCHANGED <<req, entry, seen, answer>>
        /\ \A p \in Reqs \ {r} : phase'[p] = phase[p] /\ status'[p] = status[p]
    BY <1>9 DEF PingSettles, Answer, TypeOK, redisVars
  <2>2. req[r].route # "get"
    BY <1>9 DEF PingSettles, PhaseOfRoute
  <2>3. SeenBy(r)' /\ Plausible(r)'
    BY <2>1, <2>2 DEF SeenBy, Plausible, Reading
  <2> QED
    BY <1>2, <2>1, <2>3
<1>10. CASE Expire
  BY <1>0, <1>10, OtherReadKeeps DEF Expire, Watch
<1>11. CASE UNCHANGED <<req, phase, status, answer, entry, seen>>
  BY <1>0, <1>11, OtherReadKeeps
<1> QED
  BY <1>3, <1>4, <1>5, <1>6, <1>7, <1>8, <1>9, <1>10, <1>11
     DEF Next, vars, redisVars, ReplaceKey, Finish, Close

-----------------------------------------------------------------------------
(* Readiness and authentication.                                            *)

LEMMA ReadyKeeps ==
  ASSUME IInv, [Next]_vars
  PROVE  ReadyTruthful'
<1> USE DEF IInv
<1>1. ASSUME NEW r \in Reqs, UNCHANGED <<req, ping>>,
             \A p \in Reqs \ {r} : phase'[p] = phase[p] /\ status'[p] = status[p],
             phase'[r] = "answered" => req[r].route # "ready"
      PROVE  ReadyTruthful'
  BY <1>1 DEF ReadyTruthful
<1>2. ASSUME NEW r \in Reqs, NEW q \in Inputs, Arrive(r, q)
      PROVE  ReadyTruthful'
  BY <1>2 DEF Arrive, Advance, TypeOK, ReadyTruthful
<1>3. ASSUME NEW r \in Reqs, Authenticate(r)
      PROVE  ReadyTruthful'
  <2>1. phase'[r] = "answered" => req[r].route # "ready"
    BY <1>3 DEF Authenticate, IsPublic, Answer, Advance, TypeOK
  <2>2. \A p \in Reqs \ {r} : phase'[p] = phase[p] /\ status'[p] = status[p]
    BY <1>3 DEF Authenticate, Answer, Advance, TypeOK
  <2> QED
    BY <1>1, <1>3, <2>1, <2>2 DEF Authenticate
<1>4. ASSUME NEW r \in Reqs, Handle(r)
      PROVE  ReadyTruthful'
  <2>1. phase'[r] = "answered" => req[r].route # "ready"
    BY <1>4 DEF Handle, Answer, Advance, TypeOK
  <2>2. \A p \in Reqs \ {r} : phase'[p] = phase[p] /\ status'[p] = status[p]
    BY <1>4 DEF Handle, Answer, Advance, TypeOK
  <2> QED
    BY <1>1, <1>4, <2>1, <2>2 DEF Handle
<1>5. ASSUME NEW r \in Reqs, RedisGet(r) \/ RedisTtl(r) \/ RedisSet(r) \/ RedisFails(r)
      PROVE  ReadyTruthful'
  <2>1. req[r].route # "ready" /\ UNCHANGED <<req, ping>>
    BY <1>5 DEF RedisGet, RedisTtl, RedisSet, RedisFails, PhaseOfRoute
  <2>2. \A p \in Reqs \ {r} : phase'[p] = phase[p] /\ status'[p] = status[p]
    BY <1>5 DEF RedisGet, RedisTtl, RedisSet, RedisFails, Answer, Advance, TypeOK
  <2> QED
    BY <1>1, <2>1, <2>2
<1>6. ASSUME NEW r \in Reqs, NEW d \in Deps, NEW o \in {"up", "down"}, PingSettles(r, d, o)
      PROVE  ReadyTruthful'
  <2>1. /\ UNCHANGED req
        /\ \A p \in Reqs \ {r} : /\ phase'[p] = phase[p] /\ status'[p] = status[p]
                                 /\ ping'[p] = ping[p]
    BY <1>6 DEF PingSettles, Answer, TypeOK
  <2>2. CASE \E e \in Deps : ping'[r][e] = "pending"
    <3>1. phase'[r] = "ping"
      BY <1>6, <2>2 DEF PingSettles
    <3> QED
      BY <2>1, <3>1 DEF ReadyTruthful
  <2>3. CASE \A e \in Deps : ping'[r][e] # "pending"
    <3>1. status'[r] = IF \A e \in Deps : ping'[r][e] = "up" THEN 200 ELSE 503
      BY <1>6, <2>3 DEF PingSettles, Answer, TypeOK
    <3> QED
      BY <2>1, <2>3, <3>1 DEF ReadyTruthful
  <2> QED
    BY <2>2, <2>3
<1>7. CASE UNCHANGED <<req, phase, status, ping>>
  BY <1>7 DEF ReadyTruthful
<1> QED
  BY <1>2, <1>3, <1>4, <1>5, <1>6, <1>7 DEF Next, vars, ReplaceKey, Finish, Close, Expire

LEMMA OneKeyKeeps ==
  ASSUME IInv, [Next]_vars
  PROVE  OneKey'
<1> USE DEF IInv
<1>1. ASSUME NEW r \in Reqs, UNCHANGED <<req, config>>, phase[r] \notin {"new", "guard"},
             \A p \in Reqs \ {r} : phase'[p] = phase[p] /\ status'[p] = status[p],
             status[r] # 401
      PROVE  OneKey'
  BY <1>1 DEF OneKey, Admitted
<1>2. ASSUME NEW r \in Reqs, NEW q \in Inputs, Arrive(r, q)
      PROVE  OneKey'
  <2>1. ~Admitted(r)' /\ \A p \in Reqs \ {r} : Admitted(p)' => Admitted(p)
    BY <1>2 DEF Arrive, Advance, TypeOK, Admitted
  <2> QED
    BY <1>2, <2>1 DEF Arrive, TypeOK, OneKey
<1>3. ASSUME NEW r \in Reqs, Authenticate(r)
      PROVE  OneKey'
  <2>1. /\ UNCHANGED req
        /\ \A p \in Reqs \ {r} : phase'[p] = phase[p] /\ status'[p] = status[p]
        /\ config # None => config' = config
    BY <1>3 DEF Authenticate, GetConfig, GetJwtConfig, Answer, Advance, TypeOK
  <2>2. Admitted(r)' => req[r].token = config' /\ config' # None
    BY <1>3 DEF Authenticate, Answer, Advance, TypeOK, Admitted
  <2> QED
    BY <2>1, <2>2 DEF OneKey, Admitted
<1>4. ASSUME NEW r \in Reqs,
             \/ Handle(r) \/ RedisGet(r) \/ RedisTtl(r) \/ RedisSet(r) \/ RedisFails(r)
             \/ \E d \in Deps, o \in {"up", "down"} : PingSettles(r, d, o)
      PROVE  OneKey'
  <2>1. /\ UNCHANGED <<req, config>> /\ phase[r] \notin {"new", "guard", "answered"}
        /\ \A p \in Reqs \ {r} : phase'[p] = phase[p] /\ status'[p] = status[p]
    BY <1>4 DEF Handle, RedisGet, RedisTtl, RedisSet, RedisFails, PingSettles, Answer,
                Advance, TypeOK
  <2>2. status[r] # 401
    BY <2>1 DEF StatusWhenAnswered
  <2> QED
    BY <1>1, <2>1, <2>2
<1>5. CASE UNCHANGED <<req, phase, status, config>>
  BY <1>5 DEF OneKey, Admitted
<1> QED
  BY <1>2, <1>3, <1>4, <1>5 DEF Next, vars, ReplaceKey, Finish, Close, Expire

LEMMA StatusKeeps ==
  ASSUME IInv, [Next]_vars
  PROVE  StatusWhenAnswered'
<1> USE DEF IInv
<1>1. ASSUME NEW r \in Reqs, phase[r] # "answered",
             UNCHANGED <<phase, status>> \/ (\E code : Answer(r, code)) \/ \E to : Advance(r, to)
      PROVE  StatusWhenAnswered'
  BY <1>1 DEF Answer, Advance, TypeOK, StatusWhenAnswered
<1>2. CASE UNCHANGED <<phase, status>>
  BY <1>2 DEF StatusWhenAnswered
<1> QED
  BY <1>1, <1>2 DEF Next, vars, Arrive, Authenticate, Handle, RedisGet, RedisTtl, RedisSet,
     RedisFails, PingSettles, ReplaceKey, Finish, Close, Expire

-----------------------------------------------------------------------------
(* Theorems.                                                                *)

LEMMA InitIInv == Init => IInv
<1> SUFFICES ASSUME Init PROVE IInv
  OBVIOUS
<1>1. TypeOK
  <2>1. phase \in [Reqs -> Phases] /\ entry \in Entry \cup {None}
    BY DEF Init, Phases, Entry, Lives
  <2> QED
    BY <2>1 DEF Init, TypeOK
<1>2. \A r \in Reqs : ~Tracked(r)
  BY DEF Init, Tracked
<1>3. GaugeExact /\ ObservedOnce
  <2>1. {r \in Reqs : Tracked(r) /\ events[r] = {}} = {}
    BY <1>2
  <2>2. \A l \in Labels : {r \in Reqs : Tracked(r) /\ "finish" \in events[r]
                                      /\ ResolveRouteLabel(req[r].route) = l} = {}
    BY <1>2
  <2> QED
    BY <2>1, <2>2, FS_EmptySet DEF Init, GaugeExact, ObservedOnce
<1>4. WritesExpire /\ WinnerHolds
  BY FS_EmptySet DEF Init, WritesExpire, WinnerHolds, NxExclusive
<1>5. /\ PhaseOfRoute /\ StatusWhenAnswered /\ ReleasedOnEvent /\ ReadSeen
      /\ EntryPlausible /\ ReadyTruthful /\ OneKey
  BY DEF Init, PhaseOfRoute, StatusWhenAnswered, ReleasedOnEvent, ReadSeen, Reading,
         EntryPlausible, ReadyTruthful, OneKey, Admitted
<1> QED
  BY <1>1, <1>3, <1>4, <1>5 DEF IInv

\* The inductive invariant holds in every state.
THEOREM Invariance == Spec => []IInv
<1>1. IInv /\ [Next]_vars => IInv'
  BY TypeOKKeeps, PhaseOfRouteKeeps, StatusKeeps, MetricsKeep, ReadsKeep, WritesKeep,
     ReadyKeeps, OneKeyKeeps DEF IInv
<1> QED
  BY InitIInv, <1>1, PTL DEF Spec

\* Request state, metrics, verifier and Redis entry keep their ranges.
THEOREM TypeCorrect == Spec => []TypeOK
<1>1. IInv => TypeOK
  BY DEF IInv
<1> QED
  BY <1>1, Invariance, PTL

\* The gauge of MetricsService is the number of tracked requests that neither
\* finished nor closed.
THEOREM GaugeIsExact == Spec => []GaugeExact
<1>1. IInv => GaugeExact
  BY DEF IInv
<1> QED
  BY <1>1, Invariance, PTL

\* observeHttp counts every tracked request that finished once, under its label.
THEOREM RequestsObserved == Spec => []ObservedOnce
<1>1. IInv => ObservedOnce
  BY DEF IInv
<1> QED
  BY <1>1, Invariance, PTL

\* getEntry answers with what the key held while it ran.
THEOREM GetEntryPlausible == Spec => []EntryPlausible
<1>1. IInv => EntryPlausible
  BY DEF IInv
<1> QED
  BY <1>1, Invariance, PTL

\* Entries written through POST /redis expire, under failing commands that
\* Redis executed all the same.
THEOREM WritesHaveLifetime == Spec => []WritesExpire
<1>1. IInv => WritesExpire
  BY DEF IInv
<1> QED
  BY <1>1, Invariance, PTL

\* Of the NX requests of POST /redis one writes until the key is absent again.
THEOREM NxWritersExclude == Spec => []NxExclusive
<1>1. IInv => NxExclusive
  BY DEF IInv, WinnerHolds
<1> QED
  BY <1>1, Invariance, PTL

\* The readiness answer agrees with both pings.
THEOREM ReadinessTruthful == Spec => []ReadyTruthful
<1>1. IInv => ReadyTruthful
  BY DEF IInv
<1> QED
  BY <1>1, Invariance, PTL

\* All requests that pass the guard carry tokens of the key read first.
THEOREM OneKeyPerProcess == Spec => []OneKey
<1>1. IInv => OneKey
  BY DEF IInv
<1> QED
  BY <1>1, Invariance, PTL
=============================================================================
