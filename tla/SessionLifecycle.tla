------------------------- MODULE SessionLifecycle -------------------------
(***************************************************************************)
(* What the session registry promises its callers and its trackers: every  *)
(* connection is refused or becomes a live session, a live session ends    *)
(* once, at most one live session holds a client id, and the number of     *)
(* live sessions a user has, as announced to the trackers, moves by one at *)
(* every admission and every end.  SessionRegistry implements it.          *)
(***************************************************************************)
EXTENDS Naturals

CONSTANTS Users, Clients, Conns, Undefined

VARIABLES
  phase,      \* phase[c]: "new", "refused", "live" or "ended"
  owner,      \* owner[c]: the user and client id of c, Undefined until admitted
  announced   \* announced[u]: the session count last announced for user u

lifecycleVars == <<phase, owner, announced>>

Init ==
  /\ phase = [c \in Conns |-> "new"]
  /\ owner = [c \in Conns |-> Undefined]
  /\ announced = [u \in Users |-> 0]

Refuse(c) ==
  /\ phase[c] = "new"
  /\ phase' = [phase EXCEPT ![c] = "refused"]
  /\ UNCHANGED <<owner, announced>>

\* The client id of an admitted connection is held by no other live one.
Admit(c, u, k) ==
  /\ phase[c] = "new"
  /\ \A d \in Conns : phase[d] = "live" => owner[d][2] # k
  /\ phase' = [phase EXCEPT ![c] = "live"]
  /\ owner' = [owner EXCEPT ![c] = <<u, k>>]
  /\ announced' = [announced EXCEPT ![u] = @ + 1]

End(c) ==
  /\ phase[c] = "live"
  /\ phase' = [phase EXCEPT ![c] = "ended"]
  /\ announced' = [announced EXCEPT ![owner[c][1]] = @ - 1]
  /\ UNCHANGED owner

Next ==
  \E c \in Conns :
    \/ Refuse(c)
    \/ \E u \in Users, k \in Clients : Admit(c, u, k)
    \/ End(c)

Spec == Init /\ [][Next]_lifecycleVars
=============================================================================
