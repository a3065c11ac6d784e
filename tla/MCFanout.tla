------------------------------ MODULE MCFanout ------------------------------
(* A small instance of Fanout for TLC. *)
EXTENDS Fanout

CONSTANTS r1, r2, u1, u2, k1, k2, c1, c2, c3

\* Two sessions of one user on two replicas, either of which can write to the
\* other or to its own user, and a session of another user that shares a replica
\* and a client id with the first: it can take the id over while frames of the
\* first are on their way.
TwoUsers ==
  [c \in {c1, c2, c3} |->
     CASE c = c1 -> [user |-> u1, client |-> k1, replica |-> r1]
       [] c = c2 -> [user |-> u1, client |-> k2, replica |-> r2]
       [] c = c3 -> [user |-> u2, client |-> k1, replica |-> r1]]
=============================================================================
