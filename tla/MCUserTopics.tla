---------------------------- MODULE MCUserTopics ----------------------------
(* Small instances of UserTopics for TLC. *)
EXTENDS UserTopics, TLC

\* Retry-loop slots are interchangeable, and so are users.  Not for liveness.
Symmetry == Permutations(Users) \cup Permutations(Ops)
=============================================================================
