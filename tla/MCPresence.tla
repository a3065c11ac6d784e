----------------------------- MODULE MCPresence -----------------------------
(* Small instances of Presence for TLC. *)
EXTENDS Presence, TLC

\* Users, clients and tokens are interchangeable.  Not for liveness.
Symmetry == Permutations(Users) \cup Permutations(Clients) \cup Permutations(Tokens)
=============================================================================
