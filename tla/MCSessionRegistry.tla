------------------------- MODULE MCSessionRegistry -------------------------
(* The instance of SessionRegistry for TLC; the values are those of the      *)
(* configuration.                                                            *)
EXTENDS SessionRegistry
=============================================================================
