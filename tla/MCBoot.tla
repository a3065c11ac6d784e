------------------------------- MODULE MCBoot -------------------------------
(* The instance of Boot for TLC; everything is set in the configuration. *)
EXTENDS Boot
=============================================================================
