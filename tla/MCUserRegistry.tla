-------------------------- MODULE MCUserRegistry ----------------------------
(* The constants of the UserRegistry run. *)
EXTENDS UserRegistry
=============================================================================
