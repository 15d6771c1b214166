---------------------------- MODULE MCSessions ------------------------------
(* The constants of the Sessions runs. *)
EXTENDS Sessions
=============================================================================
