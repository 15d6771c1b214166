------------------------ MODULE MCAdminDashboard ----------------------------
(* The constants of the AdminDashboard run. *)
EXTENDS AdminDashboard
=============================================================================
