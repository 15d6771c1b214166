-------------------------- MODULE MCBrowserSession --------------------------
(* The constants of the BrowserSession runs. *)
EXTENDS BrowserSession
=============================================================================
