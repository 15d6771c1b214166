----------------------- MODULE MCSqliteTransactions ------------------------
(* The constants of the SqliteTransactions runs. *)
EXTENDS SqliteTransactions
=============================================================================
