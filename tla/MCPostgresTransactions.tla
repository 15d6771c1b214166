---------------------- MODULE MCPostgresTransactions -----------------------
(* The constants of the PostgresTransactions runs. *)
EXTENDS PostgresTransactions
=============================================================================
