--------------------------- MODULE MCWalletLink -----------------------------
(* The constants of the WalletLink runs. *)
EXTENDS WalletLink, TLC

Symmetry == Permutations(Accounts) \cup Permutations(NonceReqs)
                                  \cup Permutations(LinkReqs)
                                  \cup Permutations(Wallets)

\* States that differ in what no step and no property reads any more are one:
\* the body of a request that has been decided on, the nonce a rejected or dead
\* request had read, and which account a nonce was drawn for.
Body(r) == IF pc[r] \in {"checking", "verified"} THEN {<<claim[r], sig[r]>>} ELSE {}

SeenStill(r) == IF pc[r] \in {"new", "rejected", "failed", "lost"} THEN NoNonce ELSE seen[r]

View == <<columns, Len(drawnFor), issued, signed, pc, acct,
          [r \in LinkReqs |-> Body(r)], [r \in Requests |-> SeenStill(r)],
          {r \in wrote : pc[r] \in InFlight}>>
=============================================================================
