----------------------------- MODULE WalletLink -----------------------------
(***************************************************************************)
(* Linking a wallet to an account: getNonce, linkWallet and unlinkWallet   *)
(* of backend/src/controllers/auth.controller.ts over the users table, one *)
(* step per awaited statement, so that requests interleave between what    *)
(* they read and what they write.  A nonce is its index in drawnFor: 128   *)
(* random bits never repeat.  A signature is the pair it proves, a wallet  *)
(* and the nonce of the signed message; recovering the signer from any     *)
(* other message yields an address nobody claims.                          *)
(***************************************************************************)
EXTENDS Naturals, Sequences

CONSTANTS
    Accounts,   \* accounts that exist when the run starts
    Wallets,    \* addresses
    NonceReqs,  \* calls of getNonce
    LinkReqs,   \* calls of linkWallet
    UnlinkReqs, \* calls of unlinkWallet
    None        \* SQL NULL, or no signature

Requests == NonceReqs \cup LinkReqs \cup UnlinkReqs

ASSUME RequestsDisjoint ==
    /\ NonceReqs \cap LinkReqs = {}
    /\ NonceReqs \cap UnlinkReqs = {}
    /\ LinkReqs \cap UnlinkReqs = {}

\* An address as a client may write it: checksummed or in lower case.
Spelling == [addr : Wallets, case : {"mixed", "lower"}]

ToLowerCase(s) == [s EXCEPT !.case = "lower"]

NoNonce == 0

Signature == [wallet : Wallets, nonce : Nat]

ASSUME NoneIsNoValue == None \notin Spelling \cup Signature

VARIABLES
    accounts,  \* accounts with a row in users
    wallet,    \* column wallet_address
    nonce,     \* column nonce
    drawnFor,  \* history: the account each nonce was drawn for
    issued,    \* nonces each account has received from getNonce
    signed,    \* signatures the owners of wallets have made
    pc,        \* where each request stands
    acct,      \* the account each request is authenticated as
    claim,     \* the walletAddress in the body of each linkWallet
    sig,       \* the signature in it
    seen,      \* the nonce each request has read or drawn
    wrote      \* requests whose UPDATE of wallet_address matched a row

columns == <<accounts, wallet, nonce>>
inputs == <<claim, sig>>
vars == <<accounts, wallet, nonce, drawnFor, issued, signed,
          pc, acct, claim, sig, seen, wrote>>

InFlight == {"checking", "verified", "rotating", "unlinking", "done"}
Stages == {"new", "acked", "rejected", "failed", "lost"} \cup InFlight

TypeOK ==
    /\ accounts \in SUBSET Accounts
    /\ wallet \in [Accounts -> Spelling \cup {None}]
    /\ nonce \in [Accounts -> Nat]
    /\ drawnFor \in Seq(Accounts)
    /\ issued \in [Accounts -> SUBSET Nat]
    /\ signed \in SUBSET Signature
    /\ pc \in [Requests -> Stages]
    /\ acct \in [Requests -> Accounts]
    /\ claim \in [Requests -> Spelling \cup {None}]
    /\ sig \in [Requests -> Signature \cup {None}]
    /\ seen \in [Requests -> Nat]
    /\ wrote \in SUBSET Requests

Init ==
    /\ accounts = Accounts
    /\ wallet = [u \in Accounts |-> None]
    /\ nonce = [u \in Accounts |-> NoNonce]
    /\ drawnFor = <<>>
    /\ issued = [u \in Accounts |-> {}]
    /\ signed = {}
    /\ pc = [r \in Requests |-> "new"]
    /\ acct \in [Requests -> Accounts]
    /\ claim = [r \in Requests |-> None]
    /\ sig = [r \in Requests |-> None]
    /\ seen = [r \in Requests |-> NoNonce]
    /\ wrote = {}

-----------------------------------------------------------------------------
Goto(r, stage) == pc' = [pc EXCEPT ![r] = stage]

\* UPDATE users SET nonce = <fresh> WHERE id = acct[r]; no row, no effect.
StoreFreshNonce(r) ==
    /\ drawnFor' = Append(drawnFor, acct[r])
    /\ nonce' = IF acct[r] \in accounts
                THEN [nonce EXCEPT ![acct[r]] = Len(drawnFor')]
                ELSE nonce

\* wallet_address is UNIQUE over the stored spellings.
Taken(u, spelling) == \E v \in accounts \ {u} : wallet[v] = spelling

-----------------------------------------------------------------------------
(* getNonce *)

DrawNonce(r) ==
    /\ r \in NonceReqs
    /\ pc[r] = "new"
    /\ StoreFreshNonce(r)
    /\ seen' = [seen EXCEPT ![r] = Len(drawnFor')]
    /\ Goto(r, "done")
    /\ UNCHANGED <<accounts, wallet, issued, signed, acct, inputs, wrote>>

\* The response reaches the client.
DeliverNonce(r) ==
    /\ r \in NonceReqs
    /\ pc[r] = "done"
    /\ issued' = [issued EXCEPT ![acct[r]] = @ \cup {seen[r]}]
    /\ Goto(r, "acked")
    /\ UNCHANGED <<columns, drawnFor, signed, acct, inputs, seen, wrote>>

\* The owner of w signs the message with a nonce some client was given.
Sign(w, n) ==
    /\ \E u \in Accounts : n \in issued[u]
    /\ signed' = signed \cup {[wallet |-> w, nonce |-> n]}
    /\ UNCHANGED <<columns, drawnFor, issued, pc, acct, inputs, seen, wrote>>

-----------------------------------------------------------------------------
(* linkWallet *)

\* The request arrives with a claimed address and a signature; getUserById.
ReadNonce(r) ==
    /\ r \in LinkReqs
    /\ pc[r] = "new"
    /\ \E spelling \in Spelling : claim' = [claim EXCEPT ![r] = spelling]
    /\ \E s \in signed \cup {None} : sig' = [sig EXCEPT ![r] = s]
    /\ seen' = [seen EXCEPT ![r] = nonce[acct[r]]]
    /\ Goto(r, IF acct[r] \in accounts /\ nonce[acct[r]] # NoNonce
               THEN "checking" ELSE "rejected")
    /\ UNCHANGED <<columns, drawnFor, issued, signed, acct, wrote>>

\* Without the comparison with the claimed address, any signature over the nonce.
CheckAndVerifyAnySigner(r) ==
    /\ r \in LinkReqs
    /\ pc[r] = "checking"
    /\ Goto(r, IF /\ ~Taken(acct[r], ToLowerCase(claim[r]))
                  /\ sig[r] # None
                  /\ sig[r].nonce = seen[r]
               THEN "verified" ELSE "rejected")
    /\ UNCHANGED <<columns, drawnFor, issued, signed, acct, inputs, seen, wrote>>

\* getUserByWalletAddress, then (in the same turn) ethers.verifyMessage over
\* the nonce read before.
CheckAndVerify(r) ==
    /\ r \in LinkReqs
    /\ pc[r] = "checking"
    /\ Goto(r, IF /\ ~Taken(acct[r], ToLowerCase(claim[r]))
                  /\ sig[r] = [wallet |-> claim[r].addr, nonce |-> seen[r]]
               THEN "verified" ELSE "rejected")
    /\ UNCHANGED <<columns, drawnFor, issued, signed, acct, inputs, seen, wrote>>

\* Without toLowerCase, spellings of one address differ for UNIQUE.
WriteWalletAsTyped(r) ==
    /\ r \in LinkReqs
    /\ pc[r] = "verified"
    /\ ~Taken(acct[r], claim[r])
    /\ wallet' = [wallet EXCEPT ![acct[r]] = claim[r]]
    /\ wrote' = wrote \cup {r}
    /\ Goto(r, "rotating")
    /\ UNCHANGED <<accounts, nonce, drawnFor, issued, signed, acct, inputs, seen>>

\* linkWalletAddress: the UNIQUE constraint rejects the loser of a race (the
\* handler answers 500); an account deleted meanwhile matches no row, and the
\* handler goes on regardless.
WriteWallet(r) ==
    LET u == acct[r]
        stored == ToLowerCase(claim[r])
    IN  /\ r \in LinkReqs
        /\ pc[r] = "verified"
        /\ IF Taken(u, stored) /\ u \in accounts
           THEN UNCHANGED <<wallet, wrote>> /\ Goto(r, "failed")
           ELSE /\ wallet' = IF u \in accounts
                             THEN [wallet EXCEPT ![u] = stored] ELSE wallet
                /\ wrote' = IF u \in accounts THEN wrote \cup {r} ELSE wrote
                /\ Goto(r, "rotating")
        /\ UNCHANGED <<accounts, nonce, drawnFor, issued, signed, acct,
                       inputs, seen>>

\* Keeping the nonce leaves the signature good for another link.
KeepNonce(r) ==
    /\ r \in LinkReqs
    /\ pc[r] = "rotating"
    /\ Goto(r, "done")
    /\ UNCHANGED <<columns, drawnFor, issued, signed, acct, inputs, seen, wrote>>

\* updateUserNonce with a nonce nobody is told.
RotateNonce(r) ==
    /\ r \in LinkReqs
    /\ pc[r] = "rotating"
    /\ StoreFreshNonce(r)
    /\ Goto(r, "done")
    /\ UNCHANGED <<accounts, wallet, issued, signed, acct, inputs, seen, wrote>>

-----------------------------------------------------------------------------
(* unlinkWallet *)

ReadWallet(r) ==
    /\ r \in UnlinkReqs
    /\ pc[r] = "new"
    /\ Goto(r, IF acct[r] \in accounts /\ wallet[acct[r]] # None
               THEN "unlinking" ELSE "rejected")
    /\ UNCHANGED <<columns, drawnFor, issued, signed, acct, inputs, seen, wrote>>

\* unlinkWalletAddress
ClearWallet(r) ==
    /\ r \in UnlinkReqs
    /\ pc[r] = "unlinking"
    /\ wallet' = [wallet EXCEPT ![acct[r]] = None]
    /\ wrote' = IF acct[r] \in accounts THEN wrote \cup {r} ELSE wrote
    /\ Goto(r, "done")
    /\ UNCHANGED <<accounts, nonce, drawnFor, issued, signed, acct, inputs, seen>>

\* sanitizeUser throws on the undefined row of an account deleted meanwhile.
Respond(r) ==
    /\ r \in LinkReqs \cup UnlinkReqs
    /\ pc[r] = "done"
    /\ Goto(r, IF r \in wrote THEN "acked" ELSE "failed")
    /\ UNCHANGED <<columns, drawnFor, issued, signed, acct, inputs, seen, wrote>>

-----------------------------------------------------------------------------
\* An administrator deletes the account (deleteUserById).
DeleteAccount(u) ==
    /\ u \in accounts
    /\ accounts' = accounts \ {u}
    /\ wallet' = [wallet EXCEPT ![u] = None]
    /\ nonce' = [nonce EXCEPT ![u] = NoNonce]
    /\ UNCHANGED <<drawnFor, issued, signed, pc, acct, inputs, seen, wrote>>

Crash ==
    /\ pc' = [r \in Requests |-> IF pc[r] \in InFlight THEN "lost" ELSE pc[r]]
    /\ UNCHANGED <<columns, drawnFor, issued, signed, acct, inputs, seen, wrote>>

Step(r) ==
    \/ DrawNonce(r) \/ DeliverNonce(r)
    \/ ReadNonce(r) \/ CheckAndVerify(r) \/ WriteWallet(r) \/ RotateNonce(r)
    \/ ReadWallet(r) \/ ClearWallet(r)
    \/ Respond(r)

Next ==
    \/ \E r \in Requests : Step(r)
    \/ \E w \in Wallets, n \in 1..Len(drawnFor) : Sign(w, n)
    \/ \E u \in Accounts : DeleteAccount(u)
    \/ Crash

Spec == Init /\ [][Next]_vars
-----------------------------------------------------------------------------
\* No two accounts have the same address linked, however each wrote it
\* (requests check before they write; UNIQUE and toLowerCase decide).
OneAccountPerWallet ==
    \A u, v \in accounts :
        u # v /\ wallet[u] # None /\ wallet[v] # None =>
            wallet[u].addr # wallet[v].addr

\* A linked wallet has signed a nonce that was issued to that very account:
\* the proof of control recordToken relies on (token.controller.ts:19-21).
LinkedWalletProven ==
    \A u \in accounts :
        wallet[u] # None =>
            \E n \in issued[u] : [wallet |-> wallet[u].addr, nonce |-> n] \in signed

\* Once linkWallet has answered, the nonce its signature is over is nobody's
\* current nonce, and no request that arrives later can be accepted with it.
AnsweredLinkSpendsNonce ==
    \A r \in LinkReqs : pc[r] \in {"done", "acked"} =>
        \A u \in accounts : nonce[u] # seen[r]

=============================================================================
