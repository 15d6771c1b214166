-------------------------- MODULE WalletLinkProofs --------------------------
(***************************************************************************)
(* Proofs about WalletLink, for any accounts, wallets and requests: a      *)
(* wallet has one account, the account has proven that it controls it, and *)
(* an answered link has spent its nonce.                                   *)
(***************************************************************************)
EXTENDS WalletLink, TLAPS

\* n was drawn for u.
Drawn(n, u) == n \in 1 .. Len(drawnFor) /\ drawnFor[n] = u

\* What is stored is in lower case.
StoredLower ==
    \A u \in Accounts : wallet[u] # None => wallet[u].case = "lower"

\* Every nonce that a column, a client or a request has was drawn for the
\* account it is with, and every signature is over one a client was given.
NoncesDrawn ==
    /\ \A u \in Accounts : nonce[u] # NoNonce => Drawn(nonce[u], u)
    /\ \A u \in Accounts : \A n \in issued[u] : Drawn(n, u)
    /\ \A r \in NonceReqs : pc[r] = "done" => Drawn(seen[r], acct[r])
    /\ \A r \in LinkReqs : pc[r] \in {"checking", "verified", "rotating", "done", "acked"} =>
           Drawn(seen[r], acct[r])

SignaturesIssued ==
    /\ \A s \in signed : \E u \in Accounts : s.nonce \in issued[u]
    /\ \A r \in Requests : sig[r] \in signed \cup {None}

\* A request that has passed the check carries the signature it needs.
VerifiedIsSigned ==
    \A r \in LinkReqs :
        /\ pc[r] \in {"checking", "verified"} => claim[r] \in Spelling
        /\ pc[r] = "verified" => sig[r] = [wallet |-> claim[r].addr, nonce |-> seen[r]]

IInv ==
    /\ TypeOK
    /\ StoredLower
    /\ NoncesDrawn
    /\ SignaturesIssued
    /\ VerifiedIsSigned
    /\ OneAccountPerWallet
    /\ LinkedWalletProven
    /\ AnsweredLinkSpendsNonce

-----------------------------------------------------------------------------
LEMMA Lower ==
    ASSUME NEW s \in Spelling
    PROVE  /\ ToLowerCase(s) \in Spelling
           /\ ToLowerCase(s).addr = s.addr
           /\ ToLowerCase(s).case = "lower"
           /\ \A t \in Spelling : t.case = "lower" /\ t.addr = s.addr => t = ToLowerCase(s)
  BY DEF Spelling, ToLowerCase

LEMMA StageNames ==
    /\ {"new", "acked", "rejected", "failed", "lost", "checking", "verified",
        "rotating", "unlinking", "done"} = Stages
    /\ InFlight = {"checking", "verified", "rotating", "unlinking", "done"}
  BY DEF Stages, InFlight

LEMMA Moves ==
    ASSUME TypeOK, NEW r \in Requests, Step(r)
    PROVE  /\ acct' = acct /\ accounts' = accounts /\ signed' = signed
           /\ \A q \in Requests \ {r} :
                  /\ pc'[q] = pc[q] /\ seen'[q] = seen[q]
                  /\ claim'[q] = claim[q] /\ sig'[q] = sig[q]
  BY DEF Step, DrawNonce, DeliverNonce, ReadNonce, CheckAndVerify, WriteWallet,
         RotateNonce, ReadWallet, ClearWallet, Respond, Goto, TypeOK, columns, inputs

\* What is stored has the type of an address because it was checked.
LEMMA TypeInv ==
    ASSUME TypeOK, VerifiedIsSigned, [Next]_vars
    PROVE  TypeOK'
<1> USE DEF TypeOK
<1>1. ASSUME NEW r \in Requests, NEW s \in Stages, Goto(r, s)
      PROVE  pc' \in [Requests -> Stages]
  BY <1>1 DEF Goto
<1>2. ASSUME NEW r \in Requests, StoreFreshNonce(r)
      PROVE  /\ drawnFor' \in Seq(Accounts) /\ nonce' \in [Accounts -> Nat]
             /\ Len(drawnFor') \in Nat
  BY <1>2 DEF StoreFreshNonce
<1>3. CASE UNCHANGED vars
  BY <1>3 DEF vars
<1>4. CASE Crash
  BY <1>4, StageNames DEF Crash, columns, inputs
<1>5. ASSUME NEW w \in Wallets, NEW n \in 1 .. Len(drawnFor), Sign(w, n)
      PROVE  TypeOK'
  BY <1>5 DEF Sign, Signature, columns, inputs
<1>6. ASSUME NEW u \in Accounts, DeleteAccount(u)
      PROVE  TypeOK'
  BY <1>6 DEF DeleteAccount, inputs, NoNonce
<1>7. ASSUME NEW r \in Requests, Step(r)
      PROVE  TypeOK'
  <2>1. CASE DrawNonce(r) \/ RotateNonce(r)
    BY <1>1, <1>2, <2>1, StageNames DEF DrawNonce, RotateNonce, inputs
  <2>2. CASE DeliverNonce(r)
    BY <1>1, <2>2, StageNames DEF DeliverNonce, columns, inputs
  <2>3. CASE ReadNonce(r)
    <3>1. claim' \in [Requests -> Spelling \cup {None}]
      BY <2>3 DEF ReadNonce
    <3>2. sig' \in [Requests -> Signature \cup {None}]
      BY <2>3 DEF ReadNonce
    <3>3. seen' \in [Requests -> Nat] /\ pc' \in [Requests -> Stages]
      BY <1>1, <2>3, StageNames DEF ReadNonce
    <3> QED
      BY <2>3, <3>1, <3>2, <3>3 DEF ReadNonce, columns
  <2>4. CASE CheckAndVerify(r) \/ ReadWallet(r) \/ Respond(r)
    BY <1>1, <2>4, StageNames DEF CheckAndVerify, ReadWallet, Respond, columns, inputs
  <2>5. CASE WriteWallet(r)
    <3>1. pc' \in [Requests -> Stages]
      BY <1>1, <2>5, StageNames DEF WriteWallet
    <3>2. wallet' \in [Accounts -> Spelling \cup {None}]
      <4>1. ToLowerCase(claim[r]) \in Spelling
        BY <2>5, Lower DEF WriteWallet, VerifiedIsSigned
      <4> QED
        BY <2>5, <4>1 DEF WriteWallet
    <3>3. wrote' \in SUBSET Requests
      BY <2>5 DEF WriteWallet
    <3> QED
      BY <2>5, <3>1, <3>2, <3>3 DEF WriteWallet, inputs
  <2>6. CASE ClearWallet(r)
    BY <1>1, <2>6, StageNames DEF ClearWallet, inputs
  <2> QED
    BY <1>7, <2>1, <2>2, <2>3, <2>4, <2>5, <2>6 DEF Step
<1> QED
  BY <1>3, <1>4, <1>5, <1>6, <1>7 DEF Next

\* A nonce is appended or none is; what was drawn for whom stays.
LEMMA NoncesGrow ==
    ASSUME TypeOK, [Next]_vars
    PROVE  \A n, u : Drawn(n, u) => Drawn(n, u)'
<1>1. drawnFor' = drawnFor \/ \E v \in Accounts : drawnFor' = Append(drawnFor, v)
  BY DEF Next, vars, Step, DrawNonce, DeliverNonce, ReadNonce, CheckAndVerify, WriteWallet,
         RotateNonce, ReadWallet, ClearWallet, Respond, StoreFreshNonce, Sign,
         DeleteAccount, Crash, TypeOK
<1>2. CASE drawnFor' = drawnFor
  BY <1>2 DEF Drawn
<1>3. ASSUME NEW v \in Accounts, drawnFor' = Append(drawnFor, v)
      PROVE  \A n, u : Drawn(n, u) => Drawn(n, u)'
  BY <1>3 DEF Drawn, TypeOK
<1> QED
  BY <1>1, <1>2, <1>3

\* A fresh nonce was drawn for the account that asked, and for none before.
LEMMA Fresh ==
    ASSUME TypeOK, NEW r \in Requests, StoreFreshNonce(r), acct' = acct
    PROVE  /\ Len(drawnFor') \in Nat \ {0}
           /\ \A u : Drawn(Len(drawnFor), u)' <=> u = acct[r]
           /\ \A n, u : Drawn(n, u) => n # Len(drawnFor')
           /\ \A u \in Accounts :
                  nonce'[u] = nonce[u] \/ (u = acct[r] /\ nonce'[u] = Len(drawnFor'))
           /\ acct[r] \in accounts => nonce'[acct[r]] = Len(drawnFor')
<1>1. /\ drawnFor' = Append(drawnFor, acct[r]) /\ acct[r] \in Accounts
      /\ drawnFor \in Seq(Accounts)
  BY DEF StoreFreshNonce, TypeOK
<1>2. /\ Len(drawnFor) \in Nat /\ Len(drawnFor') = Len(drawnFor) + 1
      /\ drawnFor'[Len(drawnFor')] = acct[r]
  BY <1>1
<1>3. \A u : Drawn(Len(drawnFor), u)' <=> u = acct[r]
  BY <1>2 DEF Drawn
<1>4. \A n, u : Drawn(n, u) => n # Len(drawnFor')
  BY <1>2 DEF Drawn
<1>5. nonce' = IF acct[r] \in accounts
               THEN [nonce EXCEPT ![acct[r]] = Len(drawnFor')] ELSE nonce
  BY DEF StoreFreshNonce
<1>6. nonce \in [Accounts -> Nat]
  BY DEF TypeOK
<1> QED
  BY <1>1, <1>2, <1>3, <1>4, <1>5, <1>6

LEMMA NoncesDrawnInductive ==
    ASSUME IInv, [Next]_vars
    PROVE  NoncesDrawn'
<1> USE DEF IInv, TypeOK
<1>1. \A n, u : Drawn(n, u) => Drawn(n, u)'
  BY NoncesGrow
<1>2. ASSUME acct' = acct,
             \A u \in Accounts : nonce'[u] \in {nonce[u], NoNonce} /\ issued'[u] = issued[u],
             \A r \in Requests : seen'[r] = seen[r],
             \A r \in Requests : pc'[r] = pc[r] \/ pc'[r] \in {"lost"}
      PROVE  NoncesDrawn'
  BY <1>1, <1>2 DEF NoncesDrawn, Requests
<1>3. CASE UNCHANGED vars
  BY <1>2, <1>3 DEF vars, columns, inputs
<1>4. CASE Crash
  BY <1>2, <1>4 DEF Crash, columns, inputs
<1>5. CASE \E w \in Wallets, n \in 1 .. Len(drawnFor) : Sign(w, n)
  BY <1>2, <1>5 DEF Sign, columns, inputs
<1>6. CASE \E u \in Accounts : DeleteAccount(u)
  BY <1>2, <1>6 DEF DeleteAccount, inputs
<1>7. ASSUME NEW r \in Requests, Step(r)
      PROVE  NoncesDrawn'
  <2>1. /\ acct' = acct
        /\ \A q \in Requests \ {r} : pc'[q] = pc[q] /\ seen'[q] = seen[q]
    BY <1>7, Moves
  \* What has to be shown of the request that moves.
  <2>2. ASSUME \A u \in Accounts : nonce'[u] = nonce[u] \/ Drawn(nonce[u], u)',
               \A u \in Accounts : \A n \in issued'[u] : n \in issued[u] \/ Drawn(n, u),
               r \in NonceReqs /\ pc'[r] = "done" => Drawn(seen[r], acct[r])',
               r \in LinkReqs /\ pc'[r] \in {"checking", "verified", "rotating", "done",
                                             "acked"} => Drawn(seen[r], acct[r])'
        PROVE  NoncesDrawn'
    <3>1. NoncesDrawn
      OBVIOUS
    <3> HIDE DEF IInv, TypeOK
    <3>2. \A u \in Accounts : nonce'[u] # NoNonce => Drawn(nonce[u], u)'
      <4> SUFFICES ASSUME NEW u \in Accounts, nonce'[u] # NoNonce,
                          ~Drawn(nonce[u], u)'
                   PROVE  FALSE
        OBVIOUS
      <4>1. nonce'[u] = nonce[u]
        BY <2>2
      <4>2. Drawn(nonce[u], u)
        BY <3>1, <4>1 DEF NoncesDrawn
      <4> QED
        BY <1>1, <4>1, <4>2 DEF Drawn
    <3>3. \A u \in Accounts : \A n \in issued'[u] : Drawn(n, u)'
      BY <1>1, <2>2, <3>1 DEF NoncesDrawn
    <3>4. ASSUME NEW q \in Requests, q # r, Drawn(seen[q], acct[q])
          PROVE  Drawn(seen[q], acct[q])'
      <4>1. seen'[q] = seen[q] /\ acct'[q] = acct[q]
        BY <2>1, <3>4
      <4> QED
        BY <1>1, <3>4, <4>1 DEF Drawn
    <3>5. \A q \in NonceReqs : pc'[q] = "done" => Drawn(seen[q], acct[q])'
      BY <2>1, <2>2, <3>1, <3>4 DEF NoncesDrawn, Requests
    <3>6. \A q \in LinkReqs :
              pc'[q] \in {"checking", "verified", "rotating", "done", "acked"} =>
                  Drawn(seen[q], acct[q])'
      BY <2>1, <2>2, <3>1, <3>4 DEF NoncesDrawn, Requests
    <3> QED
      BY <3>2, <3>3, <3>5, <3>6 DEF NoncesDrawn
  <2>3. CASE DrawNonce(r)
    <3>1. seen'[r] = Len(drawnFor') /\ issued' = issued /\ r \in NonceReqs
      BY <2>3 DEF DrawNonce
    <3>2. StoreFreshNonce(r)
      BY <2>3 DEF DrawNonce
    <3>3. Drawn(Len(drawnFor), acct[r])'
      BY <2>1, <3>2, Fresh
    <3>4. Drawn(seen[r], acct[r])'
      BY <2>1, <3>1, <3>3 DEF Drawn
    <3>5. \A u \in Accounts : nonce'[u] = nonce[u] \/ Drawn(nonce[u], u)'
      BY <2>1, <3>2, <3>3, Fresh DEF Drawn
    <3> QED
      BY <2>2, <3>1, <3>4, <3>5, RequestsDisjoint
  <2>4. CASE DeliverNonce(r)
    <3>1. /\ pc[r] = "done" /\ pc'[r] = "acked" /\ nonce' = nonce /\ r \in NonceReqs
          /\ issued' = [issued EXCEPT ![acct[r]] = @ \cup {seen[r]}]
      BY <2>4 DEF DeliverNonce, Goto, columns
    <3>2. Drawn(seen[r], acct[r])
      BY <3>1 DEF NoncesDrawn
    <3> QED
      BY <2>2, <3>1, <3>2, RequestsDisjoint
  <2>5. CASE ReadNonce(r)
    <3>1. /\ seen'[r] = nonce[acct[r]] /\ nonce' = nonce /\ issued' = issued
          /\ pc'[r] = "checking" => nonce[acct[r]] # NoNonce
          /\ pc'[r] \in {"checking", "rejected"} /\ r \in LinkReqs
      BY <2>5 DEF ReadNonce, Goto, columns
    <3>2. pc'[r] = "checking" => Drawn(seen[r], acct[r])'
      BY <1>1, <2>1, <3>1 DEF NoncesDrawn
    <3> QED
      BY <2>2, <3>1, <3>2, RequestsDisjoint
  <2>6. CASE CheckAndVerify(r) \/ WriteWallet(r) \/ RotateNonce(r)
    <3>1. /\ seen'[r] = seen[r] /\ issued' = issued /\ r \in LinkReqs
          /\ pc[r] \in {"checking", "verified", "rotating"}
          /\ nonce' = nonce \/ StoreFreshNonce(r)
      BY <2>6 DEF CheckAndVerify, WriteWallet, RotateNonce, columns
    <3>2. Drawn(seen[r], acct[r])
      BY <3>1 DEF NoncesDrawn
    <3>3. Drawn(seen[r], acct[r])'
      BY <1>1, <2>1, <3>1, <3>2 DEF Drawn
    <3>4. \A u \in Accounts : nonce'[u] = nonce[u] \/ Drawn(nonce[u], u)'
      BY <2>1, <3>1, Fresh DEF Drawn
    <3> QED
      BY <2>2, <3>1, <3>3, <3>4, RequestsDisjoint
  <2>7. CASE ReadWallet(r) \/ ClearWallet(r)
    BY <2>2, <2>7, RequestsDisjoint DEF ReadWallet, ClearWallet, columns
  <2>8. CASE Respond(r)
    <3>1. /\ seen'[r] = seen[r] /\ issued' = issued /\ nonce' = nonce
          /\ pc[r] = "done" /\ pc'[r] \in {"acked", "failed"} /\ r \notin NonceReqs
      BY <2>8, RequestsDisjoint DEF Respond, Goto, columns
    <3>2. r \in LinkReqs => Drawn(seen[r], acct[r])
      BY <3>1 DEF NoncesDrawn
    <3>3. r \in LinkReqs => Drawn(seen[r], acct[r])'
      BY <1>1, <2>1, <3>1, <3>2 DEF Drawn
    <3> QED
      BY <2>2, <3>1, <3>3
  <2> QED
    BY <1>7, <2>3, <2>4, <2>5, <2>6, <2>7, <2>8 DEF Step
<1> QED
  BY <1>3, <1>4, <1>5, <1>6, <1>7 DEF Next

LEMMA SignaturesInductive ==
    ASSUME IInv, [Next]_vars
    PROVE  SignaturesIssued'
<1> USE DEF IInv, TypeOK
<1>1. \A u \in Accounts : issued[u] \subseteq issued'[u]
  <2>1. ASSUME NEW r \in Requests, Step(r), ~DeliverNonce(r)
        PROVE  issued' = issued
    BY <2>1 DEF Step, DrawNonce, ReadNonce, CheckAndVerify, WriteWallet,
           RotateNonce, ReadWallet, ClearWallet, Respond
  <2>2. ASSUME NEW r \in Requests, DeliverNonce(r)
        PROVE  \A u \in Accounts : issued[u] \subseteq issued'[u]
    BY <2>2 DEF DeliverNonce
  <2>3. ASSUME ~\E r \in Requests : Step(r)
        PROVE  issued' = issued
    BY <2>3 DEF Next, vars, Sign, DeleteAccount, Crash
  <2> QED
    BY <2>1, <2>2, <2>3
<1>2. ASSUME \A s \in signed' : s \in signed \/ \E u \in Accounts : s.nonce \in issued[u]
      PROVE  \A s \in signed' : \E u \in Accounts : s.nonce \in issued'[u]
  BY <1>1, <1>2 DEF SignaturesIssued
<1>3. ASSUME signed' = signed, sig' = sig
      PROVE  SignaturesIssued'
  BY <1>2, <1>3 DEF SignaturesIssued
<1>4. CASE UNCHANGED vars \/ Crash \/ \E u \in Accounts : DeleteAccount(u)
  BY <1>3, <1>4 DEF vars, Crash, DeleteAccount, inputs
<1>5. ASSUME NEW w \in Wallets, NEW n \in 1 .. Len(drawnFor), Sign(w, n)
      PROVE  SignaturesIssued'
  <2>1. /\ signed' = signed \cup {[wallet |-> w, nonce |-> n]} /\ sig' = sig
        /\ \E u \in Accounts : n \in issued[u]
    BY <1>5 DEF Sign, inputs
  <2>2. [wallet |-> w, nonce |-> n].nonce = n
    OBVIOUS
  <2>3. \A s \in signed' : s \in signed \/ \E u \in Accounts : s.nonce \in issued[u]
    BY <2>1, <2>2
  <2>4. \A r \in Requests : sig'[r] \in signed' \cup {None}
    BY <2>1 DEF SignaturesIssued
  <2> QED
    BY <1>2, <2>3, <2>4 DEF SignaturesIssued
<1>6. ASSUME NEW r \in Requests, Step(r)
      PROVE  SignaturesIssued'
  <2>1. CASE ReadNonce(r)
    <3>1. signed' = signed /\ \E s \in signed \cup {None} : sig' = [sig EXCEPT ![r] = s]
      BY <2>1 DEF ReadNonce
    <3>2. \A q \in Requests : sig'[q] \in signed' \cup {None}
      BY <3>1 DEF SignaturesIssued
    <3> QED
      BY <1>2, <3>1, <3>2 DEF SignaturesIssued
  <2>2. CASE ~ReadNonce(r)
    BY <1>3, <1>6, <2>2 DEF Step, DrawNonce, DeliverNonce, CheckAndVerify, WriteWallet,
         RotateNonce, ReadWallet, ClearWallet, Respond, inputs
  <2> QED
    BY <2>1, <2>2
<1> QED
  BY <1>4, <1>5, <1>6 DEF Next

LEMMA VerifiedInductive ==
    ASSUME IInv, [Next]_vars
    PROVE  VerifiedIsSigned'
<1> USE DEF IInv, TypeOK, VerifiedIsSigned
<1>1. ASSUME claim' = claim, sig' = sig, seen' = seen,
             \A r \in LinkReqs : pc'[r] \in {"checking", "verified"} => pc'[r] = pc[r]
      PROVE  VerifiedIsSigned'
  BY <1>1
<1>2. CASE UNCHANGED vars
  BY <1>1, <1>2 DEF vars
<1>3. CASE Crash
  BY <1>1, <1>3 DEF Crash, inputs, Requests
<1>4. CASE (\E w \in Wallets, n \in 1 .. Len(drawnFor) : Sign(w, n))
           \/ \E u \in Accounts : DeleteAccount(u)
  BY <1>1, <1>4 DEF Sign, DeleteAccount, inputs
<1>5. ASSUME NEW r \in Requests, Step(r)
      PROVE  VerifiedIsSigned'
  <2>1. \A q \in LinkReqs \ {r} : /\ pc'[q] = pc[q] /\ seen'[q] = seen[q]
                                  /\ claim'[q] = claim[q] /\ sig'[q] = sig[q]
    BY <1>5, Moves DEF Requests
  <2>2. ASSUME r \in LinkReqs =>
                   /\ pc'[r] \in {"checking", "verified"} => claim'[r] \in Spelling
                   /\ pc'[r] = "verified" =>
                          sig'[r] = [wallet |-> claim'[r].addr, nonce |-> seen'[r]]
        PROVE  VerifiedIsSigned'
    BY <2>1, <2>2
  <2>3. CASE ReadNonce(r)
    <3>1. pc'[r] # "verified" /\ claim'[r] \in Spelling
      BY <2>3 DEF ReadNonce, Goto
    <3> QED
      BY <2>2, <3>1
  <2>4. CASE CheckAndVerify(r)
    <3>1. /\ claim' = claim /\ sig' = sig /\ seen' = seen
          /\ pc'[r] = "verified" => sig[r] = [wallet |-> claim[r].addr, nonce |-> seen[r]]
          /\ pc[r] = "checking" /\ r \in LinkReqs
      BY <2>4 DEF CheckAndVerify, Goto, inputs
    <3> QED
      BY <2>2, <3>1
  <2>5. CASE ~(ReadNonce(r) \/ CheckAndVerify(r))
    <3>1. r \in LinkReqs => pc'[r] \notin {"checking", "verified"}
      BY <1>5, <2>5, RequestsDisjoint
         DEF Step, DrawNonce, DeliverNonce, WriteWallet, RotateNonce, ReadWallet,
             ClearWallet, Respond, Goto
    <3> QED
      BY <2>2, <3>1
  <2> QED
    BY <2>3, <2>4, <2>5
<1> QED
  BY <1>2, <1>3, <1>4, <1>5 DEF Next

LEMMA StoredLowerInductive ==
    ASSUME IInv, [Next]_vars
    PROVE  StoredLower'
<1> USE DEF IInv, TypeOK, StoredLower
<1>1. ASSUME wallet' = wallet
      PROVE  StoredLower'
  BY <1>1
<1>2. CASE UNCHANGED vars \/ Crash
  BY <1>1, <1>2 DEF vars, Crash, columns
<1>3. CASE \E w \in Wallets, n \in 1 .. Len(drawnFor) : Sign(w, n)
  BY <1>1, <1>3 DEF Sign, columns
<1>4. ASSUME NEW u \in Accounts, DeleteAccount(u)
      PROVE  StoredLower'
  BY <1>4 DEF DeleteAccount
<1>5. ASSUME NEW r \in Requests, Step(r)
      PROVE  StoredLower'
  <2>1. CASE WriteWallet(r)
    <3>1. ToLowerCase(claim[r]).case = "lower"
      BY <2>1, Lower DEF WriteWallet, VerifiedIsSigned
    <3>2. \A u \in Accounts : wallet'[u] \in {wallet[u], ToLowerCase(claim[r])}
      BY <2>1 DEF WriteWallet
    <3> QED
      BY <3>1, <3>2
  <2>2. CASE ClearWallet(r)
    BY <2>2 DEF ClearWallet
  <2>3. CASE ~(WriteWallet(r) \/ ClearWallet(r))
    BY <1>1, <1>5, <2>3 DEF Step, DrawNonce, DeliverNonce, ReadNonce, CheckAndVerify,
       RotateNonce, ReadWallet, Respond, columns
  <2> QED
    BY <2>1, <2>2, <2>3
<1> QED
  BY <1>2, <1>3, <1>4, <1>5 DEF Next

\* The UNIQUE constraint compares what is stored, and that is in lower case.
LEMMA OneAccountInductive ==
    ASSUME IInv, [Next]_vars
    PROVE  OneAccountPerWallet'
<1> USE DEF IInv, TypeOK, OneAccountPerWallet
<1>1. ASSUME accounts' \subseteq accounts,
             \A u \in accounts' : wallet'[u] \in {wallet[u], None}
      PROVE  OneAccountPerWallet'
  BY <1>1
<1>2. CASE UNCHANGED vars \/ Crash
  BY <1>1, <1>2 DEF vars, Crash, columns
<1>3. CASE \E w \in Wallets, n \in 1 .. Len(drawnFor) : Sign(w, n)
  BY <1>1, <1>3 DEF Sign, columns
<1>4. CASE \E u \in Accounts : DeleteAccount(u)
  BY <1>1, <1>4 DEF DeleteAccount
<1>5. ASSUME NEW r \in Requests, Step(r)
      PROVE  OneAccountPerWallet'
  <2>1. CASE WriteWallet(r)
    <3> DEFINE u == acct[r]
               stored == ToLowerCase(claim[r])
    <3>1. /\ claim[r] \in Spelling /\ stored \in Spelling
          /\ stored.addr = claim[r].addr
          /\ \A t \in Spelling : t.case = "lower" /\ t.addr = claim[r].addr => t = stored
      BY <2>1, Lower DEF WriteWallet, VerifiedIsSigned
    <3>2. accounts' = accounts
      BY <2>1 DEF WriteWallet
    <3>3. CASE wallet' = wallet
      BY <1>1, <3>2, <3>3
    <3>4. CASE wallet' # wallet
      <4>1. /\ u \in accounts /\ ~Taken(u, stored)
            /\ wallet' = [wallet EXCEPT ![u] = stored]
        BY <2>1, <3>4 DEF WriteWallet
      <4> HIDE DEF stored
      <4>2. \A v \in accounts \ {u} : wallet[v] # None => wallet[v].addr # stored.addr
        <5> SUFFICES ASSUME NEW v \in accounts \ {u}, wallet[v] # None,
                            wallet[v].addr = stored.addr
                     PROVE  FALSE
          OBVIOUS
        <5>1. wallet[v] \in Spelling /\ wallet[v].case = "lower"
          BY DEF StoredLower
        <5>2. wallet[v] = stored
          BY <3>1, <5>1
        <5> QED
          BY <4>1, <5>2 DEF Taken
      <4>3. \A v \in accounts : wallet'[v] = IF v = u THEN stored ELSE wallet[v]
        BY <4>1
      <4>4. ASSUME NEW v \in accounts, NEW w \in accounts, v # w,
                   wallet'[v] # None, wallet'[w] # None
            PROVE  wallet'[v].addr # wallet'[w].addr
        <5>1. CASE v = u
          BY <4>2, <4>3, <4>4, <5>1
        <5>2. CASE w = u
          BY <4>2, <4>3, <4>4, <5>2
        <5>3. CASE v # u /\ w # u
          BY <4>3, <4>4, <5>3
        <5> QED
          BY <5>1, <5>2, <5>3
      <4> QED
        BY <3>2, <4>4
    <3> QED
      BY <3>3, <3>4
  <2>2. CASE ClearWallet(r)
    BY <1>1, <2>2 DEF ClearWallet
  <2>3. CASE ~(WriteWallet(r) \/ ClearWallet(r))
    BY <1>1, <1>5, <2>3 DEF Step, DrawNonce, DeliverNonce, ReadNonce, CheckAndVerify,
       RotateNonce, ReadWallet, Respond, columns
  <2> QED
    BY <2>1, <2>2, <2>3
<1> QED
  BY <1>2, <1>3, <1>4, <1>5 DEF Next

\* What has been issued or signed stays so.
LEMMA HistoryGrows ==
    ASSUME IInv, [Next]_vars
    PROVE  /\ signed \subseteq signed'
           /\ \A u \in Accounts : issued[u] \subseteq issued'[u]
<1> USE DEF IInv, TypeOK
<1>1. ASSUME NEW r \in Requests, Step(r), ~DeliverNonce(r)
      PROVE  issued' = issued /\ signed' = signed
  BY <1>1 DEF Step, DrawNonce, ReadNonce, CheckAndVerify, WriteWallet,
         RotateNonce, ReadWallet, ClearWallet, Respond
<1>2. ASSUME NEW r \in Requests, DeliverNonce(r)
      PROVE  /\ \A u \in Accounts : issued[u] \subseteq issued'[u]
             /\ signed' = signed
  BY <1>2 DEF DeliverNonce
<1>3. ASSUME ~\E r \in Requests : Step(r)
      PROVE  issued' = issued /\ signed \subseteq signed'
  BY <1>3 DEF Next, vars, Sign, DeleteAccount, Crash
<1> QED
  BY <1>1, <1>2, <1>3

\* The signature a link writes on is over a nonce drawn for its account, and
\* whoever was given that nonce is the account it was drawn for.
LEMMA ProvenInductive ==
    ASSUME IInv, [Next]_vars
    PROVE  LinkedWalletProven'
<1> USE DEF IInv, TypeOK
<1> DEFINE Proven(u, w) ==
        \E n \in issued[u] : [wallet |-> w, nonce |-> n] \in signed
<1>1. ASSUME NEW u \in Accounts, NEW w, Proven(u, w)
      PROVE  \E n \in issued'[u] : [wallet |-> w, nonce |-> n] \in signed'
  BY <1>1, HistoryGrows
<1> HIDE DEF Proven
<1>2. \A u \in accounts : wallet[u] # None => Proven(u, wallet[u].addr)
  BY DEF LinkedWalletProven, Proven
<1>3. ASSUME accounts' \subseteq accounts,
             \A u \in accounts' : \/ wallet'[u] \in {wallet[u], None}
                                  \/ Proven(u, wallet'[u].addr)
      PROVE  LinkedWalletProven'
  BY <1>1, <1>2, <1>3 DEF LinkedWalletProven
<1>4. CASE UNCHANGED vars \/ Crash
  BY <1>3, <1>4 DEF vars, Crash, columns
<1>5. CASE \E w \in Wallets, n \in 1 .. Len(drawnFor) : Sign(w, n)
  BY <1>3, <1>5 DEF Sign, columns
<1>6. CASE \E u \in Accounts : DeleteAccount(u)
  BY <1>3, <1>6 DEF DeleteAccount
<1>7. ASSUME NEW r \in Requests, Step(r)
      PROVE  LinkedWalletProven'
  <2>1. CASE WriteWallet(r)
    <3>1. /\ r \in LinkReqs /\ pc[r] = "verified" /\ accounts' = accounts
          /\ \A u \in accounts : \/ wallet'[u] = wallet[u]
                                 \/ u = acct[r] /\ wallet'[u] = ToLowerCase(claim[r])
      BY <2>1 DEF WriteWallet
    <3>2. /\ claim[r] \in Spelling /\ ToLowerCase(claim[r]).addr = claim[r].addr
          /\ sig[r] = [wallet |-> claim[r].addr, nonce |-> seen[r]]
      BY <3>1, Lower DEF VerifiedIsSigned
    <3>3. sig[r] \in signed
      <4>1. sig[r] \in Signature
        BY <3>2 DEF Signature, Spelling
      <4> QED
        BY <4>1, NoneIsNoValue DEF SignaturesIssued
    <3>4. PICK u \in Accounts : seen[r] \in issued[u]
      <4>1. sig[r].nonce = seen[r]
        BY <3>2
      <4> QED
        BY <3>3, <4>1 DEF SignaturesIssued
    <3>5. u = acct[r]
      BY <3>1, <3>4 DEF NoncesDrawn, Drawn
    <3>6. Proven(acct[r], claim[r].addr)
      BY <3>2, <3>3, <3>4, <3>5 DEF Proven
    <3> QED
      BY <1>3, <3>1, <3>2, <3>6
  <2>2. CASE ClearWallet(r)
    BY <1>3, <2>2 DEF ClearWallet
  <2>3. CASE ~(WriteWallet(r) \/ ClearWallet(r))
    BY <1>3, <1>7, <2>3 DEF Step, DrawNonce, DeliverNonce, ReadNonce, CheckAndVerify,
       RotateNonce, ReadWallet, Respond, columns
  <2> QED
    BY <2>1, <2>2, <2>3
<1> QED
  BY <1>4, <1>5, <1>6, <1>7 DEF Next

\* The nonce an answered link has seen was drawn for its account; the
\* account's nonce is another one since the rotation, every nonce stored
\* later is fresh, and the nonces of other accounts were drawn for them.
LEMMA SpentInductive ==
    ASSUME IInv, [Next]_vars
    PROVE  AnsweredLinkSpendsNonce'
<1> USE DEF IInv, TypeOK
<1> DEFINE Answered(q) == pc[q] \in {"done", "acked"}
<1>1. ASSUME NEW q \in LinkReqs, Answered(q)
      PROVE  /\ Drawn(seen[q], acct[q]) /\ seen[q] # NoNonce
             /\ \A u \in accounts : nonce[u] # seen[q]
  BY <1>1 DEF NoncesDrawn, AnsweredLinkSpendsNonce, Drawn, NoNonce
<1> HIDE DEF Answered
<1>2. ASSUME accounts' \subseteq accounts, seen' = seen,
             \A u \in Accounts : nonce'[u] \in {nonce[u], NoNonce},
             \A q \in LinkReqs : pc'[q] \in {"done", "acked"} => Answered(q)
      PROVE  AnsweredLinkSpendsNonce'
  BY <1>1, <1>2 DEF AnsweredLinkSpendsNonce
<1>3. CASE UNCHANGED vars
  BY <1>2, <1>3 DEF vars, Answered
<1>4. CASE Crash
  BY <1>2, <1>4 DEF Crash, columns, Answered, Requests, InFlight
<1>5. CASE \E w \in Wallets, n \in 1 .. Len(drawnFor) : Sign(w, n)
  BY <1>2, <1>5 DEF Sign, columns, Answered
<1>6. CASE \E u \in Accounts : DeleteAccount(u)
  BY <1>2, <1>6 DEF DeleteAccount, Answered
<1>7. ASSUME NEW r \in Requests, Step(r)
      PROVE  AnsweredLinkSpendsNonce'
  <2>1. /\ acct' = acct /\ accounts' = accounts
        /\ \A q \in LinkReqs \ {r} : pc'[q] = pc[q] /\ seen'[q] = seen[q]
    BY <1>7, Moves DEF Requests
  <2>2. CASE DrawNonce(r)
    <3>1. r \notin LinkReqs /\ StoreFreshNonce(r)
      BY <2>2, RequestsDisjoint DEF DrawNonce
    <3>2. ASSUME NEW q \in LinkReqs, pc'[q] \in {"done", "acked"}
          PROVE  \A u \in accounts : nonce'[u] # seen'[q]
      <4>1. Answered(q) /\ seen'[q] = seen[q]
        BY <2>1, <3>1, <3>2 DEF Answered
      <4> QED
        BY <1>1, <2>1, <3>1, <4>1, Fresh
    <3> QED
      BY <2>1, <3>2 DEF AnsweredLinkSpendsNonce
  <2>3. CASE RotateNonce(r)
    <3>1. /\ r \in LinkReqs /\ StoreFreshNonce(r) /\ seen' = seen
          /\ pc[r] = "rotating"
      BY <2>3 DEF RotateNonce
    <3>2. ASSUME NEW q \in LinkReqs, pc'[q] \in {"done", "acked"}, q # r
          PROVE  \A u \in accounts : nonce'[u] # seen'[q]
      <4>1. Answered(q) /\ seen'[q] = seen[q]
        BY <2>1, <3>1, <3>2 DEF Answered
      <4> QED
        BY <1>1, <2>1, <3>1, <4>1, Fresh
    <3>3. \A u \in accounts : nonce'[u] # seen'[r]
      <4>1. Drawn(seen[r], acct[r]) /\ seen[r] # NoNonce
        BY <3>1 DEF NoncesDrawn, Drawn, NoNonce
      <4>2. \A u \in accounts \ {acct[r]} : nonce[u] # seen[r]
        BY <4>1 DEF NoncesDrawn, Drawn
      <4> QED
        BY <2>1, <3>1, <4>1, <4>2, Fresh
    <3> QED
      BY <2>1, <3>2, <3>3 DEF AnsweredLinkSpendsNonce
  <2>4. CASE DeliverNonce(r)
    BY <1>2, <2>1, <2>4, RequestsDisjoint DEF DeliverNonce, columns, Answered
  <2>5. CASE ReadNonce(r)
    <3>1. nonce' = nonce /\ pc'[r] \in {"checking", "rejected"}
      BY <2>5 DEF ReadNonce, columns, Goto
    <3>2. ASSUME NEW q \in LinkReqs, pc'[q] \in {"done", "acked"}
          PROVE  Answered(q) /\ seen'[q] = seen[q]
      BY <2>1, <3>1, <3>2 DEF Answered
    <3> QED
      BY <1>1, <2>1, <3>1, <3>2 DEF AnsweredLinkSpendsNonce
  <2>6. CASE CheckAndVerify(r) \/ WriteWallet(r)
    <3>1. /\ nonce' = nonce /\ seen' = seen
          /\ pc'[r] \in {"rejected", "verified", "failed", "rotating"}
      BY <2>6 DEF CheckAndVerify, WriteWallet, columns, Goto
    <3> QED
      BY <1>2, <2>1, <3>1 DEF Answered
  <2>7. CASE ReadWallet(r) \/ ClearWallet(r)
    <3>1. nonce' = nonce /\ seen' = seen /\ r \notin LinkReqs
      BY <2>7, RequestsDisjoint DEF ReadWallet, ClearWallet, columns
    <3> QED
      BY <1>2, <2>1, <3>1 DEF Answered
  <2>8. CASE Respond(r)
    <3>1. nonce' = nonce /\ seen' = seen /\ pc[r] = "done"
      BY <2>8 DEF Respond, columns
    <3> QED
      BY <1>2, <2>1, <3>1 DEF Answered
  <2> QED
    BY <1>7, <2>2, <2>3, <2>4, <2>5, <2>6, <2>7, <2>8 DEF Step
<1> QED
  BY <1>3, <1>4, <1>5, <1>6, <1>7 DEF Next

-----------------------------------------------------------------------------
LEMMA Initially ==
    ASSUME Init
    PROVE  IInv
<1>1. TypeOK
  BY DEF Init, TypeOK, Stages, NoNonce
<1>2. StoredLower /\ OneAccountPerWallet /\ LinkedWalletProven
  BY DEF Init, StoredLower, OneAccountPerWallet, LinkedWalletProven
<1>3. NoncesDrawn /\ AnsweredLinkSpendsNonce /\ VerifiedIsSigned
  BY DEF Init, NoncesDrawn, AnsweredLinkSpendsNonce, VerifiedIsSigned, Requests
<1>4. SignaturesIssued
  BY DEF Init, SignaturesIssued
<1> QED
  BY <1>1, <1>2, <1>3, <1>4 DEF IInv

LEMMA Invariance == Spec => []IInv
<1>1. IInv /\ [Next]_vars => IInv'
  <2> SUFFICES ASSUME IInv, [Next]_vars
               PROVE  IInv'
    OBVIOUS
  <2>1. TypeOK'
    BY TypeInv DEF IInv
  <2> QED
    BY <2>1, StoredLowerInductive, NoncesDrawnInductive, SignaturesInductive,
       VerifiedInductive, OneAccountInductive, ProvenInductive, SpentInductive DEF IInv
<1> QED
  BY <1>1, Initially, PTL DEF Spec

\* Every column and every local variable of a request keeps to its type: in
\* particular a nonce, once drawn, is overwritten by a nonce or removed with
\* its account, never set to NULL (updateUserNonce, user.model.ts).
THEOREM TypeCorrect == Spec => []TypeOK
<1>1. IInv => TypeOK
  BY DEF IInv
<1> QED
  BY <1>1, Invariance, PTL

\* Whatever the interleaving of the requests, no address is linked to two
\* accounts: the check of linkWallet is repeated by the UNIQUE constraint,
\* and linkWalletAddress stores the lower case only.
THEOREM WalletsAreUnique == Spec => []OneAccountPerWallet
<1>1. IInv => OneAccountPerWallet
  BY DEF IInv
<1> QED
  BY <1>1, Invariance, PTL

\* A wallet is linked only after its owner has signed a nonce that getNonce
\* gave to that very account: a signature made for another account does not
\* serve, since nonces are never drawn twice.
THEOREM LinkedWalletsAreProven == Spec => []LinkedWalletProven
<1>1. IInv => LinkedWalletProven
  BY DEF IInv
<1> QED
  BY <1>1, Invariance, PTL

\* A link that has gone through leaves no account with the nonce it used, and
\* none will ever have it again: its signature cannot be used twice.
THEOREM LinksSpendTheirNonce == Spec => []AnsweredLinkSpendsNonce
<1>1. IInv => AnsweredLinkSpendsNonce
  BY DEF IInv
<1> QED
  BY <1>1, Invariance, PTL
=============================================================================
