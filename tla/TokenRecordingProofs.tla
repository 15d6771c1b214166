------------------------- MODULE TokenRecordingProofs ------------------------
(***************************************************************************)
(* Proofs about TokenRecording, for any wallets, accounts, pages, names,   *)
(* foreign contracts and number of transactions: what is recorded, a       *)
(* receipt says, and no page's own transaction is recorded twice.          *)
(***************************************************************************)
EXTENDS TokenRecording, TLAPS

\* The stages at which a page has a transaction still to be recorded.
Reporting == {"mining", "posted", "linked", "verified"}

Hashes == 1 .. Len(txs)

\* The factory lists token t under wallet w.
Lists(w, t) == \E j \in DOMAIN tokensByCreator[w] : tokensByCreator[w][j] = t

FormsFit ==
    \A p \in Pages : stage[p] \in Reporting => form[p] \in Form /\ form[p].tx \in Hashes

\* What the factory tells of, it lists.
Listed(tx) ==
    tx.status = "ok" /\ tx.kind = "deploy" =>
        \A k \in DOMAIN tx.logs : Lists(tx.from, tx.logs[k].token)

DeployedIsListed == \A h \in Hashes : Listed(txs[h])

\* A call of factory or token is given a name or a recipient.
SomethingGiven ==
    \A h \in Hashes : txs[h].kind # "other" => txs[h].what \in Names \cup Wallets

LinkedIsProven == \A u \in Accounts : linked[u] # None => <<u, linked[u]>> \in proven

\* The wallet a request has read stays proven, whatever is linked meanwhile.
ReadIsProven ==
    \A p \in Pages : stage[p] \in {"linked", "verified"} =>
        form[p].wallet # None /\ <<form[p].account, form[p].wallet>> \in proven

\* Transaction tx bears out that wallet did what a report or a row says.
BearsOut(tx, wallet, r) ==
    /\ tx.status = "ok" /\ tx.from = wallet
    /\ \E k \in DOMAIN tx.logs : tx.logs[k] = Event(r.kind, r.token, wallet, r.what)

\* What has been verified stays true: a mined transaction does not change.
VerifiedIsTrue ==
    \A p \in Pages : stage[p] = "verified" =>
        BearsOut(txs[form[p].tx], form[p].wallet, form[p])

RowsAreSent == \A i \in DOMAIN rows : rows[i].tx \in Hashes

\* Page p is to report a transaction of its own.
ReportsOwn(p) == stage[p] \in Reporting /\ form[p].own

\* Such a transaction is reported by one page, and not yet recorded for it.
ReportedOnce ==
    \A p \in Pages : ReportsOwn(p) =>
        /\ \A i \in DOMAIN rows : rows[i].own => rows[i].tx # form[p].tx
        /\ \A q \in Pages \ {p} : ReportsOwn(q) => form[q].tx # form[p].tx

IInv ==
    /\ TypeOK
    /\ known \subseteq Hashes
    /\ FormsFit
    /\ DeployedIsListed
    /\ SomethingGiven
    /\ LinkedIsProven
    /\ ReadIsProven
    /\ VerifiedIsTrue
    /\ RowsAreSent
    /\ RecordsMatchChain
    /\ ReportedOnce
    /\ NothingRecordedTwice

\* The steps of a page, and those of chain, node and accounts.
PageStep(p) ==
    \/ \E u \in Accounts, w \in Wallets :
         \/ \E name \in Names : DeployToken(p, u, w, name)
         \/ \E t \in isFactoryToken \cup {Elsewhere}, to \in Wallets :
                TransferToken(p, u, w, t, to)
    \/ \E u \in Accounts, h \in DOMAIN txs, t \in isFactoryToken \cup {Elsewhere} :
         \/ \E name \in Names : Claim(p, u, "deploy", h, t, name)
         \/ \E to \in Wallets : Claim(p, u, "transfer", h, t, to)
    \/ Proceed(p) \/ LoseResponse(p)

OtherStep ==
    \/ \E h \in DOMAIN txs : Mine(h) \/ Propagate(h)
    \/ \E w \in Wallets : CallElsewhere(w)
    \/ \E u \in Accounts : Unlink(u) \/ \E w \in Wallets : Link(u, w)
    \/ PauseFactory

-----------------------------------------------------------------------------
LEMMA NextSteps ==
    ASSUME [Next]_vars
    PROVE  (\E p \in Pages : PageStep(p)) \/ OtherStep \/ UNCHANGED vars
  BY DEF Next, PageStep, OtherStep

LEMMA StageNames ==
    /\ Stages = {"idle", "answered", "error", "mining", "posted", "linked", "verified"}
    /\ Reporting = {"mining", "posted", "linked", "verified"}
  BY DEF Stages, Waiting, AtTheApi, Reporting

LEMMA Appending ==
    ASSUME NEW S, NEW s \in Seq(S), NEW e
    PROVE  /\ Len(s) \in Nat /\ Len(Append(s, e)) = Len(s) + 1
           /\ DOMAIN s = 1 .. Len(s) /\ DOMAIN Append(s, e) = 1 .. (Len(s) + 1)
           /\ \A i \in 1 .. Len(s) : Append(s, e)[i] = s[i]
           /\ Append(s, e)[Len(s) + 1] = e
           /\ e \in S => Append(s, e) \in Seq(S)
  OBVIOUS

\* What a transaction sent by page p does.
LEMMA Sending ==
    ASSUME IInv, NEW p \in Pages, NEW u \in Accounts, NEW tx \in Tx, tx.kind \in Kinds, Send(p, u, tx)
    PROVE  /\ txs' = Append(txs, tx) /\ txs' \in Seq(Tx)
           /\ stage' = [stage EXCEPT ![p] = "mining"]
           /\ form' \in [Pages -> Form \cup {NoForm}]
           /\ \A q \in Pages \ {p} : form'[q] = form[q]
           /\ form'[p] \in Form /\ form'[p].tx = Len(txs) + 1 /\ form'[p].own
           /\ UNCHANGED <<factory, known, linked, proven, rows>>
<1> DEFINE f == [kind |-> tx.kind, account |-> u, tx |-> Len(txs) + 1, token |-> tx.token,
                 what |-> tx.what, wallet |-> None, own |-> TRUE]
<1>1. txs \in Seq(Tx) /\ form \in [Pages -> Form \cup {NoForm}]
  BY DEF IInv, TypeOK
<1>2. txs' = Append(txs, tx) /\ txs' \in Seq(Tx) /\ Len(txs') = Len(txs) + 1
      /\ Len(txs) \in Nat
  BY <1>1, Appending DEF Send
<1>3. f \in Form /\ f.tx = Len(txs) + 1 /\ f.own
  BY <1>2 DEF Form, Tx
<1>4. form' = [form EXCEPT ![p] = f]
  BY <1>2 DEF Send
<1> HIDE DEF f
<1> QED
  BY <1>1, <1>2, <1>3, <1>4 DEF Send, Goto

LEMMA NewTxs ==
    ASSUME NEW kind \in Kinds \cup {"other"}, NEW w \in Wallets, NEW t \in Nat,
           NEW what \in Names \cup Wallets \cup {None}
    PROVE  /\ NewTx(kind, w, t, what) \in Tx
           /\ NewTx(kind, w, t, what).status = "pending"
           /\ NewTx(kind, w, t, what).kind = kind
           /\ NewTx(kind, w, t, what).what = what
<1>1. \A S : <<>> \in Seq(S)
  OBVIOUS
<1> QED
  BY <1>1 DEF NewTx, Tx

\* Each way for page p to step, by its effects.
Sends(p) ==
    \E u \in Accounts, tx \in Tx :
        /\ tx.kind \in Kinds /\ tx.what \in Names \cup Wallets
        /\ tx.status = "pending" /\ Send(p, u, tx)

Moves(p, from, to) == stage[p] = from /\ stage'[p] = to

SameReport(p) ==
    /\ form'[p] \in Form
    /\ form'[p].tx = form[p].tx /\ form'[p].own = form[p].own

LEMMA PageSteps ==
    ASSUME IInv, NEW p \in Pages, PageStep(p)
    PROVE  /\ UNCHANGED <<factory, known, linked, proven>>
           /\ stage' \in [Pages -> Stages] /\ form' \in [Pages -> Form \cup {NoForm}]
           /\ \A q \in Pages \ {p} : stage'[q] = stage[q] /\ form'[q] = form[q]
           /\ \/ Sends(p) /\ stage'[p] = "mining"
              \/ /\ Moves(p, "idle", "posted")
                 /\ form'[p] \in Form /\ form'[p].tx \in Hashes /\ ~form'[p].own
                 /\ UNCHANGED <<txs, rows>>
              \/ Moves(p, "mining", "posted") /\ SameReport(p) /\ UNCHANGED <<txs, rows>>
              \/ /\ Moves(p, "posted", "linked") /\ SameReport(p)
                 /\ form'[p].wallet = linked[form'[p].account]
                 /\ form'[p].wallet # None
                 /\ UNCHANGED <<txs, rows>>
              \/ /\ Moves(p, "linked", "verified") /\ Verified(form[p])
                 /\ form' = form /\ UNCHANGED <<txs, rows>>
              \/ /\ Moves(p, "verified", "answered")
                 /\ rows' = Append(rows, RowOf(form[p]))
                 /\ form' = form /\ UNCHANGED txs
              \/ /\ stage'[p] \in {"idle", "error"}
                 /\ UNCHANGED <<txs, rows>>
<1> USE DEF Moves
<1>1. stage \in [Pages -> Stages] /\ form \in [Pages -> Form \cup {NoForm}]
      /\ linked \in [Accounts -> Wallets \cup {None}] /\ txs \in Seq(Tx)
      /\ isFactoryToken \cup {Elsewhere} \subseteq Nat
  BY DEF IInv, TypeOK, FactoryTypeOK, Elsewhere
<1>2. ASSUME NEW u \in Accounts, NEW w \in Wallets, NEW name \in Names,
             DeployToken(p, u, w, name)
      PROVE  Sends(p)
  <2>1. Elsewhere \in Nat
    BY DEF Elsewhere
  <2> QED
    BY <1>2, <2>1, NewTxs DEF DeployToken, Sends, Kinds
<1>3. ASSUME NEW u \in Accounts, NEW w \in Wallets,
             NEW t \in isFactoryToken \cup {Elsewhere}, NEW to \in Wallets,
             TransferToken(p, u, w, t, to)
      PROVE  Sends(p)
  <2>1. t \in Nat
    BY <1>1
  <2> QED
    BY <1>3, <2>1, NewTxs DEF TransferToken, Sends, Kinds
<1>4. CASE Sends(p)
  BY <1>1, <1>4, Sending, StageNames DEF Sends
<1>5. ASSUME NEW u \in Accounts, NEW h \in DOMAIN txs,
             NEW t \in isFactoryToken \cup {Elsewhere}, NEW kind \in Kinds,
             NEW what \in Names \cup Wallets, Claim(p, u, kind, h, t, what)
      PROVE  /\ UNCHANGED <<factory, known, linked, proven, txs, rows>>
             /\ stage' \in [Pages -> Stages] /\ form' \in [Pages -> Form \cup {NoForm}]
             /\ \A q \in Pages \ {p} : stage'[q] = stage[q] /\ form'[q] = form[q]
             /\ Moves(p, "idle", "posted")
             /\ form'[p] \in Form /\ form'[p].tx \in Hashes /\ ~form'[p].own
  <2> DEFINE f == [kind |-> kind, account |-> u, tx |-> h, token |-> t, what |-> what,
                   wallet |-> None, own |-> FALSE]
  <2>1. h \in Hashes /\ h \in Nat /\ t \in Nat
    BY <1>1 DEF Hashes
  <2>2. f \in Form /\ f.tx = h /\ ~f.own
    BY <2>1 DEF Form
  <2>3. form' = [form EXCEPT ![p] = f] /\ stage[p] = "idle"
        /\ stage' = [stage EXCEPT ![p] = "posted"]
        /\ UNCHANGED <<factory, known, linked, proven, txs, rows>>
    BY <1>5 DEF Claim, Goto, chain
  <2> HIDE DEF f
  <2> QED
    BY <1>1, <2>1, <2>2, <2>3, StageNames
<1>6. ASSUME Throw(p), UNCHANGED <<factory, chain, linked, proven, rows>>
      PROVE  /\ UNCHANGED <<factory, known, linked, proven, txs, rows>>
             /\ stage' \in [Pages -> Stages] /\ form' \in [Pages -> Form \cup {NoForm}]
             /\ \A q \in Pages \ {p} : stage'[q] = stage[q] /\ form'[q] = form[q]
             /\ stage'[p] = "error"
  BY <1>1, <1>6, StageNames DEF Throw, Goto, chain
<1>7. CASE Report(p)
  <2>1. form[p] \in Form /\ txs[form[p].tx] \in Tx /\ stage[p] = "mining"
    BY <1>1, <1>7, StageNames DEF Report, IInv, FormsFit, Hashes
  <2>2. CASE Throw(p)
    BY <1>6, <1>7, <2>2 DEF Report
  <2>3. CASE /\ Goto(p, "posted")
             /\ form' = [form EXCEPT ![p].token = txs[form[p].tx].token]
    <3> DEFINE f == [form[p] EXCEPT !.token = txs[form[p].tx].token]
    <3>1. f \in Form /\ f.tx = form[p].tx /\ f.own = form[p].own
      BY <2>1 DEF Form, Tx
    <3>2. form' = [form EXCEPT ![p] = f]
      BY <1>1, <2>3
    <3> HIDE DEF f
    <3> QED
      BY <1>1, <1>7, <2>1, <2>3, <3>1, <3>2, StageNames
         DEF Report, Goto, chain, SameReport
  <2> QED
    BY <1>7, <2>2, <2>3 DEF Report
<1>8. CASE RequireLinkedWallet(p)
  <2>1. form[p] \in Form /\ stage[p] = "posted"
    BY <1>8, StageNames DEF RequireLinkedWallet, IInv, FormsFit
  <2>2. CASE Throw(p)
    BY <1>6, <1>8, <2>2 DEF RequireLinkedWallet
  <2>3. CASE /\ linked[form[p].account] # None
             /\ Goto(p, "linked")
             /\ form' = [form EXCEPT ![p].wallet = linked[form[p].account]]
    <3> DEFINE f == [form[p] EXCEPT !.wallet = linked[form[p].account]]
    <3>1. /\ f \in Form /\ f.tx = form[p].tx /\ f.own = form[p].own
          /\ f.account = form[p].account /\ f.wallet = linked[form[p].account]
      BY <1>1, <2>1 DEF Form
    <3>2. form' = [form EXCEPT ![p] = f]
      BY <1>1, <2>3
    <3> HIDE DEF f
    <3> QED
      BY <1>1, <1>8, <2>1, <2>3, <3>1, <3>2, StageNames
         DEF RequireLinkedWallet, Goto, chain, SameReport
  <2> QED
    BY <1>8, <2>2, <2>3 DEF RequireLinkedWallet
<1>9. CASE VerifyClaim(p)
  <2>1. CASE Throw(p)
    BY <1>6, <1>9, <2>1 DEF VerifyClaim
  <2>2. CASE Verified(form[p]) /\ Goto(p, "verified") /\ UNCHANGED form
    BY <1>1, <1>9, <2>2, StageNames DEF VerifyClaim, Goto, chain
  <2> QED
    BY <1>9, <2>1, <2>2 DEF VerifyClaim
<1>10. CASE RecordClaim(p)
  <2>1. CASE UNCHANGED rows /\ Throw(p)
    BY <1>6, <1>10, <2>1 DEF RecordClaim
  <2>2. CASE /\ rows' = Append(rows, RowOf(form[p])) /\ Goto(p, "answered")
             /\ UNCHANGED form
    BY <1>1, <1>10, <2>2, StageNames DEF RecordClaim, Goto, chain
  <2> QED
    BY <1>10, <2>1, <2>2 DEF RecordClaim
<1>11. CASE LoseResponse(p)
  BY <1>6, <1>11 DEF LoseResponse
<1>12. CASE Settle(p)
  BY <1>1, <1>12, StageNames DEF Settle, Goto, chain
<1>13. CASE \E u \in Accounts, w \in Wallets :
              \/ \E name \in Names : DeployToken(p, u, w, name)
              \/ \E t \in isFactoryToken \cup {Elsewhere}, to \in Wallets :
                     TransferToken(p, u, w, t, to)
  BY <1>2, <1>3, <1>4, <1>13
<1>14. CASE \E u \in Accounts, h \in DOMAIN txs, t \in isFactoryToken \cup {Elsewhere} :
              \/ \E name \in Names : Claim(p, u, "deploy", h, t, name)
              \/ \E to \in Wallets : Claim(p, u, "transfer", h, t, to)
  BY <1>5, <1>14 DEF Kinds
<1> QED
  BY <1>7, <1>8, <1>9, <1>10, <1>11, <1>12, <1>13, <1>14 DEF PageStep, Proceed

LEMMA OneEvent ==
    ASSUME NEW kind \in Kinds, NEW t \in Nat, NEW w \in Wallets,
           NEW what \in Names \cup Wallets
    PROVE  /\ <<Event(kind, t, w, what)>> \in Seq(Log)
           /\ \A k \in DOMAIN <<Event(kind, t, w, what)>> :
                  <<Event(kind, t, w, what)>>[k].token = t
<1>1. Event(kind, t, w, what) \in Log /\ Event(kind, t, w, what).token = t
  BY DEF Event, Log
<1> QED
  BY <1>1

\* A mined transaction does not change; a token, once listed, stays listed.
LEMMA Mining ==
    ASSUME IInv, NEW h \in DOMAIN txs, Mine(h)
    PROVE  /\ txs' \in Seq(Tx) /\ FactoryTypeOK' /\ Len(txs') = Len(txs)
           /\ \A g \in Hashes : g # h => txs'[g] = txs[g]
           /\ txs[h].status = "pending" /\ h \in Hashes
           /\ \A w \in Wallets : \A t : Lists(w, t) => Lists(w, t)'
           /\ Listed(txs[h])' /\ txs'[h].kind = txs[h].kind /\ txs'[h].what = txs[h].what
<1>1. txs \in Seq(Tx) /\ FactoryTypeOK /\ h \in Hashes /\ txs[h] \in Tx
  BY DEF IInv, TypeOK, Hashes
<1>2. txs[h].status = "pending"
  BY DEF Mine
<1>3. ASSUME NEW tx \in Tx, txs' = [txs EXCEPT ![h] = tx]
      PROVE  /\ txs' \in Seq(Tx) /\ Len(txs') = Len(txs) /\ txs'[h] = tx
             /\ \A g \in Hashes : g # h => txs'[g] = txs[g]
  BY <1>1, <1>3 DEF Hashes
<1>4. CASE /\ txs[h].kind = "deploy"
           /\ createToken(txs[h].from)
           /\ txs' = [txs EXCEPT ![h] = Executed(txs[h], NewToken, "ok",
                  <<Event("deploy", NewToken, txs[h].from, txs[h].what)>>)]
  <2> DEFINE w == txs[h].from
             logs == <<Event("deploy", NewToken, w, txs[h].what)>>
             tx == Executed(txs[h], NewToken, "ok", logs)
  <2>1. NewToken \in Nat /\ w \in Wallets /\ "deploy" \in Kinds
    BY <1>1 DEF NewToken, FactoryTypeOK, Tx, Kinds
  <2>2. txs[h].what \in Names \cup Wallets
    BY <1>1, <1>4 DEF IInv, SomethingGiven
  <2>3. logs \in Seq(Log) /\ \A k \in DOMAIN logs : logs[k].token = NewToken
    BY <2>1, <2>2, OneEvent
  <2> HIDE DEF logs
  <2>4. tx \in Tx /\ tx.from = w /\ tx.logs = logs
        /\ tx.kind = txs[h].kind /\ tx.what = txs[h].what
    BY <1>1, <2>1, <2>3 DEF Executed, Tx
  <2>5. txs' = [txs EXCEPT ![h] = tx]
    BY <1>4 DEF logs
  <2> HIDE DEF tx
  <2>6. /\ txs' \in Seq(Tx) /\ Len(txs') = Len(txs) /\ txs'[h] = tx
        /\ \A g \in Hashes : g # h => txs'[g] = txs[g]
    BY <1>3, <2>4, <2>5
  <2>7. FactoryTypeOK'
    BY <1>1, <1>4, <2>1 DEF createToken, FactoryTypeOK
  <2>8. /\ tokensByCreator \in [Wallets -> Seq(Nat)]
        /\ tokensByCreator' = [tokensByCreator EXCEPT ![w] =
                                  Append(tokensByCreator[w], NewToken)]
    BY <1>1, <1>4 DEF createToken, FactoryTypeOK
  <2>9. Listed(txs[h])'
    <3>1. tokensByCreator'[w] = Append(tokensByCreator[w], NewToken)
      BY <2>1, <2>8
    <3>2. /\ Len(tokensByCreator[w]) + 1 \in DOMAIN tokensByCreator'[w]
          /\ tokensByCreator'[w][Len(tokensByCreator[w]) + 1] = NewToken
      BY <2>1, <2>8, <3>1
    <3>3. \E j \in DOMAIN tokensByCreator'[w] : tokensByCreator'[w][j] = NewToken
      BY <3>2
    <3>4. \A k \in DOMAIN tx.logs : tx.logs[k].token = NewToken
      BY <2>3, <2>4
    <3> HIDE DEF w
    <3> QED
      BY <2>4, <2>6, <3>3, <3>4 DEF Lists, Listed
  <2>10. ASSUME NEW v \in Wallets, NEW t, Lists(v, t)
        PROVE  Lists(v, t)'
    <3>1. PICK j \in DOMAIN tokensByCreator[v] : tokensByCreator[v][j] = t
      BY <2>10 DEF Lists
    <3>2. j \in DOMAIN tokensByCreator'[v] /\ tokensByCreator'[v][j] = t
      BY <2>1, <2>8, <3>1
    <3> QED
      BY <3>2 DEF Lists
  <2> QED
    BY <1>1, <1>2, <2>4, <2>6, <2>7, <2>9, <2>10
<1>5. ASSUME NEW status \in {"ok", "failed"}, NEW logs \in Seq(Log), UNCHANGED factory,
             txs' = [txs EXCEPT ![h] = Executed(txs[h], txs[h].token, status, logs)],
             status = "ok" => txs[h].kind # "deploy"
      PROVE  /\ txs' \in Seq(Tx) /\ FactoryTypeOK' /\ Len(txs') = Len(txs)
             /\ \A g \in Hashes : g # h => txs'[g] = txs[g]
             /\ \A w \in Wallets : \A t : Lists(w, t) => Lists(w, t)'
             /\ Listed(txs[h])' /\ txs'[h].kind = txs[h].kind /\ txs'[h].what = txs[h].what
  <2> DEFINE tx == Executed(txs[h], txs[h].token, status, logs)
  <2>1. txs[h].token \in Nat
    BY <1>1 DEF Tx
  <2>2. tx \in Tx /\ tx.kind = txs[h].kind /\ tx.status = status
        /\ tx.what = txs[h].what
    BY <1>1, <2>1 DEF Executed, Tx
  <2> HIDE DEF tx
  <2>3. /\ txs' \in Seq(Tx) /\ Len(txs') = Len(txs) /\ txs'[h] = tx
        /\ \A g \in Hashes : g # h => txs'[g] = txs[g]
    BY <1>3, <1>5, <2>2 DEF tx
  <2>4. FactoryTypeOK' /\ tokensByCreator' = tokensByCreator
    BY <1>1, <1>5 DEF factory, FactoryTypeOK
  <2> QED
    BY <1>5, <2>2, <2>3, <2>4 DEF Lists, Listed
<1>6. CASE /\ txs[h].kind = "transfer"
           /\ txs' = [txs EXCEPT ![h] = Executed(txs[h], txs[h].token, "ok",
                  <<Event("transfer", txs[h].token, txs[h].from, txs[h].what)>>)]
           /\ UNCHANGED factory
  <2>1. txs[h].token \in Nat /\ txs[h].from \in Wallets /\ "transfer" \in Kinds
        /\ txs[h].what \in Names \cup Wallets
    BY <1>1, <1>6 DEF Tx, Kinds, IInv, SomethingGiven
  <2>2. <<Event("transfer", txs[h].token, txs[h].from, txs[h].what)>> \in Seq(Log)
    BY <2>1, OneEvent
  <2> QED
    BY <1>1, <1>2, <1>5, <1>6, <2>2
<1>7. ASSUME NEW logs \in ForeignLogs, txs[h].kind # "deploy", UNCHANGED factory,
             txs' = [txs EXCEPT ![h] = Executed(txs[h], txs[h].token, "ok", logs)]
      PROVE  /\ txs' \in Seq(Tx) /\ FactoryTypeOK' /\ Len(txs') = Len(txs)
             /\ \A g \in Hashes : g # h => txs'[g] = txs[g]
             /\ \A w \in Wallets : \A t : Lists(w, t) => Lists(w, t)'
             /\ Listed(txs[h])' /\ txs'[h].kind = txs[h].kind /\ txs'[h].what = txs[h].what
  BY <1>5, <1>7, ForeignLogsAreLogs
<1>8. CASE txs' = [txs EXCEPT ![h] = Executed(txs[h], txs[h].token, "failed", <<>>)]
           /\ UNCHANGED factory
  <2>1. <<>> \in Seq(Log)
    OBVIOUS
  <2> QED
    BY <1>1, <1>2, <1>5, <1>8, <2>1
<1> QED
  BY <1>1, <1>2, <1>4, <1>6, <1>7, <1>8 DEF Mine

\* What every step leaves of the chain: what was mined stays as it is, and
\* what was listed stays listed.
ChainGoesOn ==
    /\ txs' \in Seq(Tx) /\ FactoryTypeOK' /\ Hashes \subseteq Hashes'
    /\ \A h \in Hashes : txs[h].status # "pending" => txs'[h] = txs[h]
    /\ \A w \in Wallets : \A t : Lists(w, t) => Lists(w, t)'
    /\ DeployedIsListed' /\ SomethingGiven'

LEMMA ChainStands ==
    ASSUME IInv, UNCHANGED <<txs, factory>>
    PROVE  ChainGoesOn
<1>1. txs \in Seq(Tx) /\ FactoryTypeOK /\ DeployedIsListed /\ SomethingGiven
  BY DEF IInv, TypeOK
<1>2. tokensByCreator' = tokensByCreator /\ FactoryTypeOK' /\ Hashes' = Hashes
  BY <1>1 DEF factory, FactoryTypeOK, Hashes
<1>3. \A w : \A t : Lists(w, t) => Lists(w, t)'
  BY <1>2 DEF Lists
<1> QED
  BY <1>1, <1>2, <1>3 DEF ChainGoesOn, DeployedIsListed, SomethingGiven, Listed

\* A transaction more, not yet mined.
LEMMA ChainGrows ==
    ASSUME IInv, NEW tx \in Tx, tx.status = "pending",
           tx.kind # "other" => tx.what \in Names \cup Wallets,
           txs' = Append(txs, tx), UNCHANGED factory
    PROVE  ChainGoesOn
<1>1. txs \in Seq(Tx) /\ FactoryTypeOK /\ DeployedIsListed /\ SomethingGiven
  BY DEF IInv, TypeOK
<1>2. /\ txs' \in Seq(Tx) /\ Len(txs') = Len(txs) + 1 /\ Len(txs) \in Nat
      /\ \A h \in Hashes : txs'[h] = txs[h]
      /\ txs'[Len(txs) + 1] = tx
  BY <1>1, Appending DEF Hashes
<1>3. \A h \in Hashes' : (h \in Hashes /\ txs'[h] = txs[h]) \/ txs'[h] = tx
  BY <1>2 DEF Hashes
<1>4. tokensByCreator' = tokensByCreator /\ FactoryTypeOK'
  BY <1>1 DEF factory, FactoryTypeOK
<1>5. \A w : \A t : Lists(w, t) => Lists(w, t)'
  BY <1>4 DEF Lists
<1>6. DeployedIsListed'
  <2>1. ASSUME NEW h \in Hashes'
        PROVE  Listed(txs[h])'
    BY <1>1, <1>3, <1>5 DEF DeployedIsListed, Listed
  <2> QED
    BY <2>1 DEF DeployedIsListed
<1>7. SomethingGiven'
  BY <1>1, <1>3 DEF SomethingGiven
<1>8. Hashes \subseteq Hashes'
  BY <1>2 DEF Hashes
<1> QED
  BY <1>2, <1>4, <1>5, <1>6, <1>7, <1>8 DEF ChainGoesOn

\* What neither page nor API does.
LEMMA OtherSteps ==
    ASSUME IInv, OtherStep
    PROVE  /\ UNCHANGED <<rows, stage, form>>
           /\ ChainGoesOn
           /\ known' \in SUBSET Nat /\ known' \subseteq Hashes
           /\ linked' \in [Accounts -> Wallets \cup {None}]
           /\ proven' \in SUBSET (Accounts \X Wallets) /\ proven \subseteq proven'
           /\ LinkedIsProven'
<1>1. /\ txs \in Seq(Tx) /\ FactoryTypeOK /\ known \in SUBSET Nat
      /\ linked \in [Accounts -> Wallets \cup {None}]
      /\ proven \in SUBSET (Accounts \X Wallets) /\ known \subseteq Hashes
      /\ LinkedIsProven /\ DeployedIsListed /\ SomethingGiven
  BY DEF IInv, TypeOK
<1>2. linked' = linked /\ proven' = proven => LinkedIsProven'
  BY <1>1 DEF LinkedIsProven
<1>3. ASSUME NEW h \in DOMAIN txs, Mine(h)
      PROVE  UNCHANGED <<rows, stage, form, known, linked, proven>> /\ ChainGoesOn
  <2>1. UNCHANGED <<rows, stage, form, known, linked, proven>>
    BY <1>3 DEF Mine
  <2>2. /\ txs' \in Seq(Tx) /\ FactoryTypeOK' /\ Hashes' = Hashes
        /\ txs[h].status = "pending" /\ h \in Hashes
        /\ \A g \in Hashes : g # h => txs'[g] = txs[g]
        /\ \A w \in Wallets : \A t : Lists(w, t) => Lists(w, t)'
        /\ Listed(txs[h])' /\ txs'[h].kind = txs[h].kind /\ txs'[h].what = txs[h].what
    BY <1>3, Mining DEF Hashes
  <2>3. ASSUME NEW g \in Hashes
        PROVE  Listed(txs[g])'
    <3>1. CASE g = h
      BY <2>2, <3>1
    <3>2. CASE g # h
      <4>1. txs[g] \in Tx
        BY <1>1 DEF Hashes
      <4>2. txs'[g] = txs[g] /\ txs[g].from \in Wallets
        BY <2>2, <3>2, <4>1 DEF Tx
      <4> QED
        BY <1>1, <2>2, <4>2 DEF DeployedIsListed, Listed
    <3> QED
      BY <3>1, <3>2
  <2>4. DeployedIsListed'
    BY <2>2, <2>3 DEF DeployedIsListed
  <2>5. SomethingGiven'
    BY <1>1, <2>2 DEF SomethingGiven
  <2> QED
    BY <2>1, <2>2, <2>4, <2>5 DEF ChainGoesOn
<1>4. ASSUME NEW h \in DOMAIN txs, Propagate(h)
      PROVE  /\ UNCHANGED <<rows, stage, form, txs, factory, linked, proven>>
             /\ known' \in SUBSET Nat /\ known' \subseteq Hashes
  <2>1. h \in Hashes /\ h \in Nat
    BY <1>1 DEF Hashes
  <2> QED
    BY <1>1, <1>4, <2>1 DEF Propagate
<1>5. ASSUME NEW u \in Accounts, NEW w \in Wallets, Link(u, w)
      PROVE  /\ UNCHANGED <<rows, stage, form, txs, factory, known>>
             /\ linked' \in [Accounts -> Wallets \cup {None}]
             /\ proven' \in SUBSET (Accounts \X Wallets) /\ proven \subseteq proven'
             /\ LinkedIsProven'
  <2>1. /\ UNCHANGED <<rows, stage, form, txs, factory, known>>
        /\ linked' = [linked EXCEPT ![u] = w] /\ proven' = proven \cup {<<u, w>>}
    BY <1>5 DEF Link, chain
  <2> QED
    BY <1>1, <2>1 DEF LinkedIsProven
<1>6. ASSUME NEW u \in Accounts, Unlink(u)
      PROVE  /\ UNCHANGED <<rows, stage, form, txs, factory, known, proven>>
             /\ linked' \in [Accounts -> Wallets \cup {None}]
             /\ LinkedIsProven'
  BY <1>1, <1>6 DEF Unlink, chain, LinkedIsProven
<1>7. ASSUME NEW w \in Wallets, CallElsewhere(w)
      PROVE  UNCHANGED <<rows, stage, form, known, linked, proven>> /\ ChainGoesOn
  <2> DEFINE tx == NewTx("other", w, Elsewhere, None)
  <2>1. tx \in Tx /\ tx.status = "pending" /\ tx.kind = "other"
    BY NewTxs DEF Elsewhere
  <2>2. /\ UNCHANGED <<rows, stage, form, factory, known, linked, proven>>
        /\ txs' = Append(txs, tx)
    BY <1>7 DEF CallElsewhere
  <2> HIDE DEF tx
  <2> QED
    BY <2>1, <2>2, ChainGrows
<1>8. CASE PauseFactory
  <2>1. /\ UNCHANGED <<rows, stage, form, txs, known, linked, proven, tokensByCreator>>
        /\ FactoryTypeOK'
    BY <1>1, <1>8 DEF PauseFactory, setFactoryPaused, chain, FactoryTypeOK
  <2>2. \A w : \A t : Lists(w, t) => Lists(w, t)'
    BY <2>1 DEF Lists
  <2>3. Hashes' = Hashes
    BY <2>1 DEF Hashes
  <2>4. ChainGoesOn
    BY <1>1, <2>1, <2>2, <2>3
       DEF ChainGoesOn, DeployedIsListed, SomethingGiven, Listed
  <2> QED
    BY <1>1, <1>2, <2>1, <2>4
<1> QED
  BY <1>1, <1>2, <1>3, <1>4, <1>5, <1>6, <1>7, <1>8, ChainStands DEF OtherStep

\* What a page does to the chain: a transaction more, or nothing.
LEMMA PageAndChain ==
    ASSUME IInv, NEW p \in Pages, PageStep(p)
    PROVE  ChainGoesOn
<1>1. UNCHANGED factory
  BY PageSteps
<1>2. CASE txs' = txs
  BY <1>1, <1>2, ChainStands
<1>3. CASE Sends(p)
  <2>1. PICK u \in Accounts, tx \in Tx :
            /\ tx.kind \in Kinds /\ tx.what \in Names \cup Wallets
            /\ tx.status = "pending" /\ Send(p, u, tx)
    BY <1>3 DEF Sends
  <2>2. txs' = Append(txs, tx)
    BY <2>1, Sending
  <2> QED
    BY <1>1, <2>1, <2>2, ChainGrows
<1> QED
  BY <1>2, <1>3, PageSteps

-----------------------------------------------------------------------------
\* Page p's step as the properties see it.
LEMMA SendsOwn ==
    ASSUME IInv, NEW p \in Pages, Sends(p)
    PROVE  /\ rows' = rows /\ form'[p] \in Form
           /\ form'[p].tx \in Hashes' /\ form'[p].tx \notin Hashes
<1>1. PICK u \in Accounts, tx \in Tx : tx.kind \in Kinds /\ Send(p, u, tx)
  BY DEF Sends
<1>2. /\ rows' = rows /\ form'[p] \in Form /\ form'[p].tx = Len(txs) + 1
      /\ txs' = Append(txs, tx) /\ txs \in Seq(Tx)
  BY <1>1, Sending DEF IInv, TypeOK
<1>3. Len(txs') = Len(txs) + 1 /\ Len(txs) \in Nat
  BY <1>2, Appending
<1> QED
  BY <1>2, <1>3 DEF Hashes

LEMMA TypeInv ==
    ASSUME IInv, [Next]_vars
    PROVE  TypeOK' /\ (known \subseteq Hashes)'
<1>1. CASE UNCHANGED vars
  BY <1>1 DEF vars, factory, chain, IInv, TypeOK, FactoryTypeOK, Hashes
<1>2. CASE OtherStep
  BY <1>2, OtherSteps DEF IInv, TypeOK, ChainGoesOn
<1>3. ASSUME NEW p \in Pages, PageStep(p)
      PROVE  TypeOK' /\ (known \subseteq Hashes)'
  <2>1. rows' \in Seq(Row)
    <3>1. rows \in Seq(Row)
      BY DEF IInv, TypeOK
    <3>2. CASE UNCHANGED rows
      BY <3>1, <3>2
    <3>3. CASE stage[p] = "verified" /\ rows' = Append(rows, RowOf(form[p]))
      <4>1. RowOf(form[p]) \in Row
        BY <3>3 DEF IInv, FormsFit, Reporting, Form, Row, RowOf
      <4> QED
        BY <3>1, <3>3, <4>1
    <3> QED
      BY <1>3, <3>2, <3>3, PageSteps, SendsOwn DEF Moves
  <2>2. UNCHANGED <<known, linked, proven>>
    BY <1>3, PageSteps
  <2>3. stage' \in [Pages -> Stages] /\ form' \in [Pages -> Form \cup {NoForm}]
    BY <1>3, PageSteps
  <2>4. txs' \in Seq(Tx) /\ FactoryTypeOK' /\ Hashes \subseteq Hashes'
    BY <1>3, PageAndChain DEF ChainGoesOn
  <2> QED
    BY <2>1, <2>2, <2>3, <2>4 DEF IInv, TypeOK
<1> QED
  BY <1>1, <1>2, <1>3, NextSteps

LEMMA FormsInv ==
    ASSUME IInv, [Next]_vars
    PROVE  FormsFit'
<1>1. FormsFit
  BY DEF IInv
<1>2. CASE UNCHANGED vars
  BY <1>1, <1>2 DEF vars, chain, FormsFit, Hashes
<1>3. CASE OtherStep
  <2>1. Hashes \subseteq Hashes' /\ stage' = stage /\ form' = form
    BY <1>3, OtherSteps DEF ChainGoesOn
  <2> QED
    BY <1>1, <2>1 DEF FormsFit
<1>4. ASSUME NEW p \in Pages, PageStep(p)
      PROVE  FormsFit'
  <2>1. /\ Hashes \subseteq Hashes'
        /\ \A q \in Pages \ {p} : stage'[q] = stage[q] /\ form'[q] = form[q]
    BY <1>4, PageSteps, PageAndChain DEF ChainGoesOn
  <2>2. ASSUME stage'[p] \in Reporting => form'[p] \in Form /\ form'[p].tx \in Hashes'
        PROVE  FormsFit'
    BY <1>1, <2>1, <2>2 DEF FormsFit
  <2>3. CASE Sends(p)
    BY <2>2, <2>3, SendsOwn
  <2>4. CASE form'[p] \in Form /\ form'[p].tx \in Hashes
    BY <2>1, <2>2, <2>4
  <2>5. CASE stage[p] \in Reporting /\ (form' = form \/ SameReport(p))
    BY <1>1, <2>1, <2>2, <2>5 DEF FormsFit, SameReport
  <2>6. CASE stage'[p] \in {"idle", "error", "answered"}
    BY <2>2, <2>6 DEF Reporting
  <2> QED
    BY <1>4, <2>3, <2>4, <2>5, <2>6, PageSteps DEF Moves, Reporting
<1> QED
  BY <1>2, <1>3, <1>4, NextSteps

\* A receipt that fits a report bears it out.
LEMMA VerifiedBearsOut ==
    ASSUME IInv, NEW f \in Form, f.tx \in Hashes, Verified(f)
    PROVE  BearsOut(txs[f.tx], f.wallet, f)
<1>1. txs[f.tx] \in Tx
  BY DEF IInv, TypeOK, Hashes
<1>2. Receipt(f.tx) = txs[f.tx]
  BY DEF Verified, Receipt
<1>3. PICK i \in DOMAIN txs[f.tx].logs : Matches(txs[f.tx].logs, i, f)
  BY <1>2 DEF Verified
<1>4. txs[f.tx].logs[i] \in Log
  BY <1>1, <1>3 DEF Tx
<1>5. txs[f.tx].logs[i] = Event(f.kind, f.token, f.wallet, f.what)
  BY <1>3, <1>4 DEF Matches, About, Event, Log
<1> QED
  BY <1>2, <1>3, <1>5 DEF Verified, BearsOut

\* From the link in the row to the wallet of the request, which is the sender
\* of the transaction it has verified.
LEMMA ClaimsInv ==
    ASSUME IInv, [Next]_vars
    PROVE  ReadIsProven' /\ VerifiedIsTrue'
<1>1. FormsFit /\ ReadIsProven /\ VerifiedIsTrue /\ LinkedIsProven
  BY DEF IInv
<1>2. CASE UNCHANGED vars
  BY <1>1, <1>2 DEF vars, chain, ReadIsProven, VerifiedIsTrue
<1>3. ASSUME ChainGoesOn, NEW q \in Pages, stage[q] = "verified",
             stage'[q] = stage[q], form'[q] = form[q]
      PROVE  BearsOut(txs'[form'[q].tx], form'[q].wallet, form'[q])
  <2>1. form[q].tx \in Hashes /\ BearsOut(txs[form[q].tx], form[q].wallet, form[q])
    BY <1>1, <1>3 DEF FormsFit, Reporting, VerifiedIsTrue
  <2>2. txs'[form[q].tx] = txs[form[q].tx]
    BY <1>3, <2>1 DEF ChainGoesOn, BearsOut
  <2> QED
    BY <1>3, <2>1, <2>2
<1>4. CASE OtherStep
  <2>1. stage' = stage /\ form' = form /\ proven \subseteq proven' /\ ChainGoesOn
    BY <1>4, OtherSteps
  <2>2. ReadIsProven'
    BY <1>1, <2>1 DEF ReadIsProven
  <2> QED
    BY <1>3, <2>1, <2>2 DEF VerifiedIsTrue
<1>5. ASSUME NEW p \in Pages, PageStep(p)
      PROVE  ReadIsProven' /\ VerifiedIsTrue'
  <2>1. /\ ChainGoesOn /\ proven' = proven /\ linked' = linked
        /\ \A q \in Pages \ {p} : stage'[q] = stage[q] /\ form'[q] = form[q]
    BY <1>5, PageSteps, PageAndChain
  <2>2. ASSUME stage'[p] \in {"linked", "verified"} =>
                   form'[p].wallet # None /\ <<form'[p].account, form'[p].wallet>> \in proven
        PROVE  ReadIsProven'
    BY <1>1, <2>1, <2>2 DEF ReadIsProven
  <2>3. ASSUME stage'[p] = "verified" =>
                   BearsOut(txs'[form'[p].tx], form'[p].wallet, form'[p])
        PROVE  VerifiedIsTrue'
    BY <1>3, <2>1, <2>3 DEF VerifiedIsTrue
  <2>4. CASE stage'[p] \notin {"linked", "verified"}
    BY <2>2, <2>3, <2>4
  <2>5. CASE /\ stage'[p] = "linked" /\ form'[p] \in Form
             /\ form'[p].wallet = linked[form'[p].account] /\ form'[p].wallet # None
    BY <1>1, <2>2, <2>3, <2>5 DEF LinkedIsProven, Form
  <2>6. CASE /\ stage[p] = "linked" /\ stage'[p] = "verified"
             /\ Verified(form[p]) /\ form' = form /\ txs' = txs
    <3>1. form[p] \in Form /\ form[p].tx \in Hashes
      BY <1>1, <2>6 DEF FormsFit, Reporting
    <3>2. BearsOut(txs[form[p].tx], form[p].wallet, form[p])
      BY <2>6, <3>1, VerifiedBearsOut
    <3> QED
      BY <1>1, <2>2, <2>3, <2>6, <3>2 DEF ReadIsProven
  <2> QED
    BY <1>5, <2>4, <2>5, <2>6, PageSteps DEF Moves, SameReport
<1> QED
  BY <1>2, <1>4, <1>5, NextSteps

\* A row is written from a verified claim, and nothing it says of the chain
\* can change afterwards.
LEMMA RowsInv ==
    ASSUME IInv, [Next]_vars
    PROVE  RowsAreSent' /\ RecordsMatchChain'
<1> DEFINE Fits(row) ==
        LET tx == txs[row.tx]
        IN  /\ BearsOut(tx, tx.from, row)
            /\ <<row.account, tx.from>> \in proven
            /\ row.kind = "deploy" /\ tx.kind = "deploy" => Lists(tx.from, row.token)
           FitsNext(row) ==
        LET tx == txs'[row.tx]
        IN  /\ BearsOut(tx, tx.from, row)
            /\ <<row.account, tx.from>> \in proven'
            /\ row.kind = "deploy" /\ tx.kind = "deploy" =>
                   \E j \in DOMAIN tokensByCreator'[tx.from] :
                       tokensByCreator'[tx.from][j] = row.token
\* Rows that fit go on fitting.
<1>1. ASSUME ChainGoesOn, proven \subseteq proven',
             NEW row, row.tx \in Hashes, Fits(row)
      PROVE  row.tx \in Hashes' /\ FitsNext(row)
  <2>1. txs'[row.tx] = txs[row.tx] /\ row.tx \in Hashes'
    BY <1>1 DEF ChainGoesOn, BearsOut
  <2>2. txs[row.tx].from \in Wallets
    BY <1>1 DEF IInv, TypeOK, Tx, Hashes
  <2>3. ASSUME row.kind = "deploy", txs[row.tx].kind = "deploy"
        PROVE  \E j \in DOMAIN tokensByCreator'[txs[row.tx].from] :
                   tokensByCreator'[txs[row.tx].from][j] = row.token
    BY <1>1, <2>2, <2>3 DEF Lists, ChainGoesOn
  <2> QED
    BY <1>1, <2>1, <2>3
<1>2. rows \in Seq(Row) /\ \A i \in 1 .. Len(rows) : rows[i].tx \in Hashes /\ Fits(rows[i])
  <2>1. rows \in Seq(Row) /\ DOMAIN rows = 1 .. Len(rows)
    BY DEF IInv, TypeOK
  <2>2. \A i \in DOMAIN rows : Fits(rows[i])
    BY DEF IInv, RecordsMatchChain, Lists, BearsOut
  <2> HIDE DEF Fits
  <2> QED
    BY <2>1, <2>2 DEF IInv, RowsAreSent
<1>3. ASSUME \A i \in DOMAIN rows' : rows'[i].tx \in Hashes' /\ FitsNext(rows'[i])
      PROVE  RowsAreSent' /\ RecordsMatchChain'
  BY <1>3 DEF RowsAreSent, RecordsMatchChain, Lists, BearsOut
<1> HIDE DEF Fits, FitsNext
<1>4. CASE UNCHANGED vars
  <2>1. rows' = rows /\ proven' = proven /\ ChainGoesOn
    BY <1>4, ChainStands DEF vars, chain, factory
  <2> QED
    BY <1>1, <1>2, <1>3, <2>1
<1>5. CASE OtherStep
  <2>1. rows' = rows /\ proven \subseteq proven' /\ ChainGoesOn
    BY <1>5, OtherSteps
  <2> QED
    BY <1>1, <1>2, <1>3, <2>1
<1>6. ASSUME NEW p \in Pages, PageStep(p)
      PROVE  RowsAreSent' /\ RecordsMatchChain'
  <2>1. ChainGoesOn /\ proven \subseteq proven'
    BY <1>6, PageAndChain, PageSteps
  <2>2. CASE rows' = rows
    BY <1>1, <1>2, <1>3, <2>1, <2>2
  <2>3. CASE stage[p] = "verified" /\ rows' = Append(rows, RowOf(form[p]))
    <3> DEFINE row == RowOf(form[p])
               tx == txs[form[p].tx]
    <3>1. /\ form[p] \in Form /\ form[p].tx \in Hashes
          /\ BearsOut(tx, form[p].wallet, form[p])
          /\ <<form[p].account, form[p].wallet>> \in proven
      BY <2>3 DEF IInv, FormsFit, VerifiedIsTrue, ReadIsProven, Reporting
    <3>2. row.tx = form[p].tx /\ row.kind = form[p].kind /\ row.token = form[p].token
          /\ row.account = form[p].account /\ row.what = form[p].what
      BY DEF RowOf
    <3>3. tx.from = form[p].wallet /\ tx.status = "ok"
      BY <3>1 DEF BearsOut
    <3>4. tx.kind = "deploy" => Lists(tx.from, form[p].token)
      <4>1. PICK k \in DOMAIN tx.logs :
                tx.logs[k] = Event(form[p].kind, form[p].token, form[p].wallet, form[p].what)
        BY <3>1 DEF BearsOut
      <4>2. tx.logs[k].token = form[p].token
        BY <4>1 DEF Event
      <4>3. Listed(tx)
        BY <3>1 DEF IInv, DeployedIsListed
      <4> QED
        BY <3>3, <4>2, <4>3 DEF Listed
    <3> HIDE DEF row
    <3>5. row.tx \in Hashes /\ Fits(row)
      BY <3>1, <3>2, <3>3, <3>4 DEF Fits, BearsOut
    <3>6. /\ DOMAIN rows' = 1 .. (Len(rows) + 1) /\ rows'[Len(rows) + 1] = row
          /\ \A i \in 1 .. Len(rows) : rows'[i] = rows[i]
      BY <1>2, <2>3, Appending DEF row
    <3>7. \A i \in DOMAIN rows' : rows'[i].tx \in Hashes /\ Fits(rows'[i])
      <4>1. \A i \in DOMAIN rows' : i \in 1 .. Len(rows) \/ i = Len(rows) + 1
        BY <1>2, <3>6
      <4> QED
        BY <1>2, <3>5, <3>6, <4>1
    <3> QED
      BY <1>1, <1>3, <2>1, <3>7
  <2> QED
    BY <1>6, <2>2, <2>3, PageSteps, SendsOwn DEF Moves
<1> QED
  BY <1>4, <1>5, <1>6, NextSteps

\* A page has a transaction of its own to report, and reports it at most once.
LEMMA OnceInv ==
    ASSUME IInv, [Next]_vars
    PROVE  ReportedOnce' /\ NothingRecordedTwice'
<1>1. /\ rows \in Seq(Row) /\ FormsFit /\ RowsAreSent /\ ReportedOnce
      /\ NothingRecordedTwice
  BY DEF IInv, TypeOK
<1>2. CASE UNCHANGED vars
  BY <1>1, <1>2 DEF vars, ReportedOnce, ReportsOwn, NothingRecordedTwice
<1>3. CASE OtherStep
  BY <1>1, <1>3, OtherSteps DEF ReportedOnce, ReportsOwn, NothingRecordedTwice
<1>4. ASSUME NEW p \in Pages, PageStep(p)
      PROVE  ReportedOnce' /\ NothingRecordedTwice'
  <2>1. \A q \in Pages \ {p} : stage'[q] = stage[q] /\ form'[q] = form[q]
    BY <1>4, PageSteps
  \* The page goes on with its transaction, or with none of its own.
  <2>2. ASSUME rows' = rows,
               ReportsOwn(p)' => ReportsOwn(p) /\ form'[p].tx = form[p].tx
        PROVE  ReportedOnce' /\ NothingRecordedTwice'
    BY <1>1, <2>1, <2>2 DEF ReportedOnce, ReportsOwn, NothingRecordedTwice
  <2>3. CASE Sends(p)
    <3>1. rows' = rows /\ form'[p].tx \notin Hashes
      BY <2>3, SendsOwn
    <3>2. /\ \A i \in DOMAIN rows : rows[i].tx # form'[p].tx
          /\ \A q \in Pages \ {p} : ReportsOwn(q) => form[q].tx # form'[p].tx
      BY <1>1, <3>1 DEF RowsAreSent, FormsFit, ReportsOwn
    <3> QED
      BY <1>1, <2>1, <3>1, <3>2 DEF ReportedOnce, ReportsOwn, NothingRecordedTwice
  <2>4. CASE rows' = rows /\ ~form'[p].own
    BY <2>2, <2>4 DEF ReportsOwn
  <2>5. CASE rows' = rows /\ stage[p] \in Reporting /\ (form' = form \/ SameReport(p))
    BY <2>2, <2>5 DEF ReportsOwn, SameReport
  <2>6. CASE rows' = rows /\ stage'[p] \in {"idle", "error"}
    BY <2>2, <2>6 DEF ReportsOwn, Reporting
  <2>7. CASE stage[p] = "verified" /\ stage'[p] = "answered"
             /\ rows' = Append(rows, RowOf(form[p]))
    <3> DEFINE row == RowOf(form[p])
    <3>1. /\ row.tx = form[p].tx /\ row.own = form[p].own
          /\ stage[p] \in Reporting /\ stage'[p] \notin Reporting
      BY <2>7 DEF RowOf, Reporting
    <3> HIDE DEF row
    <3>2. /\ DOMAIN rows' = 1 .. (Len(rows) + 1) /\ rows'[Len(rows) + 1] = row
          /\ \A i \in 1 .. Len(rows) : rows'[i] = rows[i]
          /\ DOMAIN rows = 1 .. Len(rows) /\ Len(rows) \in Nat
      BY <1>1, <2>7, Appending DEF row
    <3>3. row.own => \A i \in DOMAIN rows : rows[i].own => rows[i].tx # row.tx
      BY <1>1, <3>1 DEF ReportedOnce, ReportsOwn
    <3>4. \A i \in DOMAIN rows' :
              (i \in DOMAIN rows /\ rows'[i] = rows[i]) \/ (i = Len(rows) + 1 /\ rows'[i] = row)
      BY <3>2
    <3>5. NothingRecordedTwice'
      BY <1>1, <3>3, <3>4 DEF NothingRecordedTwice
    <3>6. ASSUME NEW q \in Pages, ReportsOwn(q)'
          PROVE  /\ \A i \in DOMAIN rows' : rows'[i].own => rows'[i].tx # form'[q].tx
                 /\ \A r \in Pages \ {q} : ReportsOwn(r)' => form'[r].tx # form'[q].tx
      <4>1. q # p /\ form'[q] = form[q] /\ ReportsOwn(q)
        BY <2>1, <3>1, <3>6 DEF ReportsOwn
      <4>2. row.own => row.tx # form[q].tx
        BY <1>1, <3>1, <4>1 DEF ReportedOnce, ReportsOwn
      <4>3. \A i \in DOMAIN rows' : rows'[i].own => rows'[i].tx # form'[q].tx
        BY <1>1, <3>4, <4>1, <4>2 DEF ReportedOnce
      <4>4. \A r \in Pages \ {q} : ReportsOwn(r)' => form'[r].tx # form'[q].tx
        BY <1>1, <2>1, <3>1, <4>1 DEF ReportedOnce, ReportsOwn
      <4> QED
        BY <4>3, <4>4
    <3> QED
      BY <3>5, <3>6 DEF ReportedOnce
  <2> QED
    BY <1>4, <2>3, <2>4, <2>5, <2>6, <2>7, PageSteps, SendsOwn DEF Moves, Reporting
<1> QED
  BY <1>2, <1>3, <1>4, NextSteps

LEMMA LinkAndListInv ==
    ASSUME IInv, [Next]_vars
    PROVE  LinkedIsProven' /\ DeployedIsListed' /\ SomethingGiven'
<1>1. CASE UNCHANGED vars
  BY <1>1, ChainStands DEF vars, chain, factory, IInv, LinkedIsProven, ChainGoesOn
<1>2. CASE OtherStep
  BY <1>2, OtherSteps DEF ChainGoesOn
<1>3. ASSUME NEW p \in Pages, PageStep(p)
      PROVE  LinkedIsProven' /\ DeployedIsListed' /\ SomethingGiven'
  <2>1. linked' = linked /\ proven' = proven
    BY <1>3, PageSteps
  <2> QED
    BY <1>3, <2>1, PageAndChain DEF IInv, LinkedIsProven, ChainGoesOn
<1> QED
  BY <1>1, <1>2, <1>3, NextSteps

-----------------------------------------------------------------------------
LEMMA Initially ==
    ASSUME Init
    PROVE  IInv
<1>1. /\ txs = <<>> /\ rows = <<>> /\ known = {} /\ \A p \in Pages : stage[p] = "idle"
      /\ \A u \in Accounts : linked[u] = None
  BY DEF Init
<1>2. Hashes = {} /\ DOMAIN rows = {}
  BY <1>1 DEF Hashes
<1>3. TypeOK
  <2>1. FactoryTypeOK
    <3>1. \A S : <<>> \in Seq(S)
      OBVIOUS
    <3> QED
      BY <3>1 DEF Init, FactoryInit, FactoryTypeOK
  <2> QED
    BY <1>1, <2>1, StageNames DEF Init, TypeOK
<1>4. known \subseteq Hashes /\ DeployedIsListed /\ SomethingGiven /\ LinkedIsProven
  BY <1>1, <1>2 DEF DeployedIsListed, SomethingGiven, LinkedIsProven
<1>5. FormsFit /\ ReadIsProven /\ VerifiedIsTrue /\ ReportedOnce
  BY <1>1 DEF FormsFit, ReadIsProven, VerifiedIsTrue, ReportedOnce, ReportsOwn, Reporting
<1>6. RowsAreSent /\ RecordsMatchChain /\ NothingRecordedTwice
  BY <1>2 DEF RowsAreSent, RecordsMatchChain, NothingRecordedTwice
<1> QED
  BY <1>3, <1>4, <1>5, <1>6 DEF IInv

LEMMA Invariance == Spec => []IInv
<1>1. IInv /\ [Next]_vars => IInv'
  BY TypeInv, FormsInv, LinkAndListInv, ClaimsInv, RowsInv, OnceInv DEF IInv
<1> QED
  BY <1>1, Initially, PTL DEF Spec

\* Contract, chain, tables and pages keep to their types: in particular a
\* recorded row is about a token the chain has told of.
THEOREM TypeCorrect == Spec => []TypeOK
<1>1. IInv => TypeOK
  BY DEF IInv
<1> QED
  BY <1>1, Invariance, PTL

\* Nothing is in the history that no receipt says, whoever reports it, however
\* the wallet is relinked while the API verifies, and however far its node
\* lags: a successful transaction of a wallet proven for that account has an
\* event that says it, and a transaction that called the factory says only of
\* tokens the factory lists.
THEOREM HistoryIsTrue == Spec => []RecordsMatchChain
<1>1. IInv => RecordsMatchChain
  BY DEF IInv
<1> QED
  BY <1>1, Invariance, PTL

\* No two rows that pages have reported of their own are about one
\* transaction: each is sent and reported by one page, and a page that gets no
\* answer does not report again.
THEOREM HistoryHasNoDuplicates == Spec => []NothingRecordedTwice
<1>1. IInv => NothingRecordedTwice
  BY DEF IInv
<1> QED
  BY <1>1, Invariance, PTL
=============================================================================
