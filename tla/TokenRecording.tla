--------------------------- MODULE TokenRecording ---------------------------
(***************************************************************************)
(* How on-chain activity gets into the platform's history.  A page of      *)
(* TokenManagementPage sends a transaction from the browser's connected    *)
(* wallet, waits for it to be mined, and reports it; the API re-reads it   *)
(* from a node of its own (chainVerifier) and records it for the account   *)
(* the browser is logged in as, if the wallet linked to that account sent  *)
(* it.  A logged-in client may also report anything else about any         *)
(* transaction.  Linking (module WalletLink) goes on meanwhile, the node   *)
(* may lag behind the wallet's, and any response may be lost.  Recording   *)
(* is one step: that withTransaction makes it one is module AtomicRecords. *)
(***************************************************************************)
EXTENDS TokenFactory, FiniteSets

CONSTANTS
    Accounts,
    Pages,       \* open TokenManagementPages, each with one form in use at a time
    Names,       \* a token's name and symbol
    ForeignLogs, \* what a call of any other contract may leave in a receipt
    MaxTxs,      \* bound on the transactions sent
    MaxRows,     \* bound on the rows a client may add to by other reports
    None

ASSUME NoneIsNoWallet == None \notin Wallets

VARIABLES
    txs,    \* the transactions sent; the index is the hash
    known,  \* those the API's node has a receipt for
    linked, \* column wallet_address
    proven, \* history: accounts with each wallet they have had linked
    rows,   \* tables tokens and transactions: what was recorded, for whom
    stage,  \* where each page stands
    form    \* what each page is reporting

chain == <<txs, known>>
vars == <<factory, chain, linked, proven, rows, stage, form>>

Kinds == {"deploy", "transfer"}

\* The address of all contracts but the factory and its tokens, which count
\* from 1.
Elsewhere == 0

\* An event: TokenCreated of token, its creator and its name, or Transfer
\* emitted by token, with sender and recipient.  The others, and a Transfer
\* that mints, which has no sender, match nothing and are left out.
Log == [kind : Kinds, token : Nat, by : Wallets, what : Names \cup Wallets]

ASSUME ForeignLogsAreLogs == ForeignLogs \subseteq Seq(Log)

\* A call of the factory, of a token or of another contract, with the name or
\* the recipient given.  Status "pending" is not mined yet, "failed" reverted.
Tx == [kind : Kinds \cup {"other"}, from : Wallets, token : Nat,
       what : Names \cup Wallets \cup {None}, status : {"pending", "ok", "failed"},
       logs : Seq(Log)]

\* What is reported, for which account, the wallet the API has read, and
\* whether the page reports its own transaction.
Form == [kind : Kinds, account : Accounts, tx : Nat, token : Nat,
         what : Names \cup Wallets \cup {None}, wallet : Wallets \cup {None},
         own : BOOLEAN]
NoForm == [idle |-> TRUE]

\* The row that records a form; ids and texts are left out, so the count of
\* equal rows is kept.
Row == [kind : Kinds, account : Accounts, tx : Nat, token : Nat,
        what : Names \cup Wallets \cup {None}, own : BOOLEAN]

Waiting == {"mining"}
AtTheApi == {"posted", "linked", "verified"}
Stages == {"idle", "answered", "error"} \cup Waiting \cup AtTheApi

TypeOK ==
    /\ FactoryTypeOK
    /\ txs \in Seq(Tx)
    /\ known \in SUBSET Nat
    /\ linked \in [Accounts -> Wallets \cup {None}]
    /\ proven \in SUBSET (Accounts \X Wallets)
    /\ rows \in Seq(Row)
    /\ stage \in [Pages -> Stages]
    /\ form \in [Pages -> Form \cup {NoForm}]

Init ==
    /\ FactoryInit
    /\ txs = <<>>
    /\ known = {}
    /\ linked = [u \in Accounts |-> None]
    /\ proven = {}
    /\ rows = <<>>
    /\ stage = [p \in Pages |-> "idle"]
    /\ form = [p \in Pages |-> NoForm]

-----------------------------------------------------------------------------
Goto(p, s) == stage' = [stage EXCEPT ![p] = s]

\* An exception in the page, or an error for an answer; of the report nothing
\* is kept.
Throw(p) == Goto(p, "error") /\ form' = [form EXCEPT ![p] = NoForm]

Recorded(u, t) ==
    \E i \in DOMAIN rows : rows[i].kind = "deploy" /\ rows[i].account = u
                                                   /\ rows[i].token = t

Send(p, u, tx) ==
    /\ Len(txs) < MaxTxs
    /\ txs' = Append(txs, tx)
    /\ form' = [form EXCEPT ![p] =
           [kind |-> tx.kind, account |-> u, tx |-> Len(txs'), token |-> tx.token,
            what |-> tx.what, wallet |-> None, own |-> TRUE]]
    /\ Goto(p, "mining")
    /\ UNCHANGED <<factory, known, linked, proven, rows>>

NewTx(kind, w, token, what) ==
    [kind |-> kind, from |-> w, token |-> token, what |-> what,
     status |-> "pending", logs |-> <<>>]

\* handleDeployToken: the user u of page p has connected wallet w, linked to u
\* or not.  The token's address is known only from the receipt.
DeployToken(p, u, w, name) ==
    /\ stage[p] = "idle"
    /\ Send(p, u, NewTx("deploy", w, Elsewhere, name))

\* handleTransfer: of a token in the list the API has returned.
TransferToken(p, u, w, t, to) ==
    /\ stage[p] = "idle"
    /\ Recorded(u, t)
    /\ Send(p, u, NewTx("transfer", w, t, to))

\* A wallet calls another contract, outside the platform.
CallElsewhere(w) ==
    /\ Len(txs) < MaxTxs
    /\ txs' = Append(txs, NewTx("other", w, Elsewhere, None))
    /\ UNCHANGED <<factory, known, linked, proven, rows, stage, form>>

Executed(tx, token, status, logs) ==
    [kind |-> tx.kind, from |-> tx.from, token |-> token, what |-> tx.what,
     status |-> status, logs |-> logs]

Event(kind, token, by, what) ==
    [kind |-> kind, token |-> token, by |-> by, what |-> what]

\* The chain executes a transaction: the factory deploys and tells of it, a
\* token of its moves and tells of it, any other contract tells what it likes,
\* or the call reverts.
Mine(h) ==
    LET tx == txs[h]
    IN  /\ tx.status = "pending"
        /\ \/ /\ tx.kind = "deploy"
              /\ createToken(tx.from)
              /\ txs' = [txs EXCEPT ![h] = Executed(tx, NewToken, "ok",
                     <<Event("deploy", NewToken, tx.from, tx.what)>>)]
           \/ /\ tx.kind = "transfer"
              /\ tx.token \in isFactoryToken
              /\ txs' = [txs EXCEPT ![h] = Executed(tx, tx.token, "ok",
                     <<Event("transfer", tx.token, tx.from, tx.what)>>)]
              /\ UNCHANGED factory
           \/ /\ tx.kind # "deploy"
              /\ tx.token \notin isFactoryToken
              /\ \E logs \in ForeignLogs :
                     txs' = [txs EXCEPT ![h] = Executed(tx, tx.token, "ok", logs)]
              /\ UNCHANGED factory
           \/ /\ txs' = [txs EXCEPT ![h] = Executed(tx, tx.token, "failed", <<>>)]
              /\ UNCHANGED factory
    /\ UNCHANGED <<known, linked, proven, rows, stage, form>>

\* The API's node learns of a mined transaction, in its own time.
Propagate(h) ==
    /\ txs[h].status # "pending"
    /\ known' = known \cup {h}
    /\ UNCHANGED <<factory, txs, linked, proven, rows, stage, form>>

\* tx.wait() returns the receipt, or throws if the transaction reverted; the
\* address of a new token is read from its event, and the page posts.
Report(p) ==
    /\ stage[p] = "mining"
    /\ LET tx == txs[form[p].tx]
       IN  \/ /\ tx.status = "ok"
              /\ Goto(p, "posted")
              /\ form' = [form EXCEPT ![p].token = tx.token]
           \/ tx.status = "failed" /\ Throw(p)
    /\ UNCHANGED <<factory, chain, linked, proven, rows>>

\* Any client logged in as u posts what it likes of a transaction.
Claim(p, u, kind, h, t, what) ==
    /\ stage[p] = "idle"
    /\ Len(rows) < MaxRows
    /\ form' = [form EXCEPT ![p] =
           [kind |-> kind, account |-> u, tx |-> h, token |-> t, what |-> what,
            wallet |-> None, own |-> FALSE]]
    /\ Goto(p, "posted")
    /\ UNCHANGED <<factory, chain, linked, proven, rows>>

-----------------------------------------------------------------------------
(* recordToken and recordTokenTransfer *)

\* requireLinkedWallet
RequireLinkedWallet(p) ==
    /\ stage[p] = "posted"
    /\ LET wallet == linked[form[p].account]
       IN  \/ /\ wallet # None
              /\ Goto(p, "linked")
              /\ form' = [form EXCEPT ![p].wallet = wallet]
           \/ wallet = None /\ Throw(p)
    /\ UNCHANGED <<factory, chain, linked, proven, rows>>

\* getSuccessfulReceipt, or null where the node knows of none.
Receipt(h) == IF h \in known THEN txs[h] ELSE [status |-> "null"]

About(log, f) == log.kind = f.kind /\ log.token = f.token

\* The log that decides: of events TokenCreated, from whatever contract, only
\* the first about the token; of the token's Transfers, any that fits.
Matches(logs, i, f) ==
    /\ About(logs[i], f)
    /\ logs[i].by = f.wallet
    /\ logs[i].what = f.what
    /\ f.kind = "deploy" => \A j \in 1 .. i - 1 : ~About(logs[j], f)

\* verifyTokenCreation and verifyTokenTransfer without the check of the sender
\* of the transaction, and of the event.
VerifiedAnySender(f) ==
    LET receipt == Receipt(f.tx)
    IN  /\ receipt.status = "ok"
        /\ \E i \in DOMAIN receipt.logs :
               About(receipt.logs[i], f) /\ receipt.logs[i].what = f.what

\* verifyTokenCreation and verifyTokenTransfer.
Verified(f) ==
    LET receipt == Receipt(f.tx)
    IN  /\ receipt.status = "ok"
        /\ receipt.from = f.wallet
        /\ \E i \in DOMAIN receipt.logs : Matches(receipt.logs, i, f)

\* The RPC call may also fail: 502.
VerifyClaim(p) ==
    /\ stage[p] = "linked"
    /\ \/ Verified(form[p]) /\ Goto(p, "verified") /\ UNCHANGED form
       \/ Throw(p)
    /\ UNCHANGED <<factory, chain, linked, proven, rows>>

RowOf(f) == [kind |-> f.kind, account |-> f.account, tx |-> f.tx, token |-> f.token,
             what |-> f.what, own |-> f.own]

\* The transaction of the database commits, or the handler answers an error.
RecordClaim(p) ==
    /\ stage[p] = "verified"
    /\ \/ /\ rows' = Append(rows, RowOf(form[p]))
          /\ Goto(p, "answered")
          /\ UNCHANGED form
       \/ UNCHANGED rows /\ Throw(p)
    /\ UNCHANGED <<factory, chain, linked, proven>>

\* A page that posts again when it got no answer.
LoseResponseRetrying(p) ==
    /\ stage[p] = "answered"
    /\ Goto(p, "posted")
    /\ UNCHANGED <<factory, chain, linked, proven, rows, form>>

\* The answer is lost on the way: to the page that is an error like any other.
LoseResponse(p) ==
    /\ stage[p] = "answered"
    /\ Throw(p)
    /\ UNCHANGED <<factory, chain, linked, proven, rows>>

\* Clearing the form only on success keeps the button disabled after an error.
SettleOnlySuccess(p) ==
    /\ stage[p] = "answered"
    /\ Goto(p, "idle")
    /\ form' = [form EXCEPT ![p] = NoForm]
    /\ UNCHANGED <<factory, chain, linked, proven, rows>>

\* A toast either way; finally { setDeploying(false) }.
Settle(p) ==
    /\ stage[p] \in {"answered", "error"}
    /\ Goto(p, "idle")
    /\ form' = [form EXCEPT ![p] = NoForm]
    /\ UNCHANGED <<factory, chain, linked, proven, rows>>

-----------------------------------------------------------------------------
\* linkWallet and unlinkWallet, as module WalletLink shows them to work.
Link(u, w) ==
    /\ \A v \in Accounts \ {u} : linked[v] # w
    /\ linked' = [linked EXCEPT ![u] = w]
    /\ proven' = proven \cup {<<u, w>>}
    /\ UNCHANGED <<factory, chain, rows, stage, form>>

Unlink(u) ==
    /\ linked[u] # None
    /\ linked' = [linked EXCEPT ![u] = None]
    /\ UNCHANGED <<factory, chain, proven, rows, stage, form>>

PauseFactory ==
    /\ \E on \in BOOLEAN : setFactoryPaused(on)
    /\ UNCHANGED <<chain, linked, proven, rows, stage, form>>

Proceed(p) ==
    \/ Report(p) \/ RequireLinkedWallet(p) \/ VerifyClaim(p) \/ RecordClaim(p)
    \/ Settle(p)

Next ==
    \/ \E p \in Pages :
         \/ \E u \in Accounts, w \in Wallets :
              \/ \E name \in Names : DeployToken(p, u, w, name)
              \/ \E t \in isFactoryToken \cup {Elsewhere}, to \in Wallets :
                     TransferToken(p, u, w, t, to)
         \/ \E u \in Accounts, h \in DOMAIN txs, t \in isFactoryToken \cup {Elsewhere} :
              \/ \E name \in Names : Claim(p, u, "deploy", h, t, name)
              \/ \E to \in Wallets : Claim(p, u, "transfer", h, t, to)
         \/ Proceed(p) \/ LoseResponse(p)
    \/ \E h \in DOMAIN txs : Mine(h) \/ Propagate(h)
    \/ \E w \in Wallets : CallElsewhere(w)
    \/ \E u \in Accounts : Unlink(u) \/ \E w \in Wallets : Link(u, w)
    \/ PauseFactory

\* The chain mines what it is sent; page and API finish what they have started.
Fairness ==
    /\ \A h \in 1 .. MaxTxs : WF_vars(h \in DOMAIN txs /\ Mine(h))
    /\ \A p \in Pages : WF_vars(Proceed(p))

Spec == Init /\ [][Next]_vars /\ Fairness
-----------------------------------------------------------------------------
\* The history says only what the chain says, whoever reports: a row is of a
\* successful transaction, sent by a wallet its account has proven to control,
\* whose receipt tells of that token, that wallet, and that name or recipient.
\* The event may be any contract's; if the transaction called the factory, the
\* factory lists the token under the wallet.
RecordsMatchChain ==
    \A i \in DOMAIN rows :
        LET row == rows[i]
            tx  == txs[row.tx]
        IN  /\ tx.status = "ok"
            /\ <<row.account, tx.from>> \in proven
            /\ \E k \in DOMAIN tx.logs :
                   tx.logs[k] = Event(row.kind, row.token, tx.from, row.what)
            /\ row.kind = "deploy" /\ tx.kind = "deploy" =>
                   \E j \in DOMAIN tokensByCreator[tx.from] :
                       tokensByCreator[tx.from][j] = row.token

\* The tables have no UNIQUE tx_hash: that a page's own transaction is not
\* recorded for it twice rests on the page, which never repeats a report that
\* went unanswered.
NothingRecordedTwice ==
    \A i, j \in DOMAIN rows :
        i # j /\ rows[i].own /\ rows[j].own => rows[i].tx # rows[j].tx

\* A page that has sent a transaction comes back to accept the next one,
\* whatever fails on the way.
PagesComeBack == \A p \in Pages : stage[p] # "idle" ~> stage[p] = "idle"
=============================================================================
