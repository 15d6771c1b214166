----------------------------- MODULE ChainPanel -----------------------------
(***************************************************************************)
(* The blockchain panel of frontend/src/pages/DashboardPage.tsx with the   *)
(* calls of services/web3Service.ts below it.  The panel asks the registry *)
(* about the connected wallet whenever the wallet changes, and once more   *)
(* after a registration; every question races a timer of five seconds, and *)
(* whichever question is settled last fills the panel.  A wallet stands    *)
(* for an address on one chain.                                            *)
(***************************************************************************)
EXTENDS Naturals, SequencesExt

CONSTANTS
    Wallets,
    None,
    MaxQueries \* bound: questions under way when the wallet changes

ASSUME NoneIsNoWallet == None \notin Wallets

VARIABLES
    wallet,       \* address: the connected wallet, or None
    queries,      \* calls of refreshChainStatus under way, in order
    onChainUser,  \* the wallet whose on-chain account is shown, or None
    chainLoading,
    registering,  \* handleRegisterOnChain: where it is, for whom, who signs
    registered,   \* wallets registered in the contract of deployments.json
    deployed,     \* there is a contract at that address
    disturbed     \* history: see Disturb

panel == <<wallet, queries, onChainUser, chainLoading, registering>>
chain == <<registered, deployed>>
panelVars == <<panel, chain, disturbed>>

MaybeWallet == Wallets \cup {None}

Idle == [at |-> "idle", for |-> None, signer |-> None]

ChainPanelTypeOK ==
    /\ {wallet, onChainUser} \subseteq MaybeWallet
    /\ queries \in Seq([of : Wallets, read : BOOLEAN, result : MaybeWallet,
                        overtaken : BOOLEAN, byHandler : BOOLEAN])
    /\ {chainLoading, deployed, disturbed} \subseteq BOOLEAN
    /\ registering \in [at : {"idle", "signer", "sign", "refresh"},
                        for : MaybeWallet, signer : MaybeWallet]
    /\ registered \subseteq Wallets

ChainPanelInit ==
    /\ wallet = None
    /\ queries = <<>>
    /\ onChainUser = None
    /\ chainLoading = FALSE
    /\ registering = Idle
    /\ registered \in SUBSET Wallets
    /\ deployed = TRUE
    /\ disturbed = FALSE

Query(w, byHandler) == [of |-> w, read |-> FALSE, result |-> None,
                        overtaken |-> FALSE, byHandler |-> byHandler]

\* What the panel may be wrong about is not the panel's answer to itself: a
\* question settled after a later one, a timer, a node that starts anew, a
\* registration of the wallet elsewhere, or a wallet changed while the handler
\* holds the old one.
Disturb(condition) == disturbed' = (disturbed \/ condition)

-----------------------------------------------------------------------------
\* AppKit reports another wallet or none; the effect asks about it.  There is
\* no cleanup: questions about the old wallet go on.
ChangeWallet(w) ==
    /\ Len(queries) < MaxQueries
    /\ wallet # w
    /\ wallet' = w
    /\ queries' = IF w = None THEN queries ELSE Append(queries, Query(w, FALSE))
    /\ chainLoading' = (chainLoading \/ w # None)
    /\ Disturb(registering # Idle)
    /\ UNCHANGED <<onChainUser, registering, chain>>

\* getOnChainUser: the account, or null if there is none or the call fails.
ReadChain(i) ==
    /\ ~queries[i].read
    /\ queries' = [queries EXCEPT ![i].read = TRUE,
           ![i].result = IF deployed /\ queries[i].of \in registered
                         THEN queries[i].of ELSE None]
    /\ UNCHANGED <<wallet, onChainUser, chainLoading, registering, chain, disturbed>>

\* setOnChainUser, the finally block, and the handler's own finally block if
\* it is the handler that waits.
Settle(i, result) ==
    /\ onChainUser' = result
    /\ chainLoading' = FALSE
    /\ queries' = RemoveAt([j \in DOMAIN queries |->
                      [queries[j] EXCEPT !.overtaken = @ \/ j < i]], i)
    /\ registering' = IF queries[i].byHandler THEN Idle ELSE registering
    /\ UNCHANGED <<wallet, chain>>

Answer(i) ==
    /\ queries[i].read
    /\ Settle(i, queries[i].result)
    /\ Disturb(queries[i].overtaken)

\* Nothing but the node's answer ends the wait.
NoTimeout(i) == FALSE /\ UNCHANGED panelVars

\* The timer wins the race; an answer that comes later is dropped.
Timeout(i) ==
    /\ Settle(i, None)
    /\ Disturb(TRUE)

-----------------------------------------------------------------------------
\* The button is there while the panel says "Not registered on-chain".
ClickRegister ==
    /\ wallet # None
    /\ ~chainLoading
    /\ onChainUser = None
    /\ registering = Idle
    /\ registering' = [at |-> "signer", for |-> wallet, signer |-> None]
    /\ UNCHANGED <<wallet, queries, onChainUser, chainLoading, chain, disturbed>>

\* provider.getSigner(): the wallet connected by now.
GetSigner ==
    /\ registering.at = "signer"
    /\ registering' = IF wallet = None THEN Idle
                      ELSE [registering EXCEPT !.at = "sign", !.signer = wallet]
    /\ UNCHANGED <<wallet, queries, onChainUser, chainLoading, chain, disturbed>>

\* Mined, but nothing is asked again.
RegisteredUnrefreshed ==
    /\ registering.at = "sign"
    /\ deployed => registering.signer \notin registered
    /\ registered' = IF deployed THEN registered \cup {registering.signer} ELSE registered
    /\ registering' = Idle
    /\ UNCHANGED <<wallet, queries, onChainUser, chainLoading, deployed, disturbed>>

\* The transaction is mined and the panel refreshed, with the wallet of the
\* click.  Where no contract is deployed it is mined all the same.
Registered ==
    /\ registering.at = "sign"
    /\ deployed => registering.signer \notin registered
    /\ registered' = IF deployed THEN registered \cup {registering.signer} ELSE registered
    /\ registering' = [registering EXCEPT !.at = "refresh"]
    /\ queries' = Append(queries, Query(registering.for, TRUE))
    /\ chainLoading' = TRUE
    /\ UNCHANGED <<wallet, onChainUser, deployed, disturbed>>

\* Declined in the wallet, or reverted: registered already, or paused.
RegistrationFails ==
    /\ registering.at = "sign"
    /\ registering' = Idle
    /\ UNCHANGED <<wallet, queries, onChainUser, chainLoading, chain, disturbed>>

-----------------------------------------------------------------------------
\* Another tab or device, or forceRegister.ts, registers a wallet.
RegisterElsewhere(w) ==
    /\ deployed
    /\ w \notin registered
    /\ registered' = registered \cup {w}
    /\ Disturb(w = wallet)
    /\ UNCHANGED <<panel, deployed>>

\* A local node starts anew with an empty chain ...
NodeRestarts ==
    /\ deployed
    /\ deployed' = FALSE
    /\ registered' = {}
    /\ Disturb(TRUE)
    /\ UNCHANGED panel

\* ... and deploy.ts puts an empty registry at the same address.
Redeploy ==
    /\ ~deployed
    /\ deployed' = TRUE
    /\ UNCHANGED <<panel, registered, disturbed>>

ChainPanelNext ==
    \/ \E w \in MaybeWallet : ChangeWallet(w)
    \/ \E i \in DOMAIN queries : ReadChain(i) \/ Answer(i) \/ Timeout(i)
    \/ ClickRegister \/ GetSigner \/ Registered \/ RegistrationFails
    \/ \E w \in Wallets : RegisterElsewhere(w)
    \/ NodeRestarts \/ Redeploy

\* The browser's timers fire; a node owes no answer.
ChainPanelFairness == WF_panelVars(queries # <<>> /\ Timeout(1))

-----------------------------------------------------------------------------
\* Once nothing is under way, the panel shows the connected wallet's account
\* on the chain, and none of another wallet, unless something disturbed it.
PanelShowsConnectedWallet ==
    queries = <<>> /\ registering = Idle /\ wallet # None /\ ~disturbed =>
        onChainUser = IF wallet \in registered THEN wallet ELSE None

\* "so we don't hang indefinitely if the local node is unreachable": the
\* panel's spinner stops although no node ever answers.
PanelNeverHangs == chainLoading ~> ~chainLoading
=============================================================================
