------------------------------ MODULE MCAlone -------------------------------
(***************************************************************************)
(* Four parts that share no state with each other or with the other runs:  *)
(* a token contract, deploy.ts, the migration script, and the chain panel  *)
(* of the dashboard.  A behaviour is that of one part, chosen at the       *)
(* start; the others stay in an initial state of theirs.  A product of the *)
(* four would only multiply their states.                                  *)
(***************************************************************************)
EXTENDS CustomToken, Deployment, Migration, ChainPanel

\* One run on each chain, and on the public one a second that dies early.
DeployerTxs == [n \in Networks |-> IF n \in LocalNetworks THEN 5 ELSE 6]

\* The parts that do not run need a value of the right type all the same.
ASSUME SomeUser == Users # {} /\ Emails # {}

VARIABLE part

AloneInit ==
    /\ part \in {"token", "deployment", "migration", "panel"}
    /\ Init
    /\ part # "token" => totalSupply = 0 /\ maxSupply = 0
    /\ DeploymentInit
    /\ ChainPanelInit
    /\ part # "panel" => registered = {}
    /\ IF part = "migration" THEN MigrationInit
       ELSE /\ email = [u \in Users |-> CHOOSE e \in Emails : TRUE]
            /\ userOf = [x \in Rows |-> CHOOSE u \in Users : TRUE]
            /\ source = Nothing /\ target = Nothing /\ written = Nothing
            /\ pc = "idle" /\ force = FALSE /\ todo = {} /\ touched = FALSE

AloneNext ==
    \/ /\ part = "token" /\ Next
       /\ UNCHANGED <<part, deployment, migration, panelVars>>
    \/ /\ part = "deployment" /\ DeploymentNext
       /\ UNCHANGED <<part, vars, migration, panelVars>>
    \/ /\ part = "migration" /\ MigrationNext
       /\ UNCHANGED <<part, vars, deployment, panelVars>>
    \/ /\ part = "panel" /\ ChainPanelNext
       /\ UNCHANGED <<part, vars, deployment, migration>>

AloneSpec ==
    AloneInit /\ [][AloneNext]_<<part, vars, deployment, migration, panelVars>>
              /\ ChainPanelFairness

\* Every variable of the four parts keeps its type, the width of uint256 among
\* them: no operation of the token wraps around.
AloneTypeOK ==
    TypeOK /\ DeploymentTypeOK /\ MigrationTypeOK /\ ChainPanelTypeOK
=============================================================================
