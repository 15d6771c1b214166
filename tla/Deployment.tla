----------------------------- MODULE Deployment -----------------------------
(***************************************************************************)
(* blockchain/scripts/deploy.ts, the PlatformRegistry contract it fills,   *)
(* and the file deployments.json it leaves to the frontend.  The script    *)
(* deploys three contracts, names two of them in the registry, reads the   *)
(* file and writes it back with its own network's entry replaced; it may   *)
(* die between any two steps.  The address of a contract is a function of  *)
(* the deployer's nonce, so a local node that starts anew gives the same   *)
(* addresses out again; an address is the number of the transaction here.  *)
(***************************************************************************)
EXTENDS Naturals, Sequences

CONSTANTS
    Networks,
    LocalNetworks, \* those whose node starts with an empty chain
    MaxTx          \* bound: transactions of the deployer on each network

ASSUME LocalAreNetworks == LocalNetworks \subseteq Networks
ASSUME SomeNetwork == Networks # {}

VARIABLES
    txs,       \* the deployer's transactions: what each deployed, or "call"
    contracts, \* _contracts of the registries: <<registry, name, address>>
    stage,     \* where the script for each network stands
    run,       \* the addresses it has deployed so far
    copy,      \* the entries it has read from the file
    file,      \* deployments.json: an entry for each network, or not JSON
    published, \* history: the last entry written for the present chain
    garbled    \* history: two writes overlapped, or one was cut short

deployment == <<txs, contracts, stage, run, copy, file, published, garbled>>

Names == {"UserRegistry", "TokenFactory"}
Kinds == Names \cup {"PlatformRegistry"}
NoEntry == [k \in Kinds |-> 0]
Entry == [Kinds -> Nat]
Entries == [Networks -> Entry]
Empty == [n \in Networks |-> NoEntry]
Corrupt == <<>> \* no entry can be parsed

Deploying == [PlatformRegistry |-> "UserRegistry", UserRegistry |-> "TokenFactory",
              TokenFactory |-> "nameUserRegistry"]
Naming == [UserRegistry |-> "nameTokenFactory", TokenFactory |-> "read"]
NamingStage == [UserRegistry |-> "nameUserRegistry", TokenFactory |-> "nameTokenFactory"]
Stages == {"idle", "read", "write"} \cup Kinds \cup {NamingStage[k] : k \in Names}

DeploymentTypeOK ==
    /\ txs \in [Networks -> Seq(Kinds \cup {"call"})]
    /\ contracts \in [Networks -> SUBSET (Nat \X Names \X Nat)]
    /\ stage \in [Networks -> Stages]
    /\ run \in [Networks -> Entry]
    /\ copy \in [Networks -> Entries]
    /\ file \in Entries \cup {Corrupt}
    /\ published \in Entries
    /\ garbled \in BOOLEAN

DeploymentInit ==
    /\ txs = [n \in Networks |-> <<>>]
    /\ contracts = [n \in Networks |-> {}]
    /\ stage = [n \in Networks |-> "idle"]
    /\ run = [n \in Networks |-> NoEntry]
    /\ copy = [n \in Networks |-> Empty]
    /\ file = Empty
    /\ published = Empty
    /\ garbled = FALSE

-----------------------------------------------------------------------------
Mine(n, what) ==
    /\ Len(txs[n]) < MaxTx[n]
    /\ txs' = [txs EXCEPT ![n] = Append(@, what)]

Goto(n, s) == stage' = [stage EXCEPT ![n] = s]

\* The process ends, and its variables with it.
Exit(n) ==
    /\ Goto(n, "idle")
    /\ run' = [run EXCEPT ![n] = NoEntry]
    /\ copy' = [copy EXCEPT ![n] = Empty]

Start(n) ==
    /\ stage[n] = "idle"
    /\ Goto(n, "PlatformRegistry")
    /\ UNCHANGED <<txs, contracts, run, copy, file, published, garbled>>

\* deploy, waitForDeployment, getAddress
DeployContract(n, kind) ==
    /\ stage[n] = kind
    /\ Mine(n, kind)
    /\ run' = [run EXCEPT ![n][kind] = Len(txs'[n])]
    /\ Goto(n, Deploying[kind])
    /\ UNCHANGED <<contracts, copy, file, published, garbled>>

\* The last name is never waited for.
SetContractUnlessLast(n, name) ==
    /\ stage[n] = NamingStage[name]
    /\ Mine(n, "call")
    /\ contracts' = IF name = "TokenFactory" THEN contracts
                    ELSE [contracts EXCEPT ![n] =
                        @ \cup {<<run[n]["PlatformRegistry"], name, run[n][name]>>}]
    /\ Goto(n, Naming[name])
    /\ UNCHANGED <<run, copy, file, published, garbled>>

\* platformRegistry.setContract by its owner, on a registry of this run.
SetContract(n, name) ==
    /\ stage[n] = NamingStage[name]
    /\ Mine(n, "call")
    /\ contracts' = [contracts EXCEPT ![n] =
           @ \cup {<<run[n]["PlatformRegistry"], name, run[n][name]>>}]
    /\ Goto(n, Naming[name])
    /\ UNCHANGED <<run, copy, file, published, garbled>>

\* Without reading what is there.
ReadNothing(n) ==
    /\ stage[n] = "read"
    /\ copy' = [copy EXCEPT ![n] = Empty]
    /\ Goto(n, "write")
    /\ UNCHANGED <<txs, contracts, run, file, published, garbled>>

\* A file that is not JSON counts as empty.
ReadFile(n) ==
    /\ stage[n] = "read"
    /\ copy' = [copy EXCEPT ![n] = IF file = Corrupt THEN Empty ELSE file]
    /\ Goto(n, "write")
    /\ UNCHANGED <<txs, contracts, run, file, published, garbled>>

\* After an await of the chain id.
WriteFile(n) ==
    /\ stage[n] = "write"
    /\ file' = [copy[n] EXCEPT ![n] = run[n]]
    /\ published' = [published EXCEPT ![n] = run[n]]
    /\ garbled' = (garbled \/ \E m \in Networks \ {n} : stage[m] = "write")
    /\ Exit(n)
    /\ UNCHANGED <<txs, contracts>>

\* A transaction is refused, the node is gone, or the process is killed ...
Die(n) ==
    /\ stage[n] # "idle"
    /\ Exit(n)
    /\ UNCHANGED <<txs, contracts, file, published, garbled>>

\* ... in the middle of writeFileSync.
DieWriting(n) ==
    /\ stage[n] = "write"
    /\ file' = Corrupt
    /\ garbled' = TRUE
    /\ Exit(n)
    /\ UNCHANGED <<txs, contracts, published>>

\* forceRegister.ts: the deployer sends the account one ether; the call of
\* registerUser that follows has three arguments, and ethers refuses it.
ForceRegister(n) ==
    /\ n \in LocalNetworks
    /\ stage[n] = "idle"
    /\ Mine(n, "call")
    /\ UNCHANGED <<contracts, stage, run, copy, file, published, garbled>>

\* The local node starts anew; a script that was using it dies.
RestartNode(n) ==
    /\ n \in LocalNetworks
    /\ txs[n] # <<>>
    /\ txs' = [txs EXCEPT ![n] = <<>>]
    /\ contracts' = [contracts EXCEPT ![n] = {}]
    /\ published' = [published EXCEPT ![n] = NoEntry]
    /\ Exit(n)
    /\ UNCHANGED <<file, garbled>>

DeploymentNext ==
    \E n \in Networks :
        \/ Start(n) \/ ReadFile(n) \/ WriteFile(n)
        \/ \E kind \in Kinds : DeployContract(n, kind)
        \/ \E name \in Names : SetContract(n, name)
        \/ Die(n) \/ DieWriting(n) \/ ForceRegister(n) \/ RestartNode(n)

-----------------------------------------------------------------------------
\* An entry the frontend can use: a contract of the right kind at each of its
\* addresses, and a registry that names the other two.
Usable(n, e) ==
    /\ \A kind \in Kinds : e[kind] \in DOMAIN txs[n] /\ txs[n][e[kind]] = kind
    /\ \A name \in Names : <<e["PlatformRegistry"], name, e[name]>> \in contracts[n]

\* "The UI always has fresh, correct values" (deploy.ts): wherever the script
\* dies, and however often it is run again, the entry last written for a chain
\* is usable as long as that chain is.
PublishedIsUsable ==
    \A n \in Networks : published[n] # NoEntry => Usable(n, published[n])

\* Deploying to one network leaves the entries of the others, unless two
\* scripts have read the file before either wrote it, or a write was cut short.
FileHasEveryNetwork ==
    ~garbled => /\ file # Corrupt
                /\ \A n \in Networks : published[n] # NoEntry => file[n] = published[n]
=============================================================================
