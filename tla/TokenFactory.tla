---------------------------- MODULE TokenFactory ----------------------------
(***************************************************************************)
(* blockchain/contracts/TokenFactory.sol.  A call is one step; one that    *)
(* reverts changes nothing.  The n-th token deployed has address n: CREATE *)
(* never yields an address twice.  Names, symbols and supplies are checked *)
(* for being empty and otherwise only passed on, so they are left out.     *)
(***************************************************************************)
EXTENDS Naturals, Sequences

CONSTANT Wallets \* addresses that send transactions

VARIABLES
    allTokens,       \* _allTokens
    tokensByCreator, \* _tokensByCreator
    isFactoryToken,  \* isFactoryToken, as the set of its members
    factoryPaused    \* Pausable

factory == <<allTokens, tokensByCreator, isFactoryToken, factoryPaused>>

FactoryTypeOK ==
    /\ allTokens \in Seq(Nat)
    /\ tokensByCreator \in [Wallets -> Seq(Nat)]
    /\ isFactoryToken \in SUBSET Nat
    /\ factoryPaused \in BOOLEAN

FactoryInit ==
    /\ allTokens = <<>>
    /\ tokensByCreator = [w \in Wallets |-> <<>>]
    /\ isFactoryToken = {}
    /\ factoryPaused = FALSE

NewToken == Len(allTokens) + 1

\* createToken(name, symbol, initialSupply) by msg.sender.
createToken(sender) ==
    /\ ~factoryPaused
    /\ allTokens' = Append(allTokens, NewToken)
    /\ tokensByCreator' = [tokensByCreator EXCEPT ![sender] = Append(@, NewToken)]
    /\ isFactoryToken' = isFactoryToken \cup {NewToken}
    /\ UNCHANGED factoryPaused

\* pause and unpause by the factory's owner.
setFactoryPaused(on) ==
    /\ factoryPaused # on
    /\ factoryPaused' = on
    /\ UNCHANGED <<allTokens, tokensByCreator, isFactoryToken>>
=============================================================================
