----------------------------- MODULE CustomToken ----------------------------
(***************************************************************************)
(* One token deployed from blockchain/contracts/CustomToken.sol, with what *)
(* it inherits from OpenZeppelin's ERC20, ERC20Burnable and Ownable.  A    *)
(* transaction is one step; one that reverts changes nothing and is left   *)
(* out.  uint256 is 0 .. MaxUint and arithmetic is checked; Unit is        *)
(* 10 ** decimals().  Allowances only widen who may move or burn a         *)
(* balance, so a transfer or burn here has no sender.                      *)
(***************************************************************************)
EXTENDS Contracts, FiniteSets

CONSTANTS
    Holders,   \* addresses, without address(0)
    Creator,   \* creator_ and initialOwner: TokenFactory passes its caller
    Unit,      \* 10 ** 18
    Amounts    \* whole units that calls pass

ASSUME HoldersFinite == IsFiniteSet(Holders)
ASSUME CreatorIsHolder == Creator \in Holders /\ NoOwner \notin Holders
ASSUME WidthsPositive ==
    /\ Unit \in Nat \ {0}
    /\ Amounts \subseteq 0 .. MaxUint

VARIABLES
    balance,     \* _balances
    totalSupply, \* _totalSupply
    maxSupply,   \* immutable, in whole units; 0 is no cap
    owner        \* Ownable

vars == <<balance, totalSupply, maxSupply, owner>>

TypeOK ==
    /\ balance \in [Holders -> Uint]
    /\ totalSupply \in Uint
    /\ maxSupply \in Amounts
    /\ owner \in Holders \cup {NoOwner}

\* Arithmetic that is not checked.
FitsAlways(n) == TRUE

\* A checked operation whose result this is does not revert.
Fits(n) == n <= MaxUint

\* The requires of the constructor, and of the arithmetic in it.
ConstructorAccepts(initial, max) ==
    /\ max = 0 \/ initial <= max
    /\ Fits(initial * Unit)

Init ==
    /\ \E initial \in Amounts, max \in Amounts :
           /\ ConstructorAccepts(initial, max)
           /\ maxSupply = max
           /\ totalSupply = initial * Unit
           /\ balance = [h \in Holders |-> IF h = Creator THEN initial * Unit ELSE 0]
    /\ owner = Creator

-----------------------------------------------------------------------------
\* The cap compared in whole units with a supply in the smallest ones.
WithinCapMixedUnits(amount) ==
    maxSupply > 0 =>
        /\ Fits(maxSupply * Unit)
        /\ totalSupply + amount <= maxSupply * Unit

\* maxSupply * 10 ** decimals() is computed at every mint: a cap too large
\* for it makes every mint revert.
WithinCap(amount) ==
    maxSupply > 0 =>
        /\ Fits(maxSupply * Unit)
        /\ totalSupply + amount * Unit <= maxSupply * Unit

\* Solidity before 0.8 wraps around.
mintUnchecked(sender, to, amount) ==
    /\ sender = owner
    /\ Fits(amount * Unit)
    /\ WithinCap(amount)
    /\ totalSupply' = (totalSupply + amount * Unit) % (MaxUint + 1)
    /\ balance' = [balance EXCEPT ![to] = (@ + amount * Unit) % (MaxUint + 1)]
    /\ UNCHANGED <<maxSupply, owner>>

mint(sender, to, amount) ==
    /\ sender = owner
    /\ Fits(amount * Unit)
    /\ WithinCap(amount)
    /\ Fits(totalSupply + amount * Unit)
    /\ totalSupply' = totalSupply + amount * Unit
    /\ balance' = [balance EXCEPT ![to] = @ + amount * Unit]
    /\ UNCHANGED <<maxSupply, owner>>

\* ERC20._update between two holders.
transfer(from, to, value) ==
    /\ value <= balance[from]
    /\ balance' = [[balance EXCEPT ![from] = @ - value] EXCEPT ![to] = @ + value]
    /\ UNCHANGED <<totalSupply, maxSupply, owner>>

burn(from, value) ==
    /\ value <= balance[from]
    /\ balance' = [balance EXCEPT ![from] = @ - value]
    /\ totalSupply' = totalSupply - value
    /\ UNCHANGED <<maxSupply, owner>>

\* transferOwnership, or renounceOwnership.
changeOwner(sender, newOwner) ==
    /\ sender = owner
    /\ owner' = newOwner
    /\ UNCHANGED <<balance, totalSupply, maxSupply>>

Next ==
    \/ \E sender, to \in Holders, amount \in Amounts : mint(sender, to, amount)
    \/ \E from, to \in Holders, value \in Uint : transfer(from, to, value)
    \/ \E from \in Holders, value \in Uint : burn(from, value)
    \/ \E sender \in Holders, newOwner \in Holders \cup {NoOwner} :
           changeOwner(sender, newOwner)

Spec == Init /\ [][Next]_vars
-----------------------------------------------------------------------------
\* The smallest units of the token, each as its holder and its number there: as
\* many as the sum of the balances.
UnitsHeld(b) == UNION {{h} \X (1 .. b[h]) : h \in Holders}

\* The total supply is what the holders have: no mint wraps around, however
\* close to the width of uint256 supply and cap come.
SupplyIsSumOfBalances == totalSupply = Cardinality(UnitsHeld(balance))

\* With a cap, the supply never exceeds it ("Hard-cap on total supply",
\* CustomToken.sol:39), whatever is burned and minted again.
SupplyWithinCap ==
    maxSupply > 0 => totalSupply <= maxSupply * Unit

=============================================================================
