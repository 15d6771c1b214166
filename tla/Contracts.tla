----------------------------- MODULE Contracts ------------------------------
(***************************************************************************)
(* What the contracts share: the width of their integers, and the address  *)
(* of a contract that nobody owns any more.                                *)
(***************************************************************************)
EXTENDS Integers

CONSTANTS
    NoOwner, \* address(0)
    MaxUint  \* type(uint256).max

ASSUME UintPositive == MaxUint \in Nat \ {0}

Uint == 0 .. MaxUint
=============================================================================
