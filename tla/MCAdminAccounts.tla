-------------------------- MODULE MCAdminAccounts ---------------------------
(* The constants of the AdminAccounts runs. *)
EXTENDS AdminAccounts, TLC

CONSTANTS rootName, otherName

LowerAdminEmail == [name |-> rootName, case |-> "lower"]

Symmetry == Permutations(RegisterReqs) \cup Permutations(RoleReqs)
                                       \cup Permutations(Instances)
=============================================================================
