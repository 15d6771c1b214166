---------------------------- MODULE UserRegistry ----------------------------
(***************************************************************************)
(* blockchain/contracts/UserRegistry.sol.  A transaction is one step; one  *)
(* that reverts changes nothing and is left out.  A profile stands for a   *)
(* username and an e-mail; timestamps and events are left out.             *)
(***************************************************************************)
EXTENDS Contracts, Sequences

CONSTANTS
    Addresses,    \* wallets that send transactions
    InitialOwner, \* argument of the constructor
    Profiles,     \* username and e-mail, both non-empty
    BlankProfile, \* either of them empty
    PageSize      \* limit a reader passes to getRegisteredAddresses

ASSUME OwnerIsAddress == InitialOwner \in Addresses /\ NoOwner \notin Addresses
ASSUME PageSizePositive == PageSize \in Nat \ {0}

VARIABLES
    users,     \* _users
    registeredAddresses, \* _registeredAddresses
    registryOwner,     \* Ownable
    paused,    \* Pausable
    read       \* the addresses an off-chain reader has paged through so far

registryVars == <<users, registeredAddresses, registryOwner, paused, read>>

ROLE_USER == "user"
DEFAULT_ROLE == ROLE_USER
ValidRoles == {ROLE_USER, "moderator", "admin"}
RoleArguments == ValidRoles \cup {"typo"}

UserInfo == [profile : Profiles \cup {BlankProfile}, role : ValidRoles \cup {""},
             isRegistered : BOOLEAN, isActive : BOOLEAN]

\* What the mapping holds for an address nobody has written.
Unset == [profile |-> BlankProfile, role |-> "",
          isRegistered |-> FALSE, isActive |-> FALSE]

RegistryTypeOK ==
    /\ users \in [Addresses -> UserInfo]
    /\ registeredAddresses \in Seq(Addresses)
    /\ registryOwner \in Addresses \cup {NoOwner}
    /\ paused \in BOOLEAN
    /\ read \in Seq(Addresses)

RegistryInit ==
    /\ users = [a \in Addresses |-> Unset]
    /\ registeredAddresses = <<>>
    /\ registryOwner = InitialOwner
    /\ paused = FALSE
    /\ read = <<>>

-----------------------------------------------------------------------------
\* Without the first require.
registerUserAgain(sender, profile) ==
    /\ ~paused
    /\ profile # BlankProfile
    /\ users' = [users EXCEPT ![sender] =
           [profile |-> profile, role |-> DEFAULT_ROLE,
            isRegistered |-> TRUE, isActive |-> TRUE]]
    /\ registeredAddresses' = Append(registeredAddresses, sender)
    /\ UNCHANGED <<registryOwner, paused, read>>

registerUser(sender, profile) ==
    /\ ~paused
    /\ ~users[sender].isRegistered
    /\ profile # BlankProfile
    /\ users' = [users EXCEPT ![sender] =
           [profile |-> profile, role |-> DEFAULT_ROLE,
            isRegistered |-> TRUE, isActive |-> TRUE]]
    /\ registeredAddresses' = Append(registeredAddresses, sender)
    /\ UNCHANGED <<registryOwner, paused, read>>

\* Not stopped by pause(), and allowed on deactivated accounts.
setUserRole(sender, a, role) ==
    /\ sender = registryOwner
    /\ users[a].isRegistered
    /\ role \in ValidRoles
    /\ users' = [users EXCEPT ![a].role = role]
    /\ UNCHANGED <<registeredAddresses, registryOwner, paused, read>>

\* Without the require on isActive.
updateUserWhenever(sender, profile) ==
    /\ ~paused
    /\ users[sender].isRegistered
    /\ profile # BlankProfile
    /\ users' = [users EXCEPT ![sender].profile = profile]
    /\ UNCHANGED <<registeredAddresses, registryOwner, paused, read>>

updateUser(sender, profile) ==
    /\ ~paused
    /\ users[sender].isRegistered
    /\ users[sender].isActive
    /\ profile # BlankProfile
    /\ users' = [users EXCEPT ![sender].profile = profile]
    /\ UNCHANGED <<registeredAddresses, registryOwner, paused, read>>

deactivateUser(sender, a) ==
    /\ sender = registryOwner
    /\ users[a].isRegistered
    /\ users[a].isActive
    /\ users' = [users EXCEPT ![a].isActive = FALSE]
    /\ UNCHANGED <<registeredAddresses, registryOwner, paused, read>>

pause(sender) ==
    /\ sender = registryOwner
    /\ ~paused
    /\ paused' = TRUE
    /\ UNCHANGED <<users, registeredAddresses, registryOwner, read>>

unpause(sender) ==
    /\ sender = registryOwner
    /\ paused
    /\ paused' = FALSE
    /\ UNCHANGED <<users, registeredAddresses, registryOwner, read>>

\* Ownable: ownership may be handed over or given up.
transferOwnership(sender, newOwner) ==
    /\ sender = registryOwner
    /\ registryOwner' = newOwner
    /\ UNCHANGED <<users, registeredAddresses, paused, read>>

-----------------------------------------------------------------------------
\* A page that ends past the list is refused instead of clamped.
PageRevertsPastEnd(offset, limit) ==
    offset < Len(registeredAddresses) /\ offset + limit > Len(registeredAddresses)

\* offset + limit in checked arithmetic: the call reverts on overflow.
PageReverts(offset, limit) ==
    offset < Len(registeredAddresses) /\ offset + limit > MaxUint

\* The loop indexes the list where it should index the page.
PageFromStart(offset, limit) ==
    LET total == Len(registeredAddresses)
        end == IF offset + limit > total THEN total ELSE offset + limit
    IN  SubSeq(registeredAddresses, 1, end - offset)

\* getRegisteredAddresses(offset, limit); offset counts from 0.
getRegisteredAddresses(offset, limit) ==
    LET total == Len(registeredAddresses)
        end == IF offset + limit > total THEN total ELSE offset + limit
    IN  SubSeq(registeredAddresses, offset + 1, end)

\* A reader asks for the page after what it has, while others register.
ReadPage ==
    /\ ~PageReverts(Len(read), PageSize)
    /\ read' = read \o getRegisteredAddresses(Len(read), PageSize)
    /\ UNCHANGED <<users, registeredAddresses, registryOwner, paused>>

Transaction(sender) ==
    \/ \E p \in Profiles \cup {BlankProfile} :
           registerUser(sender, p) \/ updateUser(sender, p)
    \/ \E a \in Addresses :
           \/ deactivateUser(sender, a)
           \/ \E role \in RoleArguments : setUserRole(sender, a, role)
    \/ pause(sender) \/ unpause(sender)
    \/ \E a \in Addresses \cup {NoOwner} : transferOwnership(sender, a)

RegistryNext == ReadPage \/ \E sender \in Addresses : Transaction(sender)

RegistrySpec == RegistryInit /\ [][RegistryNext]_registryVars /\ WF_registryVars(ReadPage)
-----------------------------------------------------------------------------
\* The list enumerates the mapping: every registered address once, no other.
ListMatchesMapping ==
    /\ {registeredAddresses[i] : i \in DOMAIN registeredAddresses}
           = {a \in Addresses : users[a].isRegistered}
    /\ \A i, j \in DOMAIN registeredAddresses :
           registeredAddresses[i] = registeredAddresses[j] => i = j

\* Deactivation is final: no sequence of calls reactivates an account or
\* changes the profile it had, although its role may still be set.
DeactivationIsFinal ==
    [][\A a \in Addresses :
          users[a].isRegistered /\ ~users[a].isActive =>
              /\ users'[a].isRegistered /\ ~users'[a].isActive
              /\ users'[a].profile = users[a].profile]_registryVars

\* Paging by offset and limit misses and repeats nobody, although addresses
\* are registered between two pages.
PagesArePrefix == read = SubSeq(registeredAddresses, 1, Len(read))

\* A reader that keeps asking comes to see everyone who has registered.
ReaderCatchesUp ==
    \A a \in Addresses :
        users[a].isRegistered ~> \E i \in DOMAIN read : read[i] = a
=============================================================================
