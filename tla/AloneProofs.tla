----------------------------- MODULE AloneProofs -----------------------------
(***************************************************************************)
(* Proofs, for any constants, about parts of the system that share no      *)
(* state: those of MCAlone (what holders of a token have and its cap, the  *)
(* addresses deploy.ts publishes, the rows the migration copies, the       *)
(* wallet the chain panel is about), and UserRegistry (its list agrees     *)
(* with its mapping, deactivation is final, paging misses nobody).  Each   *)
(* part has an inductive invariant of its own.                             *)
(***************************************************************************)
EXTENDS MCAlone, UserRegistry, FiniteSetTheorems, TLAPS

\* A step of the composition is a step of each part, or leaves it alone.
LEMMA StepsOfParts ==
    ASSUME [AloneNext]_<<part, vars, deployment, migration, panelVars>>
    PROVE  /\ [Next]_vars
           /\ [DeploymentNext]_deployment
           /\ [MigrationNext]_migration
           /\ [ChainPanelNext]_panelVars
  BY DEF AloneNext

-----------------------------------------------------------------------------
(* CustomToken *)

\* The units of a holder are numbered from 1.
LEMMA UnitsOf ==
    ASSUME NEW b, NEW c
    PROVE  c \in UnitsHeld(b) <=> \E h \in Holders : \E k \in 1 .. b[h] : c = <<h, k>>
  BY DEF UnitsHeld

\* The units of one holder are as many as their numbers.
LEMMA UnitsOfOne ==
    ASSUME NEW h, NEW S, IsFiniteSet(S)
    PROVE  IsFiniteSet({h} \X S) /\ Cardinality({h} \X S) = Cardinality(S)
<1>1. IsFiniteSet({h}) /\ Cardinality({h}) = 1
  BY FS_Singleton
<1>2. IsFiniteSet({h} \X S) /\ Cardinality({h} \X S) = Cardinality({h}) * Cardinality(S)
  BY <1>1, FS_Product
<1>3. Cardinality(S) \in Nat
  BY FS_CardinalityType
<1> QED
  BY <1>1, <1>2, <1>3

LEMMA UnitsFinite ==
    ASSUME NEW b \in [Holders -> Nat]
    PROVE  IsFiniteSet(UnitsHeld(b))
<1> DEFINE Of == [h \in Holders |-> {h} \X (1 .. b[h])]
           All == {{h} \X (1 .. b[h]) : h \in Holders}
<1>1. Of \in Surjection(Holders, All)
  BY DEF Surjection
<1>2. IsFiniteSet(All)
  <2> HIDE DEF Of, All
  <2> QED BY <1>1, HoldersFinite, FS_Surjection
<1>3. ASSUME NEW h \in Holders
      PROVE  IsFiniteSet({h} \X (1 .. b[h]))
  <2>1. b[h] \in Int
    OBVIOUS
  <2>2. IsFiniteSet(1 .. b[h])
    BY <2>1, FS_Interval
  <2> QED
    BY <2>2, UnitsOfOne
<1>4. \A T \in All : IsFiniteSet(T)
  BY <1>3
<1>5. IsFiniteSet(UNION All)
  <2> HIDE DEF Of, All
  <2> QED BY <1>2, <1>4, FS_UNION
<1> QED
  BY <1>5 DEF UnitsHeld

\* Adding n to one balance adds n units, and no balance exceeds all there is.
LEMMA UnitsAdded ==
    ASSUME NEW b \in [Holders -> Nat], NEW h \in Holders, NEW n \in Nat
    PROVE  /\ Cardinality(UnitsHeld([b EXCEPT ![h] = b[h] + n])) = Cardinality(UnitsHeld(b)) + n
           /\ Cardinality(UnitsHeld(b)) \in Nat
           /\ b[h] <= Cardinality(UnitsHeld(b))
<1> DEFINE d == [b EXCEPT ![h] = b[h] + n]
           new == {h} \X (b[h] + 1 .. b[h] + n)
<1>1. d \in [Holders -> Nat] /\ d[h] = b[h] + n /\ \A i \in Holders \ {h} : d[i] = b[i]
  OBVIOUS
<1>2. b[h] \in Nat
  OBVIOUS
<1>3. IsFiniteSet(new) /\ Cardinality(new) = n
  <2>1. /\ IsFiniteSet(b[h] + 1 .. b[h] + n)
        /\ Cardinality(b[h] + 1 .. b[h] + n) = n
    <3> DEFINE low  == b[h] + 1
               high == b[h] + n
    <3>1. low \in Int /\ high \in Int
      BY <1>2
    <3> HIDE DEF low, high
    <3>2. IsFiniteSet(low .. high)
             /\ Cardinality(low .. high) = IF low > high THEN 0 ELSE high - low + 1
      BY <3>1, FS_Interval
    <3> QED
      BY <1>2, <3>2 DEF low, high
  <2> QED
    BY <2>1, UnitsOfOne
<1>4. IsFiniteSet(UnitsHeld(b))
  BY UnitsFinite
<1>5. ASSUME NEW c
      PROVE  c \in UnitsHeld(d) <=> c \in UnitsHeld(b) \cup new
  <2>1. c \in new <=> \E k \in b[h] + 1 .. b[h] + n : c = <<h, k>>
    OBVIOUS
  <2> HIDE DEF d, new
  <2>2. ASSUME c \in UnitsHeld(d)
        PROVE  c \in UnitsHeld(b) \cup new
    <3>0. PICK i \in Holders : \E k \in 1 .. d[i] : c = <<i, k>>
      BY <2>2, UnitsOf
    <3>1. PICK k \in 1 .. d[i] : c = <<i, k>>
      BY <3>0
    <3>2. CASE i = h /\ k > b[h]
      BY <3>1, <3>2, <1>1, <1>2, <2>1
    <3>3. CASE i = h /\ k <= b[h]
      BY <3>1, <3>3, <1>1, <1>2, UnitsOf
    <3>4. CASE i # h
      BY <3>1, <3>4, <1>1, UnitsOf
    <3> QED
      BY <3>1, <3>2, <3>3, <3>4, <1>1, <1>2
  <2>3. ASSUME c \in UnitsHeld(b)
        PROVE  c \in UnitsHeld(d)
    <3>0. PICK i \in Holders : \E k \in 1 .. b[i] : c = <<i, k>>
      BY <2>3, UnitsOf
    <3>1. PICK k \in 1 .. b[i] : c = <<i, k>>
      BY <3>0
    <3>2. k \in 1 .. d[i]
      BY <3>1, <1>1
    <3> QED
      BY <3>1, <3>2, UnitsOf
  <2>4. ASSUME c \in new
        PROVE  c \in UnitsHeld(d)
    <3>1. PICK k \in b[h] + 1 .. b[h] + n : c = <<h, k>>
      BY <2>4, <2>1
    <3>2. k \in 1 .. d[h]
      BY <1>1, <1>2
    <3> QED
      BY <3>1, <3>2, UnitsOf
  <2> QED
    BY <2>2, <2>3, <2>4
<1>6. UnitsHeld(b) \cap new = {}
  <2>1. \A c \in new : \E k \in b[h] + 1 .. b[h] + n : c = <<h, k>>
    OBVIOUS
  <2> HIDE DEF d, new
  <2>2. ASSUME NEW c \in new, c \in UnitsHeld(b)
        PROVE  FALSE
    <3>1. PICK k \in b[h] + 1 .. b[h] + n : c = <<h, k>>
      BY <2>1
    <3>2. PICK i \in Holders : \E j \in 1 .. b[i] : c = <<i, j>>
      BY <2>2, UnitsOf
    <3>4. PICK j \in 1 .. b[i] : c = <<i, j>>
      BY <3>2
    <3>3. i = h /\ j = k
      BY <3>1, <3>4
    <3> QED
      BY <3>1, <3>4, <3>3, <1>2
  <2> QED
    BY <2>2
<1>7. UnitsHeld(d) = UnitsHeld(b) \cup new
  BY <1>5
<1>8. Cardinality(UnitsHeld(b)) \in Nat
  BY <1>4, FS_CardinalityType
<1>9. Cardinality(UnitsHeld(d)) = Cardinality(UnitsHeld(b)) + n
  <2> HIDE DEF d, new
  <2>1. Cardinality(UnitsHeld(b) \cap new) = 0
    BY <1>6, FS_EmptySet
  <2>2. Cardinality(UnitsHeld(b) \cup new)
            = Cardinality(UnitsHeld(b)) + Cardinality(new) - Cardinality(UnitsHeld(b) \cap new)
    BY <1>3, <1>4, FS_Union
  <2> QED
    BY <1>3, <1>7, <1>8, <2>1, <2>2
<1>10. b[h] <= Cardinality(UnitsHeld(b))
  <2> DEFINE own == {h} \X (1 .. b[h])
  <2>0. IsFiniteSet(1 .. b[h]) /\ Cardinality(1 .. b[h]) = b[h]
    BY <1>2, FS_Interval
  <2>1. IsFiniteSet(own) /\ Cardinality(own) = b[h]
    BY <2>0, UnitsOfOne
  <2>2. own \subseteq UnitsHeld(b)
    BY UnitsOf, <1>2
  <2> HIDE DEF own
  <2> QED
    BY <2>1, <2>2, <1>4, FS_Subset
<1> QED
  BY <1>8, <1>9, <1>10

\* Taking n from one balance takes n units.
LEMMA UnitsRemoved ==
    ASSUME NEW b \in [Holders -> Nat], NEW h \in Holders, NEW n \in 0 .. b[h]
    PROVE  Cardinality(UnitsHeld([b EXCEPT ![h] = b[h] - n])) = Cardinality(UnitsHeld(b)) - n
<1> DEFINE d == [b EXCEPT ![h] = b[h] - n]
<1>1. d \in [Holders -> Nat] /\ n \in Nat /\ d[h] + n = b[h]
  OBVIOUS
<1>2. b = [d EXCEPT ![h] = d[h] + n]
  BY <1>1
<1> HIDE DEF d
<1>3. Cardinality(UnitsHeld([d EXCEPT ![h] = d[h] + n])) = Cardinality(UnitsHeld(d)) + n
         /\ Cardinality(UnitsHeld(d)) \in Nat
  BY <1>1, UnitsAdded
<1>4. Cardinality(UnitsHeld(d)) = Cardinality(UnitsHeld(b)) - n
  BY <1>1, <1>2, <1>3
<1> QED
  BY <1>4 DEF d

TokenInv ==
    /\ TypeOK
    /\ SupplyIsSumOfBalances
    /\ SupplyWithinCap

LEMMA Scaled == \A a, b \in Nat : a <= b => a * Unit <= b * Unit
  BY WidthsPositive, UintPositive

LEMMA AmountsAreNat == \A a \in Amounts : a \in Nat /\ a * Unit \in Nat
  BY WidthsPositive, UintPositive

\* What is in circulation covers each balance, so none wraps around.
LEMMA BalancesFit ==
    ASSUME NEW b \in [Holders -> Nat], Cardinality(UnitsHeld(b)) <= MaxUint
    PROVE  b \in [Holders -> Uint]
<1>1. ASSUME NEW h \in Holders
      PROVE  b[h] \in Uint
  <2>1. b[h] <= Cardinality(UnitsHeld(b)) /\ Cardinality(UnitsHeld(b)) \in Nat
    BY UnitsAdded
  <2> QED
    BY <2>1, WidthsPositive, UintPositive DEF Uint
<1> QED
  BY <1>1

LEMMA TokenStarts ==
    ASSUME Init
    PROVE  TokenInv
<1>1. PICK initial \in Amounts, max \in Amounts :
          /\ ConstructorAccepts(initial, max)
          /\ maxSupply = max
          /\ totalSupply = initial * Unit
          /\ balance = [h \in Holders |-> IF h = Creator THEN initial * Unit ELSE 0]
  BY DEF Init
<1> DEFINE none == [h \in Holders |-> 0]
<1>2. initial * Unit \in Nat /\ max \in Nat /\ initial \in Nat /\ initial * Unit <= MaxUint
  BY <1>1, AmountsAreNat DEF ConstructorAccepts, Fits
<1>3. none \in [Holders -> Nat] /\ UnitsHeld(none) = {}
  <2>1. ASSUME NEW c \in UnitsHeld(none)
        PROVE  FALSE
    BY UnitsOf
  <2> QED
    BY <2>1
<1>4. balance = [none EXCEPT ![Creator] = none[Creator] + initial * Unit]
  BY <1>1, <1>2, CreatorIsHolder
<1>5. balance \in [Holders -> Nat]
  BY <1>1, <1>2
<1>6. Cardinality(UnitsHeld(none)) = 0
  BY <1>3, FS_EmptySet
<1>7. Cardinality(UnitsHeld(balance)) = initial * Unit
  <2> HIDE DEF none
  <2>1. Cardinality(UnitsHeld([none EXCEPT ![Creator] = none[Creator] + initial * Unit]))
            = Cardinality(UnitsHeld(none)) + initial * Unit
    BY <1>2, <1>3, CreatorIsHolder, UnitsAdded
  <2> QED
    BY <2>1, <1>2, <1>4, <1>6
<1>8. balance \in [Holders -> Uint]
  BY <1>2, <1>5, <1>7, BalancesFit
<1>9. max > 0 => initial * Unit <= max * Unit
  BY <1>1, <1>2, Scaled, AmountsAreNat DEF ConstructorAccepts
<1>10. TypeOK
  BY <1>1, <1>2, <1>8, CreatorIsHolder DEF TypeOK, Uint, Init
<1> QED
  BY <1>1, <1>7, <1>9, <1>10, <1>2 DEF TokenInv, SupplyIsSumOfBalances, SupplyWithinCap

LEMMA TokenTypes ==
    ASSUME TokenInv
    PROVE  /\ balance \in [Holders -> Nat]
           /\ \A h \in Holders : balance[h] \in Nat
           /\ totalSupply \in Nat /\ totalSupply <= MaxUint
           /\ totalSupply = Cardinality(UnitsHeld(balance))
           /\ maxSupply \in Amounts
           /\ owner \in Holders \cup {NoOwner}
  BY WidthsPositive, UintPositive DEF TokenInv, TypeOK, Uint, SupplyIsSumOfBalances

LEMMA MintKeeps ==
    ASSUME TokenInv, NEW sender \in Holders, NEW to \in Holders, NEW amount \in Amounts,
           mint(sender, to, amount)
    PROVE  TokenInv'
<1> DEFINE n == amount * Unit
<1>1. n \in Nat /\ totalSupply' = totalSupply + n /\ totalSupply + n <= MaxUint
      /\ balance' = [balance EXCEPT ![to] = balance[to] + n]
      /\ maxSupply' = maxSupply /\ owner' = owner
  BY AmountsAreNat DEF mint, Fits
<1> HIDE DEF n
<1>2. balance' \in [Holders -> Nat]
  BY <1>1, TokenTypes
<1>3. totalSupply' = Cardinality(UnitsHeld(balance'))
  BY <1>1, TokenTypes, UnitsAdded
<1>4. balance' \in [Holders -> Uint]
  BY <1>1, <1>2, <1>3, BalancesFit
<1>5. totalSupply' \in Uint
  BY <1>1, TokenTypes, WidthsPositive, UintPositive DEF Uint
<1>6. SupplyWithinCap'
  BY <1>1, AmountsAreNat DEF mint, WithinCap, TokenInv, SupplyWithinCap
<1> QED
  BY <1>1, <1>3, <1>4, <1>5, <1>6, TokenTypes
     DEF TokenInv, TypeOK, SupplyIsSumOfBalances

LEMMA BurnKeeps ==
    ASSUME TokenInv, NEW from \in Holders, NEW value \in Uint, burn(from, value)
    PROVE  TokenInv'
<1>1. /\ value \in 0 .. balance[from] /\ totalSupply' = totalSupply - value
      /\ balance' = [balance EXCEPT ![from] = balance[from] - value]
      /\ maxSupply' = maxSupply /\ owner' = owner
  BY TokenTypes, WidthsPositive, UintPositive DEF burn, Uint
<1>2. balance' \in [Holders -> Nat]
  BY <1>1, TokenTypes
<1>3. totalSupply' = Cardinality(UnitsHeld(balance'))
  BY <1>1, TokenTypes, UnitsRemoved
<1>4. balance[from] <= totalSupply
  BY TokenTypes, UnitsAdded
<1>5. totalSupply' \in Uint /\ totalSupply' <= totalSupply /\ totalSupply' <= MaxUint
  BY <1>1, <1>4, TokenTypes, WidthsPositive, UintPositive DEF Uint
<1>6. balance' \in [Holders -> Uint]
  BY <1>2, <1>3, <1>5, BalancesFit
<1>7. SupplyWithinCap'
  BY <1>1, <1>5, TokenTypes, AmountsAreNat DEF TokenInv, SupplyWithinCap, Uint
<1> QED
  BY <1>1, <1>3, <1>5, <1>6, <1>7, TokenTypes
     DEF TokenInv, TypeOK, SupplyIsSumOfBalances

LEMMA TransferKeeps ==
    ASSUME TokenInv, NEW from \in Holders, NEW to \in Holders, NEW value \in Uint,
           transfer(from, to, value)
    PROVE  TokenInv'
<1> DEFINE less == [balance EXCEPT ![from] = balance[from] - value]
<1>1. /\ value \in 0 .. balance[from] /\ value \in Nat
      /\ balance' = [less EXCEPT ![to] = less[to] + value]
      /\ maxSupply' = maxSupply /\ owner' = owner /\ totalSupply' = totalSupply
  BY TokenTypes, WidthsPositive, UintPositive DEF transfer, Uint
<1>2. less \in [Holders -> Nat]
  BY <1>1, TokenTypes
<1>3. Cardinality(UnitsHeld(less)) = totalSupply - value
  BY <1>1, TokenTypes, UnitsRemoved
<1> HIDE DEF less
<1>4. balance' \in [Holders -> Nat]
  BY <1>1, <1>2
<1>5. totalSupply' = Cardinality(UnitsHeld(balance'))
  <2>1. Cardinality(UnitsHeld([less EXCEPT ![to] = less[to] + value])) = totalSupply - value + value
    BY <1>1, <1>2, <1>3, UnitsAdded
  <2> QED
    BY <1>1, <2>1, TokenTypes
<1>6. balance' \in [Holders -> Uint]
  BY <1>1, <1>4, <1>5, TokenTypes, BalancesFit
<1> QED
  BY <1>1, <1>5, <1>6, TokenTypes
     DEF TokenInv, TypeOK, SupplyIsSumOfBalances, SupplyWithinCap

LEMMA TokenInvariance ==
    ASSUME TokenInv, [Next]_vars
    PROVE  TokenInv'
<1>1. ASSUME NEW sender \in Holders, NEW newOwner \in Holders \cup {NoOwner},
             changeOwner(sender, newOwner)
      PROVE  TokenInv'
  BY <1>1 DEF changeOwner, TokenInv, TypeOK, SupplyIsSumOfBalances, SupplyWithinCap
<1>2. CASE UNCHANGED vars
  BY <1>2 DEF vars, TokenInv, TypeOK, SupplyIsSumOfBalances, SupplyWithinCap
<1> QED
  BY <1>1, <1>2, MintKeeps, BurnKeeps, TransferKeeps DEF Next

LEMMA TokenAlways == AloneSpec => []TokenInv
<1>1. AloneInit => TokenInv
  BY TokenStarts DEF AloneInit
<1>2. TokenInv /\ [AloneNext]_<<part, vars, deployment, migration, panelVars>> => TokenInv'
  BY TokenInvariance DEF AloneNext
<1> QED
  BY <1>1, <1>2, PTL DEF AloneSpec

\* With a cap, the supply of a token never exceeds it, whatever is minted and
\* burned in whatever order (CustomToken.sol:76-82).
THEOREM CapHolds == AloneSpec => []SupplyWithinCap
  BY TokenAlways, PTL DEF TokenInv

\* What holders have adds up to the total supply after any sequence of mints,
\* burns and transfers: none of them wraps around (ERC20._update).
THEOREM SupplyIsHeld == AloneSpec => []SupplyIsSumOfBalances
  BY TokenAlways, PTL DEF TokenInv

-----------------------------------------------------------------------------
(* Deployment *)

\* A contract of the kind at address a, after the transactions t.
Holds(t, a, kind) == a \in DOMAIN t /\ t[a] = kind

\* What a script at stage s has deployed, and named, so far.
HasDeployed(s, kind) ==
    \/ s \in {"nameUserRegistry", "nameTokenFactory", "read", "write"}
    \/ s = "TokenFactory" /\ kind \in {"PlatformRegistry", "UserRegistry"}
    \/ s = "UserRegistry" /\ kind = "PlatformRegistry"

HasNamed(s, name) ==
    \/ s \in {"read", "write"}
    \/ s = "nameTokenFactory" /\ name = "UserRegistry"

RunsFit ==
    \A n \in Networks :
        /\ \A kind \in Kinds : HasDeployed(stage[n], kind) => Holds(txs[n], run[n][kind], kind)
        /\ \A name \in Names : HasNamed(stage[n], name) =>
               <<run[n]["PlatformRegistry"], name, run[n][name]>> \in contracts[n]

\* What a script has read is what it will leave of the other networks.
CopiesFit ==
    ~garbled => \A m \in Networks : stage[m] = "write" =>
        \A n \in Networks \ {m} : published[n] # NoEntry => copy[m][n] = published[n]

DeploymentInv ==
    /\ DeploymentTypeOK
    /\ RunsFit
    /\ PublishedIsUsable
    /\ CopiesFit
    /\ FileHasEveryNetwork

LEMMA KindNames ==
    /\ Kinds = {"PlatformRegistry", "UserRegistry", "TokenFactory"}
    /\ Names \subseteq Kinds
    /\ \A kind \in Kinds : Deploying[kind] \in Stages
    /\ \A name \in Names : Naming[name] \in Stages /\ NamingStage[name] \in Stages
    /\ {"idle", "read", "write", "PlatformRegistry"} \subseteq Stages
    /\ NoEntry \in Entry /\ Empty \in Entries /\ <<>> \in Seq(Kinds \cup {"call"})
    /\ \A e \in Entries : e # Corrupt
<1>1. \A e \in Entries : e # Corrupt
  <2> SUFFICES ASSUME NEW e \in Entries, e = Corrupt
               PROVE  FALSE
    OBVIOUS
  <2>1. DOMAIN e = Networks
    BY DEF Entries
  <2>2. DOMAIN e = {}
    BY DEF Corrupt
  <2> QED
    BY <2>1, <2>2, SomeNetwork
<1> QED
  BY <1>1 DEF Kinds, Names, Deploying, Naming, NamingStage, Stages, NoEntry, Entry, Empty,
              Entries

\* A transaction leaves every contract where it is, and adds one.
LEMMA MineAppends ==
    ASSUME DeploymentTypeOK, NEW n \in Networks, NEW what \in Kinds \cup {"call"},
           Mine(n, what)
    PROVE  /\ txs' \in [Networks -> Seq(Kinds \cup {"call"})]
           /\ \A m \in Networks \ {n} : txs'[m] = txs[m]
           /\ Len(txs'[n]) \in DOMAIN txs'[n] /\ txs'[n][Len(txs'[n])] = what
           /\ Len(txs'[n]) \in Nat
           /\ \A m \in Networks : \A a, kind : Holds(txs[m], a, kind) => Holds(txs'[m], a, kind)
<1>1. txs[n] \in Seq(Kinds \cup {"call"}) /\ txs'[n] = Append(txs[n], what)
  BY DEF Mine, DeploymentTypeOK
<1>2. \A m \in Networks \ {n} : txs'[m] = txs[m]
  BY DEF Mine, DeploymentTypeOK
<1>3. /\ Append(txs[n], what) \in Seq(Kinds \cup {"call"})
      /\ Len(txs'[n]) = Len(txs[n]) + 1
      /\ \A a \in DOMAIN txs[n] : a \in DOMAIN txs'[n] /\ txs'[n][a] = txs[n][a]
      /\ Len(txs'[n]) \in DOMAIN txs'[n] /\ txs'[n][Len(txs'[n])] = what
  BY <1>1
<1>4. txs' \in [Networks -> Seq(Kinds \cup {"call"})]
  BY <1>1, <1>3 DEF Mine, DeploymentTypeOK
<1>5. \A m \in Networks : \A a, kind : Holds(txs[m], a, kind) => Holds(txs'[m], a, kind)
  BY <1>2, <1>3 DEF Holds
<1> QED
  BY <1>1, <1>2, <1>3, <1>4, <1>5

\* Where contracts stay and names are kept, what has been published is usable.
LEMMA UsableStays ==
    ASSUME NEW n \in Networks, NEW e \in Entry, Usable(n, e),
           \A a, kind : Holds(txs[n], a, kind) => Holds(txs'[n], a, kind),
           contracts[n] \subseteq contracts'[n]
    PROVE  Usable(n, e)'
  BY DEF Usable, Holds

LEMMA DeployContractKeeps ==
    ASSUME DeploymentInv, NEW n \in Networks, NEW kind \in Kinds, DeployContract(n, kind)
    PROVE  DeploymentInv'
<1> DEFINE a == Len(txs'[n])
<1> USE DEF DeploymentInv
<1>1. /\ Mine(n, kind) /\ stage[n] = kind
      /\ run' = [run EXCEPT ![n][kind] = a] /\ stage' = [stage EXCEPT ![n] = Deploying[kind]]
      /\ UNCHANGED <<contracts, copy, file, published, garbled>>
  BY DEF DeployContract, Goto
<1>2. /\ txs' \in [Networks -> Seq(Kinds \cup {"call"})]
      /\ a \in Nat /\ Holds(txs'[n], a, kind)
      /\ \A m \in Networks : \A b, k : Holds(txs[m], b, k) => Holds(txs'[m], b, k)
  BY <1>1, MineAppends DEF Holds
<1> HIDE DEF a
<1>3. /\ run'[n] = [run[n] EXCEPT ![kind] = a] /\ run'[n] \in Entry
      /\ \A m \in Networks \ {n} : run'[m] = run[m] /\ stage'[m] = stage[m]
      /\ stage'[n] = Deploying[kind]
      /\ run'[n][kind] = a
      /\ \A k \in Kinds \ {kind} : run'[n][k] = run[n][k]
  BY <1>1, <1>2 DEF DeploymentTypeOK, Entry
<1>4. DeploymentTypeOK'
  BY <1>1, <1>2, <1>3, KindNames DEF DeploymentTypeOK
<1>5. RunsFit'
  <2>1. \A k \in Kinds : HasDeployed(Deploying[kind], k) => k = kind \/ HasDeployed(kind, k)
    BY DEF HasDeployed, Deploying, Kinds, Names
  <2>2. \A name \in Names : ~HasNamed(Deploying[kind], name)
    BY DEF HasNamed, Deploying, Kinds, Names
  <2>3. ASSUME NEW k \in Kinds, HasDeployed(stage'[n], k)
        PROVE  Holds(txs'[n], run'[n][k], k)
    <3>1. CASE k = kind
      BY <3>1, <1>2, <1>3
    <3>2. CASE k # kind
      <4>1. Holds(txs[n], run[n][k], k)
        BY <3>2, <2>1, <2>3, <1>1, <1>3 DEF RunsFit
      <4> QED
        BY <4>1, <3>2, <1>2, <1>3
    <3> QED
      BY <3>1, <3>2
  <2>4. ASSUME NEW m \in Networks \ {n}, NEW k \in Kinds, HasDeployed(stage'[m], k)
        PROVE  Holds(txs'[m], run'[m][k], k)
    <3>1. Holds(txs[m], run[m][k], k)
      BY <2>4, <1>3 DEF RunsFit
    <3> QED
      BY <3>1, <1>2, <1>3
  <2>5. ASSUME NEW m \in Networks, NEW name \in Names, HasNamed(stage'[m], name)
        PROVE  <<run'[m]["PlatformRegistry"], name, run'[m][name]>> \in contracts'[m]
    BY <2>5, <2>2, <1>1, <1>3 DEF RunsFit
  <2> QED
    BY <2>3, <2>4, <2>5 DEF RunsFit
<1>6. PublishedIsUsable'
  BY <1>1, <1>2, UsableStays DEF PublishedIsUsable, DeploymentTypeOK, Entries
<1>7. CopiesFit'
  <2>1. Deploying[kind] # "write"
    BY DEF Deploying, Kinds, Names
  <2> QED
    BY <2>1, <1>1, <1>3 DEF CopiesFit
<1>8. FileHasEveryNetwork'
  BY <1>1 DEF FileHasEveryNetwork
<1> QED
  BY <1>4, <1>5, <1>6, <1>7, <1>8

LEMMA SetContractKeeps ==
    ASSUME DeploymentInv, NEW n \in Networks, NEW name \in Names, SetContract(n, name)
    PROVE  DeploymentInv'
<1> DEFINE new == <<run[n]["PlatformRegistry"], name, run[n][name]>>
<1> USE DEF DeploymentInv
<1>1. /\ Mine(n, "call") /\ stage[n] = NamingStage[name]
      /\ contracts' = [contracts EXCEPT ![n] = @ \cup {new}]
      /\ stage' = [stage EXCEPT ![n] = Naming[name]]
      /\ UNCHANGED <<run, copy, file, published, garbled>>
  BY DEF SetContract, Goto
<1>2. /\ txs' \in [Networks -> Seq(Kinds \cup {"call"})]
      /\ \A m \in Networks : \A b, k : Holds(txs[m], b, k) => Holds(txs'[m], b, k)
  BY <1>1, MineAppends
<1>3. run[n]["PlatformRegistry"] \in Nat /\ run[n][name] \in Nat
  <2>1. run[n] \in [Kinds -> Nat]
    BY DEF DeploymentTypeOK, Entry
  <2>2. "PlatformRegistry" \in Kinds /\ name \in Kinds
    BY KindNames
  <2> QED
    BY <2>1, <2>2
<1>4. /\ contracts' \in [Networks -> SUBSET (Nat \X Names \X Nat)]
      /\ new \in contracts'[n]
      /\ \A m \in Networks : contracts[m] \subseteq contracts'[m]
  BY <1>1, <1>3 DEF DeploymentTypeOK
<1>5. stage'[n] = Naming[name] /\ \A m \in Networks \ {n} : stage'[m] = stage[m]
  BY <1>1 DEF DeploymentTypeOK
<1>6. DeploymentTypeOK'
  BY <1>1, <1>2, <1>4, KindNames DEF DeploymentTypeOK
<1>7. RunsFit'
  <2>1. \A k \in Kinds : HasDeployed(stage[n], k)
    BY <1>1 DEF HasDeployed, NamingStage, Names
  <2>2. \A x \in Names : HasNamed(Naming[name], x) => x = name \/ HasNamed(stage[n], x)
    BY <1>1 DEF HasNamed, Naming, NamingStage, Names
  <2>3. ASSUME NEW m \in Networks, NEW k \in Kinds, HasDeployed(stage'[m], k)
        PROVE  Holds(txs'[m], run'[m][k], k)
    <3>1. Holds(txs[m], run[m][k], k)
      BY <2>1, <2>3, <1>5 DEF RunsFit
    <3> QED
      BY <3>1, <1>1, <1>2
  <2>4. ASSUME NEW m \in Networks, NEW x \in Names, HasNamed(stage'[m], x)
        PROVE  <<run'[m]["PlatformRegistry"], x, run'[m][x]>> \in contracts'[m]
    BY <2>2, <2>4, <1>1, <1>4, <1>5 DEF RunsFit
  <2> QED
    BY <2>3, <2>4 DEF RunsFit
<1>8. PublishedIsUsable'
  BY <1>1, <1>2, <1>4, UsableStays DEF PublishedIsUsable, DeploymentTypeOK, Entries
<1>9. CopiesFit' /\ FileHasEveryNetwork'
  <2>1. Naming[name] # "write"
    BY DEF Naming, Names
  <2> QED
    BY <2>1, <1>1, <1>5 DEF CopiesFit, FileHasEveryNetwork
<1> QED
  BY <1>6, <1>7, <1>8, <1>9

LEMMA ReadFileKeeps ==
    ASSUME DeploymentInv, NEW n \in Networks, ReadFile(n)
    PROVE  DeploymentInv'
<1> USE DEF DeploymentInv
<1>1. /\ stage[n] = "read"
      /\ stage' = [stage EXCEPT ![n] = "write"]
      /\ copy' = [copy EXCEPT ![n] = IF file = Corrupt THEN Empty ELSE file]
      /\ UNCHANGED <<txs, contracts, run, file, published, garbled>>
  BY DEF ReadFile, Goto
<1>2. /\ stage'[n] = "write" /\ \A m \in Networks \ {n} : stage'[m] = stage[m]
      /\ copy'[n] = (IF file = Corrupt THEN Empty ELSE file)
      /\ \A m \in Networks \ {n} : copy'[m] = copy[m]
  BY <1>1 DEF DeploymentTypeOK
<1>3. DeploymentTypeOK'
  BY <1>1, <1>2, KindNames DEF DeploymentTypeOK
<1>4. RunsFit'
  BY <1>1, <1>2 DEF RunsFit, HasDeployed, HasNamed, Names
<1>5. CopiesFit'
  BY <1>1, <1>2 DEF CopiesFit, FileHasEveryNetwork
<1>6. PublishedIsUsable' /\ FileHasEveryNetwork'
  BY <1>1 DEF PublishedIsUsable, Usable, FileHasEveryNetwork
<1> QED
  BY <1>3, <1>4, <1>5, <1>6

LEMMA WriteFileKeeps ==
    ASSUME DeploymentInv, NEW n \in Networks, WriteFile(n)
    PROVE  DeploymentInv'
<1> USE DEF DeploymentInv
<1>1. /\ stage[n] = "write"
      /\ file' = [copy[n] EXCEPT ![n] = run[n]]
      /\ published' = [published EXCEPT ![n] = run[n]]
      /\ garbled' = (garbled \/ \E m \in Networks \ {n} : stage[m] = "write")
      /\ stage' = [stage EXCEPT ![n] = "idle"]
      /\ run' = [run EXCEPT ![n] = NoEntry]
      /\ copy' = [copy EXCEPT ![n] = Empty]
      /\ UNCHANGED <<txs, contracts>>
  BY DEF WriteFile, Exit, Goto
<1>2. /\ stage'[n] = "idle" /\ run'[n] = NoEntry /\ published'[n] = run[n]
      /\ file'[n] = run[n] /\ file' \in Entries /\ run[n] \in Entry
      /\ \A m \in Networks \ {n} : /\ stage'[m] = stage[m] /\ run'[m] = run[m]
                                   /\ copy'[m] = copy[m] /\ published'[m] = published[m]
                                   /\ file'[m] = copy[n][m]
  BY <1>1 DEF DeploymentTypeOK, Entries
<1>3. DeploymentTypeOK'
  BY <1>1, <1>2, KindNames DEF DeploymentTypeOK, Entries
<1>4. RunsFit'
  BY <1>1, <1>2 DEF RunsFit, HasDeployed, HasNamed
<1>5. Usable(n, run[n])
  BY <1>1 DEF RunsFit, HasDeployed, HasNamed, Usable, Holds
<1>6. PublishedIsUsable'
  BY <1>1, <1>2, <1>5 DEF PublishedIsUsable, Usable
<1>7. ~garbled' => ~garbled /\ \A m \in Networks \ {n} : stage[m] # "write"
  BY <1>1, Zenon
<1>8. CopiesFit'
  <2>1. ~garbled' => \A m \in Networks : stage'[m] # "write"
    BY <1>2, <1>7
  <2> QED
    BY <2>1 DEF CopiesFit
<1>9. FileHasEveryNetwork'
  <2>1. file' # Corrupt
    BY <1>2, KindNames
  <2>2. ASSUME ~garbled', NEW m \in Networks \ {n}, published'[m] # NoEntry
        PROVE  file'[m] = published'[m]
    BY <2>2, <1>1, <1>2, <1>7 DEF CopiesFit
  <2> QED
    BY <2>1, <2>2, <1>2 DEF FileHasEveryNetwork
<1> QED
  BY <1>3, <1>4, <1>6, <1>8, <1>9

\* A script that ends without writing leaves nothing that counts.
LEMMA DyingKeeps ==
    ASSUME DeploymentInv, NEW n \in Networks, Die(n) \/ DieWriting(n)
    PROVE  DeploymentInv'
<1> USE DEF DeploymentInv
<1>1. /\ stage' = [stage EXCEPT ![n] = "idle"]
      /\ run' = [run EXCEPT ![n] = NoEntry]
      /\ copy' = [copy EXCEPT ![n] = Empty]
      /\ UNCHANGED <<txs, contracts, published>>
      /\ UNCHANGED <<file, garbled>> \/ (file' = Corrupt /\ garbled' = TRUE)
  BY DEF Die, DieWriting, Exit, Goto
<1>2. /\ stage'[n] = "idle"
      /\ \A m \in Networks \ {n} : stage'[m] = stage[m] /\ run'[m] = run[m] /\ copy'[m] = copy[m]
  BY <1>1 DEF DeploymentTypeOK
<1>3. DeploymentTypeOK'
  BY <1>1, KindNames DEF DeploymentTypeOK
<1>4. RunsFit'
  BY <1>1, <1>2 DEF RunsFit, HasDeployed, HasNamed
<1>5. PublishedIsUsable'
  BY <1>1 DEF PublishedIsUsable, Usable
<1>6. CopiesFit' /\ FileHasEveryNetwork'
  BY <1>1, <1>2 DEF CopiesFit, FileHasEveryNetwork
<1> QED
  BY <1>3, <1>4, <1>5, <1>6

LEMMA RestartNodeKeeps ==
    ASSUME DeploymentInv, NEW n \in Networks, RestartNode(n)
    PROVE  DeploymentInv'
<1> USE DEF DeploymentInv
<1>1. /\ txs' = [txs EXCEPT ![n] = <<>>]
      /\ contracts' = [contracts EXCEPT ![n] = {}]
      /\ published' = [published EXCEPT ![n] = NoEntry]
      /\ stage' = [stage EXCEPT ![n] = "idle"]
      /\ run' = [run EXCEPT ![n] = NoEntry]
      /\ copy' = [copy EXCEPT ![n] = Empty]
      /\ UNCHANGED <<file, garbled>>
  BY DEF RestartNode, Exit, Goto
<1>2. /\ stage'[n] = "idle" /\ published'[n] = NoEntry
      /\ \A m \in Networks \ {n} : /\ stage'[m] = stage[m] /\ run'[m] = run[m]
                                   /\ copy'[m] = copy[m] /\ published'[m] = published[m]
                                   /\ txs'[m] = txs[m] /\ contracts'[m] = contracts[m]
  BY <1>1 DEF DeploymentTypeOK, Entries
<1>3. DeploymentTypeOK'
  BY <1>1, KindNames DEF DeploymentTypeOK, Entries
<1>4. RunsFit'
  BY <1>2 DEF RunsFit, HasDeployed, HasNamed
<1>5. PublishedIsUsable'
  BY <1>2 DEF PublishedIsUsable, Usable
<1>6. CopiesFit' /\ FileHasEveryNetwork'
  BY <1>1, <1>2 DEF CopiesFit, FileHasEveryNetwork
<1> QED
  BY <1>3, <1>4, <1>5, <1>6

LEMMA DeploymentInvariance ==
    ASSUME DeploymentInv, [DeploymentNext]_deployment
    PROVE  DeploymentInv'
<1> USE DEF DeploymentInv
<1>1. ASSUME NEW n \in Networks, Start(n)
      PROVE  DeploymentInv'
  <2>1. /\ stage' = [stage EXCEPT ![n] = "PlatformRegistry"]
        /\ UNCHANGED <<txs, contracts, run, copy, file, published, garbled>>
    BY <1>1 DEF Start, Goto
  <2>2. stage'[n] = "PlatformRegistry" /\ \A m \in Networks \ {n} : stage'[m] = stage[m]
    BY <2>1 DEF DeploymentTypeOK
  <2>3. DeploymentTypeOK'
    BY <2>1, KindNames DEF DeploymentTypeOK
  <2>4. RunsFit'
    BY <2>1, <2>2 DEF RunsFit, HasDeployed, HasNamed
  <2>5. PublishedIsUsable' /\ CopiesFit' /\ FileHasEveryNetwork'
    BY <2>1, <2>2 DEF PublishedIsUsable, Usable, CopiesFit, FileHasEveryNetwork
  <2> QED
    BY <2>3, <2>4, <2>5
<1>2. ASSUME NEW n \in Networks, ForceRegister(n)
      PROVE  DeploymentInv'
  <2>1. /\ Mine(n, "call")
        /\ UNCHANGED <<contracts, stage, run, copy, file, published, garbled>>
    BY <1>2 DEF ForceRegister
  <2>2. /\ txs' \in [Networks -> Seq(Kinds \cup {"call"})]
        /\ \A m \in Networks : \A b, k : Holds(txs[m], b, k) => Holds(txs'[m], b, k)
    BY <2>1, MineAppends
  <2>3. DeploymentTypeOK'
    BY <2>1, <2>2 DEF DeploymentTypeOK
  <2>4. RunsFit' /\ CopiesFit' /\ FileHasEveryNetwork'
    BY <2>1, <2>2 DEF RunsFit, CopiesFit, FileHasEveryNetwork
  <2>5. PublishedIsUsable'
    BY <2>1, <2>2, UsableStays DEF PublishedIsUsable, DeploymentTypeOK, Entries
  <2> QED
    BY <2>3, <2>4, <2>5
<1>3. CASE UNCHANGED deployment
  BY <1>3 DEF deployment, DeploymentTypeOK, RunsFit, PublishedIsUsable, Usable, CopiesFit,
              FileHasEveryNetwork
<1> QED
  BY <1>1, <1>2, <1>3, DeployContractKeeps, SetContractKeeps, ReadFileKeeps, WriteFileKeeps,
     DyingKeeps, RestartNodeKeeps DEF DeploymentNext

LEMMA DeploymentStarts == AloneInit => DeploymentInv
<1> SUFFICES ASSUME DeploymentInit
             PROVE  DeploymentInv
  BY DEF AloneInit
<1>1. DeploymentTypeOK
  <2>1. file \in Entries /\ published \in Entries /\ garbled \in BOOLEAN
    BY KindNames DEF DeploymentInit
  <2> QED
    BY <2>1, KindNames DEF DeploymentInit, DeploymentTypeOK
<1>2. RunsFit /\ CopiesFit
  BY DEF DeploymentInit, RunsFit, HasDeployed, HasNamed, CopiesFit
<1>3. PublishedIsUsable /\ FileHasEveryNetwork
  BY KindNames DEF DeploymentInit, PublishedIsUsable, FileHasEveryNetwork, Empty
<1> QED
  BY <1>1, <1>2, <1>3 DEF DeploymentInv

LEMMA DeploymentAlways == AloneSpec => []DeploymentInv
<1>1. DeploymentInv /\ [AloneNext]_<<part, vars, deployment, migration, panelVars>>
          => DeploymentInv'
  BY StepsOfParts, DeploymentInvariance
<1> QED
  BY DeploymentStarts, <1>1, PTL DEF AloneSpec

\* Wherever deploy.ts dies and however often it is run, the addresses it has
\* published for a chain are those of contracts of the right kinds, which the
\* published registry names (deploy.ts:34-66).
THEOREM AddressesAreUsable == AloneSpec => []PublishedIsUsable
  BY DeploymentAlways, PTL DEF DeploymentInv

\* A deployment to one network leaves the entries of the others, unless two
\* scripts overlap at the file or a write is cut short (deploy.ts:69-128).
THEOREM EntriesAreKept == AloneSpec => []FileHasEveryNetwork
  BY DeploymentAlways, PTL DEF DeploymentInv

-----------------------------------------------------------------------------
(* Migration *)

\* A user of the source is in the target, or was passed over for another there.
Settled(u) ==
    \/ u \in Visible.users
    \/ ~force /\ \E v \in Visible.users : Clash(u, v)

CopiedSoFar ==
    ~touched =>
        /\ pc = "users" => /\ todo \subseteq source.users
                          /\ \A u \in source.users \ todo : Settled(u)
        /\ pc \in {"rows", "commit", "done"} => \A u \in source.users : Settled(u)
        /\ pc = "rows" => source.rows \ todo \subseteq Visible.rows
        /\ pc \in {"commit", "done"} => source.rows \subseteq Visible.rows

MigrationInv ==
    /\ {source, target, written} \subseteq Contents
    /\ pc \in {"idle", "failed", "done"} => written = Nothing
    /\ Consistent(source) /\ Consistent(target) /\ Consistent(Visible)
    /\ ~force => IdsOf(written) \cap IdsOf(target) = {}
    /\ CopiedSoFar

LEMMA ClashIsSymmetric ==
    ASSUME NEW u, NEW v
    PROVE  Clash(u, v) <=> Clash(v, u)
  BY DEF Clash

LEMMA OverParts ==
    ASSUME NEW a \in Contents, NEW b \in Contents
    PROVE  /\ Over(a, b) \in Contents
           /\ Over(a, b).users = {v \in a.users : v.id \notin IdsOf(b)} \cup b.users
           /\ Over(a, b).rows = a.rows \cup b.rows
           /\ IdsOf(Over(a, b)) = IdsOf(a) \cup IdsOf(b)
           /\ IdsOf(b) \cap IdsOf(a) = {} => a.users \subseteq Over(a, b).users
           /\ Over(a, Nothing) = a
           /\ Nothing \in Contents /\ IdsOf(Nothing) = {}
  BY DEF Over, Contents, Nothing, IdsOf

LEMMA PutParts ==
    ASSUME NEW d \in Contents, NEW u \in UserRow
    PROVE  /\ PutUser(d, u) \in Contents
           /\ PutUser(d, u).users = {v \in d.users : v.id # u.id} \cup {u}
           /\ PutUser(d, u).rows = d.rows
           /\ IdsOf(PutUser(d, u)) = IdsOf(d) \cup {u.id}
<1>1. /\ PutUser(d, u).users = {v \in d.users : v.id # u.id} \cup {u}
      /\ PutUser(d, u).rows = d.rows
      /\ PutUser(d, u) \in Contents
  BY DEF PutUser, Contents
<1>2. IdsOf(PutUser(d, u)) = IdsOf(d) \cup {u.id}
  BY <1>1 DEF IdsOf
<1> QED
  BY <1>1, <1>2

LEMMA RowAdded ==
    ASSUME NEW d \in Contents, NEW x \in Rows
    PROVE  /\ [d EXCEPT !.rows = @ \cup {x}] \in Contents
           /\ [d EXCEPT !.rows = @ \cup {x}].users = d.users
           /\ [d EXCEPT !.rows = @ \cup {x}].rows = d.rows \cup {x}
  BY DEF Contents

LEMMA ChangedParts ==
    ASSUME NEW d \in Contents, NEW e \in Changed(d)
    PROVE  e \in Contents
<1>1. ASSUME NEW u \in d.users
      PROVE  [users |-> d.users \ {u}, rows |-> {x \in d.rows : userOf[x] # u.id}] \in Contents
  BY DEF Contents
<1> QED
  BY <1>1, PutParts, RowAdded DEF Changed

\* No request on the target brings an id that the open transaction has inserted.
LEMMA ChangedIds ==
    ASSUME MigrationInv, NEW e \in Changed(target)
    PROVE  IdsOf(e) \cap IdsOf(written) \subseteq IdsOf(target)
<1>1. {source, target, written} \subseteq Contents
  BY DEF MigrationInv
<1>2. IdsOf(written) \subseteq IdsSeen
  BY <1>1, OverParts DEF IdsSeen, Visible
<1>3. ASSUME NEW u \in UserRow, e = PutUser(target, u), u.id \in IdsSeen => u.id \in IdsOf(target)
      PROVE  IdsOf(e) \cap IdsOf(written) \subseteq IdsOf(target)
  BY <1>1, <1>2, <1>3, PutParts
<1>4. ASSUME NEW x \in Rows, e = [target EXCEPT !.rows = @ \cup {x}]
      PROVE  IdsOf(e) \cap IdsOf(written) \subseteq IdsOf(target)
  <2>1. e.users = target.users
    BY <1>1, <1>4, RowAdded
  <2> QED
    BY <2>1 DEF IdsOf
<1>5. ASSUME NEW u \in target.users, e.users = target.users \ {u}
      PROVE  IdsOf(e) \cap IdsOf(written) \subseteq IdsOf(target)
  BY <1>5 DEF IdsOf
<1> QED
  BY <1>3, <1>4, <1>5 DEF Changed

\* A user inserted or updated where no other clashes with it.
LEMMA PutKeepsConsistent ==
    ASSUME NEW d \in Contents, NEW e \in Contents, NEW u \in UserRow, Consistent(d),
           e.users = {v \in d.users : v.id # u.id} \cup {u},
           e.rows = d.rows,
           \A v \in d.users : v.id # u.id => ~Clash(u, v)
    PROVE  Consistent(e)
<1>1. ASSUME NEW v \in e.users, NEW w \in e.users, Clash(v, w)
      PROVE  v = w
  BY <1>1, ClashIsSymmetric DEF Consistent
<1>2. IdsOf(d) \subseteq IdsOf(e)
  BY DEF IdsOf
<1> QED
  BY <1>1, <1>2 DEF Consistent

\* A statement that adds or updates a user leaves everybody who was settled so.
LEMMA CopyUserKeeps ==
    ASSUME MigrationInv, NEW u \in UserRow, CopyUser(u)
    PROVE  MigrationInv'
<1> USE DEF MigrationInv
<1>1. /\ pc = "users" /\ u \in todo /\ todo' = todo \ {u}
      /\ UNCHANGED <<email, userOf, source, target, pc, force, touched>>
  BY DEF CopyUser
<1>2. CASE /\ ~force /\ written' = written
           /\ \E v \in Visible.users : Clash(u, v)
  <2>1. Visible' = Visible
    BY <1>1, <1>2 DEF Visible
  <2>2. Consistent(source)' /\ Consistent(target)' /\ Consistent(Visible)'
    BY <1>1, <2>1 DEF Consistent, Clash
  <2>3. \A v : Settled(v)' = Settled(v)
    BY <1>1, <2>1 DEF Settled, Clash
  <2>4. Settled(u)
    BY <1>2 DEF Settled
  <2> QED
    BY <1>1, <1>2, <2>1, <2>2, <2>3, <2>4 DEF CopiedSoFar
<1>3. CASE /\ written' = PutUser(written, u)
           /\ \A v \in Visible.users : v.id # u.id => ~Clash(u, v)
           /\ force \/ \A v \in Visible.users : ~Clash(u, v)
  <2>1. /\ written' \in Contents
        /\ written'.users = {v \in written.users : v.id # u.id} \cup {u}
        /\ written'.rows = written.rows
        /\ IdsOf(written') = IdsOf(written) \cup {u.id}
    BY <1>3, PutParts
  <2>2. /\ Visible \in Contents /\ Visible' \in Contents
        /\ Visible.users = {v \in target.users : v.id \notin IdsOf(written)} \cup written.users
        /\ Visible'.users = {v \in target.users : v.id \notin IdsOf(written')} \cup written'.users
        /\ Visible'.rows = Visible.rows
        /\ IdsOf(Visible) = IdsOf(target) \cup IdsOf(written)
    <3>1. PICK w \in Contents : w = written'
      BY <2>1
    <3>2. Visible = Over(target, written) /\ Visible' = Over(target, w)
      BY <1>1, <3>1 DEF Visible
    <3>3. /\ Visible \in Contents /\ Over(target, w) \in Contents
          /\ Visible.users = {v \in target.users : v.id \notin IdsOf(written)} \cup written.users
          /\ Over(target, w).users = {v \in target.users : v.id \notin IdsOf(w)} \cup w.users
          /\ Over(target, w).rows = target.rows \cup w.rows
          /\ Visible.rows = target.rows \cup written.rows
          /\ IdsOf(Visible) = IdsOf(target) \cup IdsOf(written)
      BY <3>2, OverParts
    <3> QED
      BY <2>1, <3>1, <3>2, <3>3
  <2>3. Visible'.users = {v \in Visible.users : v.id # u.id} \cup {u}
    BY <2>1, <2>2
  <2>4. Consistent(source)' /\ Consistent(target)'
    BY <1>1 DEF Consistent, Clash
  <2>5. Consistent(Visible)'
    <3> DEFINE seen == Visible'
    <3>1. seen \in Contents /\ seen.users = {v \in Visible.users : v.id # u.id} \cup {u}
          /\ seen.rows = Visible.rows
      BY <2>2, <2>3
    <3> HIDE DEF seen
    <3>2. Consistent(seen)
      BY <1>3, <2>2, <3>1, PutKeepsConsistent
    <3> QED
      BY <1>1, <3>2 DEF Consistent, Clash, seen
  <2>6. ~force => u.id \notin IdsOf(Visible)
    BY <1>3 DEF IdsOf, Clash
  <2>7. ~force' => IdsOf(written') \cap IdsOf(target') = {}
    BY <1>1, <2>1, <2>2, <2>6
  <2>8. Settled(u)'
    BY <2>3 DEF Settled
  <2>9. ASSUME NEW v \in source.users, v # u, ~touched, Settled(v)
        PROVE  Settled(v)'
    <3>1. v.id # u.id
      BY <1>1, <2>9 DEF CopiedSoFar, Consistent, Clash
    <3>2. CASE v \in Visible.users
      BY <2>3, <3>1, <3>2 DEF Settled
    <3>3. ASSUME ~force, NEW w \in Visible.users, Clash(v, w)
          PROVE  Settled(v)'
      <4>1. w.id # u.id
        BY <2>6, <3>3 DEF IdsOf
      <4> QED
        BY <1>1, <2>3, <3>3, <4>1 DEF Settled, Clash
    <3> QED
      BY <2>9, <3>2, <3>3 DEF Settled
  <2>10. CopiedSoFar'
    BY <1>1, <2>8, <2>9 DEF CopiedSoFar
  <2> QED
    BY <1>1, <2>1, <2>4, <2>5, <2>7, <2>10
<1> QED
  BY <1>2, <1>3 DEF CopyUser, InsertOrSkip, InsertOrUpdate

LEMMA CopyRowKeeps ==
    ASSUME MigrationInv, NEW x \in Rows, CopyRow(x)
    PROVE  MigrationInv'
<1> USE DEF MigrationInv
<1>1. /\ pc = "rows" /\ x \in todo /\ todo' = todo \ {x}
      /\ UNCHANGED <<email, userOf, source, target, pc, force, touched>>
  BY DEF CopyRow
<1>2. \/ written' = written /\ x \in target.rows
      \/ written' = [written EXCEPT !.rows = @ \cup {x}] /\ userOf[x] \in IdsOf(Visible)
  BY DEF CopyRow
<1>3. /\ written' \in Contents
      /\ written'.users = written.users
      /\ written'.rows \subseteq written.rows \cup {x}
      /\ written.rows \subseteq written'.rows
      /\ x \in target.rows \cup written'.rows
  <2>1. CASE written' = written /\ x \in target.rows
    BY <2>1
  <2>2. CASE written' = [written EXCEPT !.rows = @ \cup {x}]
    <3>1. PICK w : w = written
      OBVIOUS
    <3>2. written' = [w EXCEPT !.rows = @ \cup {x}] /\ w \in Contents
      BY <2>2, <3>1
    <3> QED
      BY <3>1, <3>2, RowAdded
  <2> QED
    BY <1>2, <2>1, <2>2
<1>4. IdsOf(written') = IdsOf(written)
  BY <1>3 DEF IdsOf
<1>5. /\ Visible'.users = Visible.users
      /\ IdsOf(Visible') = IdsOf(Visible)
      /\ Visible'.rows = Visible.rows \cup {x}
  <2>1. PICK w \in Contents : w = written'
    BY <1>3
  <2>2. Visible = Over(target, written) /\ Visible' = Over(target, w)
    BY <1>1, <2>1 DEF Visible
  <2>3. /\ Visible.users = {v \in target.users : v.id \notin IdsOf(written)} \cup written.users
        /\ Over(target, w).users = {v \in target.users : v.id \notin IdsOf(w)} \cup w.users
        /\ Visible.rows = target.rows \cup written.rows
        /\ Over(target, w).rows = target.rows \cup w.rows
    BY <2>2, OverParts
  <2>4. Over(target, w).users = Visible.users
    BY <1>3, <1>4, <2>1, <2>3
  <2>5. Over(target, w).rows = Visible.rows \cup {x}
    BY <1>3, <2>1, <2>3
  <2> QED
    BY <2>2, <2>4, <2>5 DEF IdsOf
<1>6. Consistent(source)' /\ Consistent(target)'
  BY <1>1 DEF Consistent, Clash
<1>7. Consistent(Visible)'
  <2>1. userOf[x] \in IdsOf(Visible)
    BY <1>2, OverParts DEF Consistent, Visible
  <2> QED
    BY <2>1, <1>1, <1>5 DEF Consistent, Clash
<1>8. CopiedSoFar'
  <2>1. \A v : Settled(v)' = Settled(v)
    BY <1>1, <1>5 DEF Settled, Clash
  <2> QED
    BY <2>1, <1>1, <1>5 DEF CopiedSoFar
<1> QED
  BY <1>1, <1>3, <1>4, <1>6, <1>7, <1>8

\* The steps that insert nothing: what the transaction shows stays.
LEMMA FrameworkKeeps ==
    ASSUME MigrationInv, Begin \/ NextTable \/ Commit \/ RollBack
    PROVE  MigrationInv'
<1> USE DEF MigrationInv
<1>1. /\ Nothing \in Contents /\ IdsOf(Nothing) = {}
      /\ Over(target, Nothing) = target
      /\ Visible \in Contents /\ Over(Visible, Nothing) = Visible
  BY OverParts DEF Visible
<1>2. CASE Begin
  <2>1. /\ pc' = "users" /\ todo' = source.users /\ written' = Nothing /\ written = Nothing
        /\ UNCHANGED <<email, userOf, source, target>>
    BY <1>2 DEF Begin
  <2>2. Visible' = Visible
    BY <2>1 DEF Visible
  <2> QED
    BY <2>1, <2>2, <1>1 DEF Consistent, Clash, CopiedSoFar
<1>3. CASE NextTable
  <2>1. /\ todo = {} /\ pc \in {"users", "rows"}
        /\ pc' = IF pc = "users" THEN "rows" ELSE "commit"
        /\ todo' = IF pc = "users" THEN source.rows ELSE {}
        /\ UNCHANGED <<email, userOf, source, target, force, written, touched>>
    BY <1>3 DEF NextTable
  <2>2. Visible' = Visible /\ \A u : Settled(u)' = Settled(u)
    BY <2>1 DEF Visible, Settled, Clash
  <2>3. Consistent(source)' /\ Consistent(target)' /\ Consistent(Visible)'
    BY <2>1, <2>2 DEF Consistent, Clash
  <2> QED
    BY <2>1, <2>2, <2>3 DEF CopiedSoFar
<1>4. CASE Commit
  <2>1. /\ pc = "commit" /\ pc' = "done" /\ target' = Visible /\ written' = Nothing
        /\ UNCHANGED <<email, userOf, source, force, todo, touched>>
    BY <1>4 DEF Commit
  <2>2. Visible' = Visible
    BY <2>1, <1>1 DEF Visible
  <2>3. \A u : Settled(u)' = Settled(u)
    BY <2>1, <2>2 DEF Settled, Clash
  <2>4. Consistent(source)' /\ Consistent(target)' /\ Consistent(Visible)'
    BY <2>1, <2>2 DEF Consistent, Clash
  <2> QED
    BY <2>1, <2>2, <2>3, <2>4, <1>1 DEF CopiedSoFar
<1>5. CASE RollBack
  <2>1. /\ pc' = "failed" /\ written' = Nothing
        /\ UNCHANGED <<email, userOf, source, target>>
    BY <1>5 DEF RollBack
  <2>2. Visible' = target
    BY <2>1, <1>1 DEF Visible
  <2> QED
    BY <2>1, <2>2, <1>1 DEF Consistent, Clash, CopiedSoFar
<1> QED
  BY <1>2, <1>3, <1>4, <1>5

LEMMA MigrationInvariance ==
    ASSUME MigrationInv, [MigrationNext]_migration
    PROVE  MigrationInv'
<1> USE DEF MigrationInv
<1>1. CASE ChangeSource
  <2>1. /\ source' \in Contents /\ Consistent(source') /\ touched'
        /\ UNCHANGED <<email, userOf, target, pc, force, todo, written>>
    BY <1>1, ChangedParts DEF ChangeSource
  <2> QED
    BY <2>1 DEF CopiedSoFar, Consistent, Clash, Visible
<1>2. CASE ChangeTarget
  <2>1. PICK d \in Changed(target) :
            target' = d /\ Consistent(d) /\ Consistent(Over(d, written))
    BY <1>2 DEF ChangeTarget
  <2>2. touched' /\ UNCHANGED <<email, userOf, source, pc, force, todo, written>>
    BY <1>2 DEF ChangeTarget
  <2>3. d \in Contents /\ IdsOf(d) \cap IdsOf(written) \subseteq IdsOf(target)
    BY ChangedParts, ChangedIds
  <2>4. Visible' = Over(d, written)
    BY <2>1, <2>2 DEF Visible
  <2>5. Consistent(source)' /\ Consistent(target)' /\ Consistent(Visible)'
    BY <2>1, <2>2, <2>4 DEF Consistent, Clash
  <2>6. CopiedSoFar'
    BY <2>2 DEF CopiedSoFar
  <2>7. ~force' => IdsOf(written') \cap IdsOf(target') = {}
    BY <2>1, <2>2, <2>3
  <2> QED
    BY <2>1, <2>2, <2>3, <2>5, <2>6, <2>7
<1>3. CASE UNCHANGED migration
  <2>1. UNCHANGED <<email, userOf, source, target, pc, force, todo, written, touched>>
    BY <1>3 DEF migration
  <2>2. Visible' = Visible /\ \A u : Settled(u)' = Settled(u)
    BY <2>1 DEF Visible, Settled, Clash
  <2> QED
    BY <2>1, <2>2 DEF CopiedSoFar, Consistent, Clash
<1> QED
  BY <1>1, <1>2, <1>3, CopyUserKeeps, CopyRowKeeps, FrameworkKeeps DEF MigrationNext

LEMMA MigrationStarts == AloneInit => MigrationInv
<1> SUFFICES ASSUME AloneInit
             PROVE  MigrationInv
  OBVIOUS
<1>1. Nothing \in Contents /\ Consistent(Nothing) /\ IdsOf(Nothing) = {}
  BY DEF Nothing, Contents, Consistent, IdsOf
<1>2. /\ {source, target, written} \subseteq Contents
      /\ Consistent(source) /\ Consistent(target)
      /\ pc = "idle" /\ written = Nothing
  BY <1>1 DEF AloneInit, MigrationInit
<1> QED
  BY <1>1, <1>2, OverParts DEF MigrationInv, CopiedSoFar, Visible

LEMMA MigrationAlways == AloneSpec => []MigrationInv
<1>1. MigrationInv /\ [AloneNext]_<<part, vars, deployment, migration, panelVars>>
          => MigrationInv'
  BY StepsOfParts, MigrationInvariance
<1> QED
  BY MigrationStarts, <1>1, PTL DEF AloneSpec

\* A migration that succeeds with no request served meanwhile has copied every
\* row, and with --force every user; without, a user is passed over only for a
\* user there with its id, e-mail or wallet, and one that is then missing had no
\* rows (migrate-sqlite-to-postgres.ts:40-71, initDb.ts:18-24).
THEOREM NothingIsLeftBehind == AloneSpec => []SuccessCopiesEverything
<1>1. MigrationInv => SuccessCopiesEverything
  <2> SUFFICES ASSUME MigrationInv, pc = "done", ~touched
               PROVE  /\ source.rows \subseteq target.rows
                      /\ \A u \in source.users \ target.users :
                             /\ ~force
                             /\ \E v \in target.users : Clash(u, v)
                             /\ u.id \notin IdsOf(target) =>
                                    \A x \in source.rows : userOf[x] # u.id
    BY DEF SuccessCopiesEverything
  <2>1. Visible = target
    BY OverParts DEF MigrationInv, Visible
  <2>2. source.rows \subseteq target.rows
    BY <2>1 DEF MigrationInv, CopiedSoFar
  <2>3. \A x \in source.rows : userOf[x] \in IdsOf(target)
    BY <2>2 DEF MigrationInv, Consistent
  <2> QED
    BY <2>1, <2>2, <2>3 DEF MigrationInv, CopiedSoFar, Settled
<1> QED
  BY MigrationAlways, <1>1, PTL

\* The script changes the target only when it succeeds, then removes no user and
\* no row, changes no user without --force, and leaves the constraints satisfied
\* (migrate-sqlite-to-postgres.ts:6-7, 50-55, 78).
THEOREM MigrationAddsOrNothing == AloneSpec => MigrationOnlyAdds
<1> DEFINE OnlyAdds == pc' # pc /\ target' # target =>
               /\ pc' = "done"
               /\ IdsOf(target) \subseteq IdsOf(target')
               /\ target.rows \subseteq target'.rows
               /\ ~force => target.users \subseteq target'.users
               /\ Consistent(target')
<1>1. ASSUME MigrationInv, [AloneNext]_<<part, vars, deployment, migration, panelVars>>
      PROVE  [OnlyAdds]_migration
  <2>1. CASE Commit
    <3>1. pc' = "done" /\ target' = Visible /\ UNCHANGED <<email, userOf>>
      BY <2>1 DEF Commit
    <3>2. /\ target \in Contents /\ written \in Contents /\ Consistent(Visible)
          /\ ~force => IdsOf(written) \cap IdsOf(target) = {}
      BY <1>1 DEF MigrationInv
    <3>3. /\ IdsOf(target) \subseteq IdsOf(Visible)
          /\ target.rows \subseteq Visible.rows
          /\ ~force => target.users \subseteq Visible.users
      BY <3>2, OverParts DEF Visible
    <3> QED
      BY <3>1, <3>2, <3>3 DEF Consistent, Clash
  <2>2. CASE pc' = pc \/ target' = target
    BY <2>2
  <2>3. MigrationNext => Commit \/ pc' = pc \/ target' = target
    BY DEF MigrationNext, Begin, NextTable, RollBack, CopyUser, CopyRow, ChangeSource,
           ChangeTarget
  <2> QED
    BY <2>1, <2>2, <2>3, <1>1, StepsOfParts
<1> QED
  BY MigrationAlways, <1>1, PTL DEF AloneSpec, MigrationOnlyAdds

-----------------------------------------------------------------------------
(* ChainPanel *)

Truth(w) == IF w \in registered THEN w ELSE None

\* The last question is about the connected wallet and still counts ...
LastCounts ==
    /\ queries # <<>>
    /\ queries[Len(queries)].of = wallet
    /\ ~queries[Len(queries)].overtaken
    /\ queries[Len(queries)].read => queries[Len(queries)].result = Truth(wallet)

\* ... or it has been answered, and no other counts any more.
LastAnswered ==
    /\ \A i \in DOMAIN queries : queries[i].overtaken
    /\ onChainUser = Truth(wallet)

\* A question of the handler is about its wallet and who signs is a wallet; and
\* undisturbed, the panel is about to hear of the connected wallet, or has heard.
PanelInv ==
    /\ ChainPanelTypeOK
    /\ registering # Idle => registering.for \in Wallets
    /\ registering.at = "sign" => registering.signer \in Wallets
    /\ ~disturbed =>
           /\ deployed
           /\ registering # Idle => wallet # None /\ registering.for = wallet
           /\ wallet # None => LastCounts \/ LastAnswered
Question == [of : Wallets, read : BOOLEAN, result : MaybeWallet,
             overtaken : BOOLEAN, byHandler : BOOLEAN]

\* RemoveAt closes the gap: what came after moves one place forward.
LEMMA Removed ==
    ASSUME NEW S, NEW s \in Seq(S), NEW i \in DOMAIN s
    PROVE  /\ RemoveAt(s, i) \in Seq(S)
           /\ Len(RemoveAt(s, i)) = Len(s) - 1
           /\ \A j \in 1..(Len(s) - 1) :
                  RemoveAt(s, i)[j] = IF j < i THEN s[j] ELSE s[j + 1]
<1> DEFINE before == SubSeq(s, 1, i - 1)
           after == SubSeq(s, i + 1, Len(s))
<1>1. i \in 1..Len(s) /\ Len(s) \in Nat
  OBVIOUS
<1>2. before \in Seq(S) /\ Len(before) = i - 1 /\ \A j \in 1..(i - 1) : before[j] = s[j]
  BY <1>1
<1>3. after \in Seq(S) /\ Len(after) = Len(s) - i
      /\ \A j \in 1..(Len(s) - i) : after[j] = s[i + j]
  BY <1>1
<1>4. RemoveAt(s, i) = before \o after
  BY DEF RemoveAt
<1> HIDE DEF before, after
<1>5. /\ before \o after \in Seq(S)
      /\ Len(before \o after) = Len(s) - 1
      /\ \A j \in 1..(Len(s) - 1) :
             (before \o after)[j] = IF j < i THEN before[j] ELSE after[j - i + 1]
  BY <1>1, <1>2, <1>3
<1>6. \A j \in 1..(Len(s) - 1) : ~(j < i) => after[j - i + 1] = s[j + 1]
  BY <1>1, <1>3
<1> QED
  BY <1>1, <1>2, <1>4, <1>5, <1>6

\* What the list holds, field by field.
LEMMA Questions ==
    ASSUME ChainPanelTypeOK, NEW i \in DOMAIN queries
    PROVE  /\ queries \in Seq(Question) /\ queries[i] \in Question
           /\ i \in 1..Len(queries) /\ Len(queries) \in Nat
           /\ queries[i].of \in Wallets /\ queries[i].result \in MaybeWallet
           /\ queries[i].overtaken \in BOOLEAN
<1>1. queries \in Seq(Question)
  BY DEF ChainPanelTypeOK, Question
<1>2. queries[i] \in Question /\ i \in 1..Len(queries) /\ Len(queries) \in Nat
  BY <1>1
<1> QED
  BY <1>1, <1>2 DEF Question

\* The question at place j, when the one at place i is settled.
Marked(q, j, i) == [q EXCEPT !.overtaken = @ \/ j < i]

LEMMA Marking ==
    ASSUME NEW q \in Question, NEW j \in Int, NEW i \in Int
    PROVE  /\ Marked(q, j, i) \in Question
           /\ j < i => Marked(q, j, i).overtaken
           /\ ~(j < i) => Marked(q, j, i) = q
<1>1. CASE j < i
  BY <1>1 DEF Marked, Question
<1>2. CASE ~(j < i)
  BY <1>2 DEF Marked, Question
<1> QED
  BY <1>1, <1>2

\* The questions Settle(i, _) leaves, and which of them have been overtaken.
LEMMA SettledLeaves ==
    ASSUME ChainPanelTypeOK, NEW i \in DOMAIN queries, NEW result \in MaybeWallet,
           Settle(i, result), disturbed' \in BOOLEAN
    PROVE  /\ ChainPanelTypeOK'
           /\ Len(queries') = Len(queries) - 1 /\ Len(queries) \in Nat
           /\ \A j \in 1..(i - 1) : queries'[j].overtaken
           /\ \A j \in i..(Len(queries) - 1) : queries'[j] = queries[j + 1]
           /\ i \in 1..Len(queries)
<1> DEFINE marked == [j \in DOMAIN queries |-> Marked(queries[j], j, i)]
<1>1. queries \in Seq(Question)
  BY DEF ChainPanelTypeOK, Question
<1>2. /\ i \in 1..Len(queries) /\ Len(queries) \in Nat /\ DOMAIN queries = 1..Len(queries)
      /\ \A j \in 1..Len(queries) : queries[j] \in Question
  BY <1>1
<1>3. \A j \in 1..Len(queries) :
          /\ Marked(queries[j], j, i) \in Question
          /\ j < i => Marked(queries[j], j, i).overtaken
          /\ ~(j < i) => Marked(queries[j], j, i) = queries[j]
  BY <1>2, Marking
<1>4. marked \in Seq(Question) /\ Len(marked) = Len(queries)
      /\ DOMAIN marked = 1..Len(queries)
  <2>1. marked = [j \in 1..Len(queries) |-> Marked(queries[j], j, i)]
    BY <1>2
  <2>2. marked \in [1..Len(queries) -> Question]
    BY <2>1, <1>3
  <2> HIDE DEF marked
  <2> QED
    BY <2>2, <1>2
<1>5. \A j \in 1..Len(queries) :
          /\ j < i => marked[j].overtaken
          /\ ~(j < i) => marked[j] = queries[j]
  BY <1>2, <1>3
<1>6. queries' = RemoveAt(marked, i)
  BY DEF Settle, Marked
<1> HIDE DEF marked
<1>7. /\ queries' \in Seq(Question)
      /\ Len(queries') = Len(queries) - 1
      /\ \A j \in 1..(Len(queries) - 1) :
             queries'[j] = IF j < i THEN marked[j] ELSE marked[j + 1]
  BY <1>2, <1>4, <1>6, Removed
<1>8. ChainPanelTypeOK'
  <2>1. /\ onChainUser' = result /\ chainLoading' = FALSE
        /\ UNCHANGED <<wallet, registered, deployed>>
        /\ registering' = registering \/ registering' = Idle
    BY DEF Settle, chain
  <2>2. Idle \in [at : {"idle", "signer", "sign", "refresh"},
                  for : MaybeWallet, signer : MaybeWallet]
    BY DEF Idle, MaybeWallet
  <2>3. registering' \in [at : {"idle", "signer", "sign", "refresh"},
                          for : MaybeWallet, signer : MaybeWallet]
    BY <2>1, <2>2 DEF ChainPanelTypeOK
  <2> QED
    BY <2>1, <2>3, <1>7 DEF ChainPanelTypeOK, Question
<1>9. \A j \in 1..(i - 1) : queries'[j].overtaken
  BY <1>2, <1>5, <1>7
<1>10. \A j \in i..(Len(queries) - 1) : queries'[j] = queries[j + 1]
  BY <1>2, <1>5, <1>7
<1> QED
  BY <1>2, <1>7, <1>8, <1>9, <1>10

LEMMA AnswerKeeps ==
    ASSUME PanelInv, NEW i \in DOMAIN queries, Answer(i)
    PROVE  PanelInv'
<1>1. ChainPanelTypeOK
  BY DEF PanelInv
<1>2. queries[i] \in Question /\ queries[i].read /\ Settle(i, queries[i].result)
      /\ disturbed' = (disturbed \/ queries[i].overtaken)
  BY <1>1, Questions DEF Answer, Disturb
<1>3. queries[i].result \in MaybeWallet /\ disturbed' \in BOOLEAN
  BY <1>1, <1>2, Questions DEF ChainPanelTypeOK
<1>4. /\ ChainPanelTypeOK'
      /\ Len(queries') = Len(queries) - 1 /\ Len(queries) \in Nat
      /\ \A j \in 1..(i - 1) : queries'[j].overtaken
      /\ \A j \in i..(Len(queries) - 1) : queries'[j] = queries[j + 1]
      /\ i \in 1..Len(queries)
  BY <1>1, <1>2, <1>3, SettledLeaves
<1>5. /\ onChainUser' = queries[i].result
      /\ UNCHANGED <<wallet, registered, deployed>>
      /\ registering' \in {Idle, registering}
  BY <1>2 DEF Settle, chain
<1>6. queries' \in Seq(Question) /\ DOMAIN queries' = 1..(Len(queries) - 1)
  BY <1>4 DEF ChainPanelTypeOK, Question
<1>7. ASSUME ~disturbed', wallet # None
      PROVE  LastCounts' \/ LastAnswered'
  <2>1. ~disturbed /\ ~queries[i].overtaken
    BY <1>2, <1>7
  <2>2. LastCounts
    BY <2>1, <1>7 DEF PanelInv, LastAnswered
  <2>3. CASE i = Len(queries)
    <3>1. onChainUser' = Truth(wallet)
      BY <2>2, <2>3, <1>2, <1>5 DEF LastCounts
    <3>2. Truth(wallet)' = Truth(wallet)
      BY <1>5 DEF Truth
    <3> QED
      BY <3>1, <3>2, <2>3, <1>4, <1>5, <1>6 DEF LastAnswered, Truth
  <2>4. CASE i # Len(queries)
    <3>1. Len(queries) - 1 \in i..(Len(queries) - 1)
      BY <2>4, <1>4
    <3>2. queries'[Len(queries')] = queries[Len(queries)] /\ queries' # <<>>
      BY <3>1, <1>4, <1>6
    <3> QED
      BY <3>2, <2>2, <1>5 DEF LastCounts, Truth
  <2> QED
    BY <2>3, <2>4
<1>8. ASSUME ~disturbed'
      PROVE  deployed' /\ (registering' # Idle => wallet' # None /\ registering'.for = wallet')
  BY <1>8, <1>2, <1>5 DEF PanelInv
<1>9. /\ registering' # Idle => registering'.for \in Wallets
      /\ registering'.at = "sign" => registering'.signer \in Wallets
  BY <1>5 DEF PanelInv, Idle
<1> QED
  BY <1>4, <1>5, <1>7, <1>8, <1>9 DEF PanelInv
LEMMA Appended ==
    ASSUME ChainPanelTypeOK, NEW w \in Wallets, NEW byHandler \in BOOLEAN
    PROVE  Append(queries, Query(w, byHandler)) \in Seq(Question)
<1>1. Query(w, byHandler) \in Question
  BY DEF Query, Question, MaybeWallet
<1>2. queries \in Seq(Question)
  BY DEF ChainPanelTypeOK, Question
<1> QED
  BY <1>1, <1>2

\* Changing the wallet, or a registration, asks a question that comes last.
LEMMA AppendedCounts ==
    ASSUME ChainPanelTypeOK, NEW w \in Wallets, NEW byHandler \in BOOLEAN,
           queries' = Append(queries, Query(w, byHandler)), wallet' = w
    PROVE  queries' \in Seq(Question) /\ LastCounts'
<1>1. Query(w, byHandler) \in Question
  BY DEF Query, Question, MaybeWallet
<1>2. queries \in Seq(Question)
  BY DEF ChainPanelTypeOK, Question
<1>3. /\ queries' \in Seq(Question) /\ queries' # <<>>
      /\ queries'[Len(queries')] = Query(w, byHandler)
  BY <1>1, <1>2
<1> QED
  BY <1>3 DEF LastCounts, Query

LEMMA ChangeWalletKeeps ==
    ASSUME PanelInv, NEW w \in MaybeWallet, ChangeWallet(w)
    PROVE  PanelInv'
<1>1. /\ wallet' = w
      /\ queries' = IF w = None THEN queries ELSE Append(queries, Query(w, FALSE))
      /\ chainLoading' = (chainLoading \/ w # None)
      /\ disturbed' = (disturbed \/ registering # Idle)
      /\ UNCHANGED <<onChainUser, registering, registered, deployed>>
  BY DEF ChangeWallet, Disturb, chain
<1>2. ChainPanelTypeOK
  BY DEF PanelInv
<1>3. w # None => w \in Wallets /\ queries' \in Seq(Question) /\ LastCounts'
  BY <1>1, <1>2, AppendedCounts DEF MaybeWallet
<1>4. queries' \in Seq(Question)
  BY <1>1, <1>2, <1>3 DEF ChainPanelTypeOK, Question
<1>5. ChainPanelTypeOK'
  BY <1>1, <1>2, <1>4 DEF ChainPanelTypeOK, Question
<1> QED
  BY <1>1, <1>3, <1>5 DEF PanelInv

LEMMA ReadChainKeeps ==
    ASSUME PanelInv, NEW i \in DOMAIN queries, ReadChain(i)
    PROVE  PanelInv'
<1> DEFINE found == IF deployed /\ queries[i].of \in registered THEN queries[i].of ELSE None
           answered == [queries[i] EXCEPT !.read = TRUE, !.result = found]
<1>1. ChainPanelTypeOK /\ queries \in Seq(Question)
  BY DEF PanelInv, ChainPanelTypeOK, Question
<1>2. /\ i \in 1..Len(queries) /\ Len(queries) \in Nat /\ queries[i] \in Question
      /\ found \in MaybeWallet
  <2>1. queries[i].of \in Wallets
    BY <1>1, Questions
  <2> QED
    BY <2>1, <1>1, Questions DEF MaybeWallet
<1>3. /\ ~queries[i].read /\ queries' = [queries EXCEPT ![i] = answered]
      /\ UNCHANGED <<wallet, onChainUser, chainLoading, registering, registered, deployed,
                     disturbed>>
  BY <1>1, <1>2 DEF ReadChain, chain
<1>4. /\ answered \in Question /\ answered.read /\ answered.result = found
      /\ answered.of = queries[i].of /\ answered.overtaken = queries[i].overtaken
  BY <1>2 DEF Question
<1> HIDE DEF answered
<1>5. /\ queries' \in Seq(Question) /\ Len(queries') = Len(queries)
      /\ DOMAIN queries' = DOMAIN queries
      /\ queries'[i] = answered
      /\ \A j \in DOMAIN queries \ {i} : queries'[j] = queries[j]
  BY <1>1, <1>2, <1>3, <1>4
<1>6. ChainPanelTypeOK'
  BY <1>1, <1>3, <1>5 DEF ChainPanelTypeOK, Question
<1>7. ASSUME LastCounts, deployed
      PROVE  LastCounts'
  <2>1. Len(queries) \in DOMAIN queries /\ queries' # <<>>
    BY <1>1, <1>2, <1>5
  <2> QED
    BY <2>1, <1>3, <1>4, <1>5, <1>7 DEF LastCounts, Truth
<1>8. ASSUME LastAnswered
      PROVE  LastAnswered'
  BY <1>3, <1>4, <1>5, <1>8 DEF LastAnswered, Truth
<1> QED
  BY <1>3, <1>6, <1>7, <1>8 DEF PanelInv

\* Where handleRegisterOnChain can be.
Steps == [at : {"idle", "signer", "sign", "refresh"}, for : MaybeWallet, signer : MaybeWallet]

LEMMA RegisteredKeeps ==
    ASSUME PanelInv, Registered
    PROVE  PanelInv'
<1>1. /\ registering.at = "sign"
      /\ registered' = IF deployed THEN registered \cup {registering.signer} ELSE registered
      /\ registering' = [registering EXCEPT !.at = "refresh"]
      /\ queries' = Append(queries, Query(registering.for, TRUE))
      /\ chainLoading' = TRUE
      /\ UNCHANGED <<wallet, onChainUser, deployed, disturbed>>
  BY DEF Registered
<1>2. ChainPanelTypeOK /\ queries \in Seq(Question) /\ registering \in Steps
  BY DEF PanelInv, ChainPanelTypeOK, Question, Steps
<1>3. registering # Idle /\ registering.for \in Wallets /\ registering.signer \in Wallets
  BY <1>1 DEF PanelInv, Idle
<1>4. registering' \in Steps /\ registering'.at = "refresh" /\ registering'.for = registering.for
  BY <1>1, <1>2 DEF Steps
<1>5. queries' \in Seq(Question)
  <2>1. Append(queries, Query(registering.for, TRUE)) \in Seq(Question)
    BY <1>2, <1>3, Appended
  <2> QED
    BY <2>1, <1>1
<1>6. ChainPanelTypeOK'
  BY <1>1, <1>2, <1>3, <1>4, <1>5 DEF ChainPanelTypeOK, Question, Steps
<1>7. ~disturbed => wallet # None /\ registering.for = wallet /\ deployed
  BY <1>3 DEF PanelInv
<1>8. ~disturbed => LastCounts'
  BY <1>1, <1>2, <1>3, <1>7, AppendedCounts
<1> QED
  BY <1>1, <1>3, <1>4, <1>6, <1>7, <1>8 DEF PanelInv

LEMMA HandlerKeeps ==
    ASSUME PanelInv, ClickRegister \/ GetSigner \/ RegistrationFails
    PROVE  PanelInv'
<1>1. /\ UNCHANGED <<wallet, queries, onChainUser, chainLoading, registered, deployed, disturbed>>
      /\ \/ registering' = Idle
         \/ wallet # None /\ registering = Idle
            /\ registering' = [at |-> "signer", for |-> wallet, signer |-> None]
         \/ wallet # None /\ registering.at = "signer"
            /\ registering' = [registering EXCEPT !.at = "sign", !.signer = wallet]
  BY DEF ClickRegister, GetSigner, RegistrationFails, chain
<1>2. registering \in Steps /\ wallet \in MaybeWallet /\ ChainPanelTypeOK
  BY DEF PanelInv, ChainPanelTypeOK, Steps
<1>3. (LastCounts <=> LastCounts') /\ (LastAnswered <=> LastAnswered')
  BY <1>1 DEF LastCounts, LastAnswered, Truth
<1>4. CASE registering' = Idle
  BY <1>1, <1>2, <1>3, <1>4 DEF PanelInv, ChainPanelTypeOK, Idle, MaybeWallet
<1>5. CASE /\ wallet # None
           /\ registering' = [at |-> "signer", for |-> wallet, signer |-> None]
  BY <1>1, <1>2, <1>3, <1>5 DEF PanelInv, ChainPanelTypeOK, MaybeWallet
<1>6. CASE /\ wallet # None /\ registering.at = "signer"
           /\ registering' = [registering EXCEPT !.at = "sign", !.signer = wallet]
  <2>1. /\ registering' \in Steps /\ registering'.at = "sign" /\ registering'.signer = wallet
        /\ registering'.for = registering.for
    BY <1>2, <1>6 DEF Steps
  <2>2. registering # Idle
    BY <1>6 DEF Idle
  <2> QED
    BY <2>1, <2>2, <1>1, <1>2, <1>3, <1>6 DEF PanelInv, ChainPanelTypeOK, MaybeWallet, Steps
<1> QED
  BY <1>1, <1>4, <1>5, <1>6

LEMMA PanelInvariance ==
    ASSUME PanelInv, [ChainPanelNext]_panelVars
    PROVE  PanelInv'
<1>1. ASSUME NEW i \in DOMAIN queries, Timeout(i)
      PROVE  PanelInv'
  <2>1. ChainPanelTypeOK /\ Settle(i, None) /\ disturbed' = TRUE /\ None \in MaybeWallet
    BY <1>1 DEF Timeout, Disturb, PanelInv, MaybeWallet
  <2>2. ChainPanelTypeOK'
    BY <2>1, SettledLeaves
  <2>3. registering' = registering \/ registering' = Idle
    BY <2>1 DEF Settle
  <2> QED
    BY <2>1, <2>2, <2>3 DEF PanelInv, Idle
<1>2. CASE NodeRestarts
  BY <1>2 DEF NodeRestarts, Disturb, panel, PanelInv, ChainPanelTypeOK
<1>3. CASE Redeploy
  BY <1>3 DEF Redeploy, panel, PanelInv, ChainPanelTypeOK
<1>4. CASE UNCHANGED panelVars
  BY <1>4 DEF panelVars, panel, chain, PanelInv, ChainPanelTypeOK, LastCounts, LastAnswered, Truth
<1>5. ASSUME NEW w \in Wallets, RegisterElsewhere(w)
      PROVE  PanelInv'
  <2>1. /\ UNCHANGED <<panel, deployed>> /\ registered' = registered \cup {w}
        /\ disturbed' = (disturbed \/ w = wallet)
    BY <1>5 DEF RegisterElsewhere, Disturb
  <2>2. ~disturbed' => Truth(wallet)' = Truth(wallet)
    BY <2>1 DEF Truth, panel
  <2>3. ChainPanelTypeOK' /\ disturbed \in BOOLEAN
    BY <2>1 DEF panel, PanelInv, ChainPanelTypeOK
  <2>4. ~disturbed' => ~disturbed
    BY <2>1
  <2> QED
    BY <2>1, <2>2, <2>3, <2>4 DEF panel, PanelInv, LastCounts, LastAnswered
<1> QED
  BY <1>1, <1>2, <1>3, <1>4, <1>5, ChangeWalletKeeps, ReadChainKeeps, AnswerKeeps, RegisteredKeeps,
     HandlerKeeps DEF ChainPanelNext

LEMMA PanelAlways == AloneSpec => []PanelInv
<1>1. AloneInit => PanelInv
  <2>1. ASSUME ChainPanelInit
        PROVE  PanelInv
    <3>1. queries \in Seq([of : Wallets, read : BOOLEAN, result : MaybeWallet,
                           overtaken : BOOLEAN, byHandler : BOOLEAN])
      BY <2>1 DEF ChainPanelInit
    <3> QED
      BY <2>1, <3>1 DEF ChainPanelInit, PanelInv, ChainPanelTypeOK, Idle, MaybeWallet
  <2> QED
    BY <2>1 DEF AloneInit
<1>2. PanelInv /\ [AloneNext]_<<part, vars, deployment, migration, panelVars>> => PanelInv'
  BY StepsOfParts, PanelInvariance
<1> QED
  BY <1>1, <1>2, PTL DEF AloneSpec

\* Once nothing is under way, the panel shows the on-chain account of the
\* connected wallet and of no other, whatever order the wallets change and the
\* node answers in, unless something disturbed it (DashboardPage.tsx:113-177).
THEOREM PanelIsTruthful == AloneSpec => []PanelShowsConnectedWallet
<1>1. PanelInv => PanelShowsConnectedWallet
  BY DEF PanelInv, PanelShowsConnectedWallet, LastCounts, LastAnswered, Truth
<1> QED
  BY PanelAlways, <1>1, PTL

-----------------------------------------------------------------------------
(* Types *)

LEMMA MigrationTypeStarts ==
    ASSUME AloneInit
    PROVE  MigrationTypeOK
<1>1. email \in [Users -> Emails] /\ userOf \in [Rows -> Users]
  <2>1. (CHOOSE e \in Emails : TRUE) \in Emails /\ (CHOOSE u \in Users : TRUE) \in Users
    BY SomeUser
  <2> QED
    BY <2>1 DEF AloneInit, MigrationInit
<1>2. {source, target, written} \subseteq Contents
  BY MigrationStarts DEF MigrationInv
<1> QED
  BY <1>1, <1>2 DEF AloneInit, MigrationInit, MigrationTypeOK

LEMMA MigrationTypeInvariance ==
    ASSUME MigrationTypeOK, MigrationInv, MigrationInv', [MigrationNext]_migration
    PROVE  MigrationTypeOK'
<1> USE DEF MigrationTypeOK
<1>1. {source, target, written} \subseteq Contents /\ {source, target, written}' \subseteq Contents
  BY DEF MigrationInv
<1>2. source.users \subseteq UserRow /\ source.rows \subseteq Rows
  BY <1>1 DEF Contents
<1>3. CASE Begin
  BY <1>1, <1>2, <1>3 DEF Begin
<1>4. CASE NextTable
  BY <1>1, <1>2, <1>4 DEF NextTable
<1>5. CASE Commit \/ RollBack
  BY <1>1, <1>5 DEF Commit, RollBack
<1>6. CASE ChangeSource \/ ChangeTarget
  BY <1>1, <1>6 DEF ChangeSource, ChangeTarget
<1>7. ASSUME NEW u \in UserRow, CopyUser(u)
      PROVE  MigrationTypeOK'
  BY <1>1, <1>7 DEF CopyUser
<1>8. ASSUME NEW x \in Rows, CopyRow(x)
      PROVE  MigrationTypeOK'
  BY <1>1, <1>8 DEF CopyRow
<1>9. CASE UNCHANGED migration
  BY <1>9 DEF migration
<1> QED
  BY <1>3, <1>4, <1>5, <1>6, <1>7, <1>8, <1>9 DEF MigrationNext

\* Every variable of the four parts keeps its type; for the token this says
\* that no balance and no supply leaves uint256 (CustomToken.sol:76-82).
THEOREM AloneTypeCorrect == AloneSpec => []AloneTypeOK
<1> DEFINE Inv == MigrationInv /\ MigrationTypeOK
<1>1. AloneInit => Inv
  BY MigrationStarts, MigrationTypeStarts
<1>2. Inv /\ [AloneNext]_<<part, vars, deployment, migration, panelVars>> => Inv'
  BY StepsOfParts, MigrationInvariance, MigrationTypeInvariance
<1>3. AloneSpec => []Inv
  <2> HIDE DEF Inv
  <2> QED
    BY <1>1, <1>2, PTL DEF AloneSpec
<1>4. TokenInv /\ DeploymentInv /\ Inv /\ PanelInv => AloneTypeOK
  BY DEF TokenInv, DeploymentInv, PanelInv, AloneTypeOK
<1> QED
  BY TokenAlways, DeploymentAlways, <1>3, PanelAlways, <1>4, PTL

-----------------------------------------------------------------------------
(* UserRegistry *)

\* What has been paged through is the beginning of the list.
ReadIsPrefix ==
    /\ Len(read) <= Len(registeredAddresses)
    /\ \A i \in 1 .. Len(read) : read[i] = registeredAddresses[i]

RegistryInv == RegistryTypeOK /\ ListMatchesMapping /\ ReadIsPrefix

-----------------------------------------------------------------------------
LEMMA RolesAndInfo ==
    /\ DEFAULT_ROLE \in ValidRoles
    /\ \A p \in Profiles, q \in ValidRoles :
           [profile |-> p, role |-> q, isRegistered |-> TRUE, isActive |-> TRUE]
               \in UserInfo
    /\ Unset \in UserInfo
  BY DEF DEFAULT_ROLE, ROLE_USER, ValidRoles, UserInfo, Unset

\* A page is what the list has from offset on, at most limit of it.
LEMMA Page ==
    ASSUME RegistryTypeOK, NEW offset \in Nat, NEW limit \in Nat \ {0},
           offset <= Len(registeredAddresses)
    PROVE  LET page == getRegisteredAddresses(offset, limit)
           IN  /\ page \in Seq(Addresses)
               /\ offset + Len(page) <= Len(registeredAddresses)
               /\ \A i \in 1 .. Len(page) : page[i] = registeredAddresses[offset + i]
<1> DEFINE total == Len(registeredAddresses)
           end == IF offset + limit > total THEN total ELSE offset + limit
<1>1. registeredAddresses \in Seq(Addresses) /\ total \in Nat
  BY DEF RegistryTypeOK
<1>2. end \in offset .. total
  BY <1>1
<1>3. getRegisteredAddresses(offset, limit) = SubSeq(registeredAddresses, offset + 1, end)
  BY DEF getRegisteredAddresses
<1> HIDE DEF end
<1>4. SubSeq(registeredAddresses, offset + 1, end) \in Seq(Addresses)
  BY <1>1, <1>2
<1>5. Len(SubSeq(registeredAddresses, offset + 1, end)) = end - offset
  BY <1>1, <1>2
<1>6. \A i \in 1 .. (end - offset) :
          SubSeq(registeredAddresses, offset + 1, end)[i] = registeredAddresses[offset + i]
  BY <1>1, <1>2
<1> QED
  BY <1>1, <1>2, <1>3, <1>4, <1>5, <1>6

LEMMA RegistryTypeInv ==
    ASSUME RegistryInv, [RegistryNext]_registryVars
    PROVE  RegistryTypeOK'
<1> USE DEF RegistryInv, RegistryTypeOK
<1>1. CASE UNCHANGED registryVars
  BY <1>1 DEF registryVars
<1>2. CASE ReadPage
  <2>1. Len(read) \in Nat /\ Len(read) <= Len(registeredAddresses)
    BY DEF ReadIsPrefix
  <2>2. getRegisteredAddresses(Len(read), PageSize) \in Seq(Addresses)
    BY <2>1, Page, PageSizePositive
  <2> HIDE DEF RegistryTypeOK
  <2>3. read' = read \o getRegisteredAddresses(Len(read), PageSize)
    BY <1>2 DEF ReadPage
  <2>4. read' \in Seq(Addresses)
    BY <2>2, <2>3 DEF RegistryTypeOK
  <2> QED
    BY <1>2, <2>4 DEF ReadPage, RegistryTypeOK
<1>3. ASSUME NEW sender \in Addresses, Transaction(sender)
      PROVE  RegistryTypeOK'
  <2>1. ASSUME NEW p \in Profiles \cup {BlankProfile}, registerUser(sender, p)
        PROVE  RegistryTypeOK'
    <3>1. p \in Profiles
      BY <2>1 DEF registerUser
    <3> QED
      BY <2>1, <3>1, RolesAndInfo DEF registerUser
  <2>2. ASSUME NEW p \in Profiles \cup {BlankProfile}, updateUser(sender, p)
        PROVE  RegistryTypeOK'
    BY <2>2 DEF updateUser, UserInfo
  <2>3. ASSUME NEW a \in Addresses, deactivateUser(sender, a)
        PROVE  RegistryTypeOK'
    BY <2>3 DEF deactivateUser, UserInfo
  <2>4. ASSUME NEW a \in Addresses, NEW role \in RoleArguments, setUserRole(sender, a, role)
        PROVE  RegistryTypeOK'
    BY <2>4 DEF setUserRole, UserInfo
  <2>5. CASE pause(sender) \/ unpause(sender)
    BY <2>5 DEF pause, unpause
  <2>6. ASSUME NEW a \in Addresses \cup {NoOwner}, transferOwnership(sender, a)
        PROVE  RegistryTypeOK'
    BY <2>6 DEF transferOwnership
  <2> QED
    BY <1>3, <2>1, <2>2, <2>3, <2>4, <2>5, <2>6 DEF Transaction
<1> QED
  BY <1>1, <1>2, <1>3 DEF RegistryNext

\* What a step can do to an account: register it, or change a registered one
\* in its role, its profile while it is active, or its activity.
LEMMA AccountSteps ==
    ASSUME RegistryInv, [RegistryNext]_registryVars
    PROVE  \/ /\ registeredAddresses' = registeredAddresses
              /\ \A a \in Addresses :
                     /\ users'[a].isRegistered = users[a].isRegistered
                     /\ users'[a].isActive => users[a].isActive
                     /\ \/ users'[a].profile = users[a].profile
                        \/ users[a].isActive
           \/ \E s \in Addresses :
                  /\ ~users[s].isRegistered
                  /\ registeredAddresses' = Append(registeredAddresses, s)
                  /\ users'[s].isRegistered
                  /\ \A a \in Addresses \ {s} : users'[a] = users[a]
<1> USE DEF RegistryInv, RegistryTypeOK, UserInfo
<1>1. CASE UNCHANGED registryVars \/ ReadPage
  BY <1>1 DEF registryVars, ReadPage
<1>2. ASSUME NEW sender \in Addresses, Transaction(sender)
      PROVE  \/ /\ registeredAddresses' = registeredAddresses
                /\ \A a \in Addresses :
                       /\ users'[a].isRegistered = users[a].isRegistered
                       /\ users'[a].isActive => users[a].isActive
                       /\ \/ users'[a].profile = users[a].profile
                          \/ users[a].isActive
             \/ /\ ~users[sender].isRegistered
                /\ registeredAddresses' = Append(registeredAddresses, sender)
                /\ users'[sender].isRegistered
                /\ \A a \in Addresses \ {sender} : users'[a] = users[a]
  <2>1. ASSUME NEW p \in Profiles \cup {BlankProfile}, registerUser(sender, p)
        PROVE  /\ ~users[sender].isRegistered
               /\ registeredAddresses' = Append(registeredAddresses, sender)
               /\ users'[sender].isRegistered
               /\ \A a \in Addresses \ {sender} : users'[a] = users[a]
    BY <2>1 DEF registerUser
  <2>2. ASSUME NEW p \in Profiles \cup {BlankProfile}, updateUser(sender, p)
        PROVE  /\ registeredAddresses' = registeredAddresses
               /\ \A a \in Addresses :
                      /\ users'[a].isRegistered = users[a].isRegistered
                      /\ users'[a].isActive => users[a].isActive
                      /\ \/ users'[a].profile = users[a].profile
                         \/ users[a].isActive
    BY <2>2 DEF updateUser
  <2>3. ASSUME NEW b \in Addresses,
               \/ deactivateUser(sender, b)
               \/ \E role \in RoleArguments : setUserRole(sender, b, role)
        PROVE  /\ registeredAddresses' = registeredAddresses
               /\ \A a \in Addresses :
                      /\ users'[a].isRegistered = users[a].isRegistered
                      /\ users'[a].isActive => users[a].isActive
                      /\ users'[a].profile = users[a].profile
    <3>1. CASE deactivateUser(sender, b)
      BY <3>1 DEF deactivateUser
    <3>2. ASSUME NEW role \in RoleArguments, setUserRole(sender, b, role)
          PROVE  /\ registeredAddresses' = registeredAddresses
                 /\ users' = [users EXCEPT ![b].role = role]
      BY <3>2 DEF setUserRole
    <3>3. ASSUME NEW role \in RoleArguments, setUserRole(sender, b, role),
                 NEW a \in Addresses
          PROVE  /\ users'[a].isRegistered = users[a].isRegistered
                 /\ users'[a].isActive = users[a].isActive
                 /\ users'[a].profile = users[a].profile
      <4>1. users' = [users EXCEPT ![b] = [users[b] EXCEPT !.role = role]]
        BY <3>2, <3>3
      <4>2. CASE a = b
        <5>1. users'[a] = [users[a] EXCEPT !.role = role] /\ users[a] \in UserInfo
          BY <4>1, <4>2
        <5> QED
          BY <5>1
      <4>3. CASE a # b
        BY <4>1, <4>3
      <4> QED
        BY <4>2, <4>3
    <3> QED
      BY <2>3, <3>1, <3>2, <3>3
  <2>4. CASE pause(sender) \/ unpause(sender)
             \/ \E b \in Addresses \cup {NoOwner} : transferOwnership(sender, b)
    BY <2>4 DEF pause, unpause, transferOwnership
  <2> QED
    BY <1>2, <2>1, <2>2, <2>3, <2>4 DEF Transaction
<1> QED
  BY <1>1, <1>2 DEF RegistryNext

LEMMA ListInv ==
    ASSUME RegistryInv, [RegistryNext]_registryVars
    PROVE  ListMatchesMapping'
<1>1. registeredAddresses \in Seq(Addresses) /\ users \in [Addresses -> UserInfo]
  BY DEF RegistryInv, RegistryTypeOK
<1>2. /\ \A i \in 1 .. Len(registeredAddresses) :
             /\ registeredAddresses[i] \in Addresses
             /\ users[registeredAddresses[i]].isRegistered
      /\ \A a \in Addresses : users[a].isRegistered =>
             \E i \in 1 .. Len(registeredAddresses) : registeredAddresses[i] = a
      /\ \A i, j \in 1 .. Len(registeredAddresses) :
             registeredAddresses[i] = registeredAddresses[j] => i = j
  BY <1>1 DEF RegistryInv, ListMatchesMapping
<1>3. ASSUME registeredAddresses' = registeredAddresses,
             \A a \in Addresses : users'[a].isRegistered = users[a].isRegistered
      PROVE  ListMatchesMapping'
  BY <1>1, <1>2, <1>3 DEF ListMatchesMapping
<1>4. ASSUME NEW s \in Addresses, ~users[s].isRegistered,
             registeredAddresses' = Append(registeredAddresses, s),
             users'[s].isRegistered,
             \A a \in Addresses \ {s} : users'[a] = users[a]
      PROVE  ListMatchesMapping'
  <2> DEFINE n == Len(registeredAddresses)
  <2>1. /\ DOMAIN registeredAddresses' = 1 .. (n + 1) /\ n \in Nat
        /\ registeredAddresses'[n + 1] = s
        /\ \A i \in 1 .. n : registeredAddresses'[i] = registeredAddresses[i]
    BY <1>1, <1>4
  <2> HIDE DEF n
  <2>2. \A i \in 1 .. n : registeredAddresses[i] \in Addresses \ {s}
    BY <1>2, <1>4 DEF n
  <2>3. ASSUME NEW a \in Addresses
        PROVE  users'[a].isRegistered <=>
                   \E i \in 1 .. (n + 1) : registeredAddresses'[i] = a
    <3>1. CASE a = s
      BY <1>4, <2>1, <3>1
    <3>2. CASE a # s
      <4>1. users'[a].isRegistered <=> \E i \in 1 .. n : registeredAddresses[i] = a
        BY <1>2, <1>4, <3>2 DEF n
      <4>2. \A i \in 1 .. (n + 1) : i \in 1 .. n \/ i = n + 1
        BY <2>1
      <4> QED
        BY <2>1, <3>2, <4>1, <4>2
    <3> QED
      BY <3>1, <3>2
  <2>4. \A i \in 1 .. (n + 1) : registeredAddresses'[i] \in Addresses
    BY <2>1, <2>2
  <2>5. ASSUME NEW i \in 1 .. (n + 1), NEW j \in 1 .. (n + 1),
               registeredAddresses'[i] = registeredAddresses'[j]
        PROVE  i = j
    BY <1>2, <2>1, <2>2, <2>5 DEF n
  <2> QED
    BY <2>1, <2>3, <2>4, <2>5 DEF ListMatchesMapping
<1> QED
  BY <1>3, <1>4, AccountSteps

LEMMA PrefixInv ==
    ASSUME RegistryInv, [RegistryNext]_registryVars
    PROVE  ReadIsPrefix'
<1>1. /\ registeredAddresses \in Seq(Addresses) /\ read \in Seq(Addresses)
      /\ Len(read) \in Nat /\ Len(read) <= Len(registeredAddresses)
  BY DEF RegistryInv, RegistryTypeOK, ReadIsPrefix
<1>2. CASE ReadPage
  <2> DEFINE page == getRegisteredAddresses(Len(read), PageSize)
  <2>1. /\ page \in Seq(Addresses)
        /\ Len(read) + Len(page) <= Len(registeredAddresses)
        /\ \A i \in 1 .. Len(page) : page[i] = registeredAddresses[Len(read) + i]
    BY <1>1, Page, PageSizePositive DEF RegistryInv
  <2>2. read' = read \o page /\ registeredAddresses' = registeredAddresses
    BY <1>2 DEF ReadPage
  <2> HIDE DEF page
  <2>3. /\ Len(read') = Len(read) + Len(page) /\ Len(page) \in Nat
        /\ \A i \in 1 .. Len(read) : read'[i] = read[i]
        /\ \A i \in 1 .. Len(page) : read'[Len(read) + i] = page[i]
    BY <1>1, <2>1, <2>2
  <2>4. ASSUME NEW i \in 1 .. Len(read')
        PROVE  read'[i] = registeredAddresses[i]
    <3>1. CASE i <= Len(read)
      BY <1>1, <2>3, <3>1 DEF RegistryInv, ReadIsPrefix
    <3>2. CASE i > Len(read)
      <4>1. i - Len(read) \in 1 .. Len(page) /\ i = Len(read) + (i - Len(read))
        BY <1>1, <2>3, <3>2
      <4> QED
        BY <2>1, <2>3, <4>1
    <3> QED
      BY <1>1, <2>3, <3>1, <3>2
  <2> QED
    BY <2>1, <2>2, <2>3, <2>4 DEF ReadIsPrefix
<1>3. CASE ~ReadPage
  <2>1. read' = read
    BY <1>3 DEF RegistryNext, registryVars, Transaction, registerUser, updateUser, deactivateUser,
                setUserRole, pause, unpause, transferOwnership
  <2>2. /\ Len(registeredAddresses) <= Len(registeredAddresses')
        /\ \A i \in 1 .. Len(registeredAddresses) :
               registeredAddresses'[i] = registeredAddresses[i]
    BY <1>1, AccountSteps
  <2> QED
    BY <1>1, <2>1, <2>2 DEF RegistryInv, ReadIsPrefix
<1> QED
  BY <1>2, <1>3

LEMMA RegistryStarts ==
    ASSUME RegistryInit
    PROVE  RegistryInv
<1>1. RegistryTypeOK
  <2>1. <<>> \in Seq(Addresses)
    OBVIOUS
  <2>2. users \in [Addresses -> UserInfo]
    BY RolesAndInfo DEF RegistryInit
  <2> QED
    BY <2>1, <2>2, OwnerIsAddress DEF RegistryInit, RegistryTypeOK
<1>2. /\ registeredAddresses = <<>> /\ read = <<>>
      /\ \A a \in Addresses : ~users[a].isRegistered
  BY DEF RegistryInit, Unset
<1>3. ListMatchesMapping
  BY <1>2, DOMAIN registeredAddresses = {} DEF ListMatchesMapping
<1>4. ReadIsPrefix
  BY <1>2, Len(<<>>) = 0, 1 .. 0 = {} DEF ReadIsPrefix
<1> QED
  BY <1>1, <1>3, <1>4 DEF RegistryInv

LEMMA RegistryAlways == RegistrySpec => []RegistryInv
<1>1. RegistryInv /\ [RegistryNext]_registryVars => RegistryInv'
  BY RegistryTypeInv, ListInv, PrefixInv DEF RegistryInv
<1> QED
  BY <1>1, RegistryStarts, PTL DEF RegistrySpec

-----------------------------------------------------------------------------
\* The storage of the contract keeps to its types: in particular no sequence
\* of setUserRole calls gives a user a role that _isValidRole does not know.
THEOREM RegistryTypeCorrect == RegistrySpec => []RegistryTypeOK
<1>1. RegistryInv => RegistryTypeOK
  BY DEF RegistryInv
<1> QED
  BY <1>1, RegistryAlways, PTL

\* _registeredAddresses lists the registered addresses, each once: what
\* getRegisteredUserCount and getRegisteredAddresses return is the mapping's
\* contents, however often registerUser was called and by whom.
THEOREM ListAgrees == RegistrySpec => []ListMatchesMapping
<1>1. RegistryInv => ListMatchesMapping
  BY DEF RegistryInv
<1> QED
  BY <1>1, RegistryAlways, PTL

\* Nothing reactivates an account or edits the profile of one that is not
\* active: no function of the contract writes isActive = true but
\* registerUser, which refuses a registered address.
THEOREM NoReactivation == RegistrySpec => DeactivationIsFinal
<1> DEFINE Final ==
        \A a \in Addresses :
            users[a].isRegistered /\ ~users[a].isActive =>
                /\ users'[a].isRegistered /\ ~users'[a].isActive
                /\ users'[a].profile = users[a].profile
<1>1. ASSUME RegistryInv, [RegistryNext]_registryVars
      PROVE  Final
  BY <1>1, AccountSteps
<1>2. RegistryInv /\ [RegistryNext]_registryVars => [Final]_registryVars
  BY <1>1
<1> QED
  BY <1>2, RegistryAlways, PTL DEF RegistrySpec, DeactivationIsFinal

\* A reader that pages through getRegisteredAddresses while others register
\* has, at every moment, the first addresses of the list in order: whatever
\* the page size, none is skipped and none seen twice.
THEOREM PagingIsExact == RegistrySpec => []PagesArePrefix
<1>1. ASSUME RegistryInv
      PROVE  PagesArePrefix
  <2>1. /\ registeredAddresses \in Seq(Addresses) /\ read \in Seq(Addresses)
        /\ Len(read) \in Nat /\ Len(read) <= Len(registeredAddresses)
        /\ \A i \in 1 .. Len(read) : read[i] = registeredAddresses[i]
    BY <1>1 DEF RegistryInv, RegistryTypeOK, ReadIsPrefix
  <2> DEFINE prefix == SubSeq(registeredAddresses, 1, Len(read))
  <2>2. /\ prefix \in Seq(Addresses) /\ Len(prefix) = Len(read)
        /\ \A i \in 1 .. Len(read) : prefix[i] = registeredAddresses[i]
    BY <2>1
  <2> HIDE DEF prefix
  <2>3. read = prefix
    BY <2>1, <2>2
  <2> QED
    BY <2>3 DEF PagesArePrefix, prefix
<1>2. RegistryInv => PagesArePrefix
  BY <1>1
<1> QED
  BY <1>2, RegistryAlways, PTL
=============================================================================
