---------------------------- MODULE LedgerProofs ----------------------------
(***************************************************************************)
(* The ledger is sound for any finite set of addresses, any largest amount *)
(* and any inputs: no unit is lost or made by a transfer, no credit of a   *)
(* transfer can overflow, and the contract implements the regulated token. *)
(***************************************************************************)
EXTENDS Aegis, FiniteSetTheorems, TLAPS

Balances == [Address -> 0..MaxAmount]
-----------------------------------------------------------------------------
(* Counting units. *)

Block(a, lo, hi) == {a} \X (lo..hi)

LEMMA BlockSize ==
  ASSUME NEW a, NEW lo \in Int, NEW hi \in Int, lo <= hi + 1
  PROVE  IsFiniteSet(Block(a, lo, hi)) /\ Cardinality(Block(a, lo, hi)) = hi - lo + 1
<1>1. IsFiniteSet({a}) /\ Cardinality({a}) = 1
  BY FS_Singleton
<1>2. IsFiniteSet(lo..hi) /\ Cardinality(lo..hi) = hi - lo + 1
  BY FS_Interval
<1>3. IsFiniteSet({a} \X (lo..hi))
        /\ Cardinality({a} \X (lo..hi)) = Cardinality({a}) * Cardinality(lo..hi)
  BY <1>1, <1>2, FS_Product
<1> QED
  BY <1>1, <1>2, <1>3 DEF Block

LEMMA UnitsAreFinite ==
  ASSUME NEW held
  PROVE  IsFiniteSet(UnitsOf(held)) /\ Cardinality(UnitsOf(held)) \in Nat
<1>1. IsFiniteSet(1..MaxAmount)
  BY MaxAmountAssumption, FS_Interval
<1>2. IsFiniteSet(Address \X (1..MaxAmount))
  BY <1>1, FiniteAddressAssumption, FS_Product
<1>3. UnitsOf(held) \in SUBSET (Address \X (1..MaxAmount))
  BY DEF UnitsOf
<1> QED
  BY <1>2, <1>3, FS_Subset, FS_CardinalityType

\* after differs from before by n more units with one holder.
Adds(before, holder, n, after) ==
    /\ before \in Balances /\ after \in Balances
    /\ \A a \in Address : after[a] = before[a] + (IF a = holder THEN n ELSE 0)

LEMMA CreditAddsUnits ==
  ASSUME NEW before, NEW after, NEW to \in Address, NEW n \in Nat, Adds(before, to, n, after)
  PROVE  Cardinality(UnitsOf(after)) = Cardinality(UnitsOf(before)) + n
<1> DEFINE new == Block(to, before[to] + 1, before[to] + n)
<1> USE MaxAmountAssumption
<1>1. before[to] \in Nat
  BY DEF Adds, Balances
<1>2. IsFiniteSet(new) /\ Cardinality(new) = n
  BY <1>1, BlockSize
<1>3. UnitsOf(after) = UnitsOf(before) \cup new
  <2>1. ASSUME NEW unit \in UnitsOf(after)
        PROVE  unit \in UnitsOf(before) \cup new
    BY <2>1, <1>1 DEF UnitsOf, Adds, Balances, Block
  <2>2. ASSUME NEW unit \in UnitsOf(before)
        PROVE  unit \in UnitsOf(after)
    BY <2>2, <1>1 DEF UnitsOf, Adds, Balances
  <2>3. ASSUME NEW unit \in new
        PROVE  unit \in UnitsOf(after)
    BY <2>3, <1>1 DEF UnitsOf, Adds, Balances, Block
  <2> QED
    BY <2>1, <2>2, <2>3
<1>4. UnitsOf(before) \cap new = {}
  BY <1>1 DEF UnitsOf, Adds, Balances, Block
<1>5. Cardinality(UnitsOf(before) \cup new)
        = Cardinality(UnitsOf(before)) + Cardinality(new) - Cardinality({})
  BY <1>2, <1>4, UnitsAreFinite, FS_Union
<1>6. Cardinality(UnitsOf(before)) \in Nat /\ Cardinality({}) = 0
  BY UnitsAreFinite, FS_EmptySet
<1> HIDE DEF new
<1> QED
  BY <1>2, <1>3, <1>5, <1>6

-----------------------------------------------------------------------------
(* The ledger invariant. *)

\* Conservation needs no more than the types of the two counters: every guard
\* that keeps them in range is a guard of the step itself.
LedgerInv == balance \in Balances /\ totalSupply \in 0..MaxAmount /\ Conservation

LEMMA LedgerInvInit == Init => LedgerInv
<1> SUFFICES ASSUME Init PROVE LedgerInv
  OBVIOUS
<1>1. balance = [a \in Address |-> 0] /\ totalSupply = 0
  BY DEF Init, AssetInit
<1>2. UnitsOf(balance) = {}
  BY <1>1, MaxAmountAssumption DEF UnitsOf
<1> QED
  BY <1>1, <1>2, FS_EmptySet, MaxAmountAssumption DEF LedgerInv, Balances, Conservation

LEMMA MintStep ==
  ASSUME LedgerInv, NEW caller \in Address, NEW to \in Address, NEW amount \in AmountArgs,
         MintAsset(caller, to, amount)
  PROVE  LedgerInv'
<1>1. amount \in Nat /\ balance[to] + amount <= MaxAmount
        /\ totalSupply + amount <= MaxAmount
  BY AmountArgsAssumption, MaxAmountAssumption DEF MintAsset, CanMint
<1>2. balance' = [balance EXCEPT ![to] = @ + amount] /\ totalSupply' = totalSupply + amount
  BY DEF MintAsset
<1>3. balance' \in Balances /\ totalSupply' \in 0..MaxAmount
  BY <1>1, <1>2, MaxAmountAssumption DEF LedgerInv, Balances
<1>4. Adds(balance, to, amount, balance')
  BY <1>1, <1>2, <1>3, MaxAmountAssumption DEF Adds, LedgerInv, Balances
<1>5. Cardinality(UnitsOf(balance')) = Cardinality(UnitsOf(balance)) + amount
  BY <1>1, <1>4, CreditAddsUnits
<1> QED
  BY <1>2, <1>3, <1>5 DEF LedgerInv, Conservation, UnitsOf

LEMMA TransferStep ==
  ASSUME LedgerInv, NEW from \in Address, NEW to \in Address, NEW amount \in AmountArgs,
         Transfer(from, to, amount)
  PROVE  LedgerInv'
<1> DEFINE debited == Debited(from, amount)
<1>1. amount \in Nat /\ amount <= balance[from] /\ debited[to] + amount <= MaxAmount
  BY AmountArgsAssumption, MaxAmountAssumption DEF Transfer, CanTransfer, LedgerInv, Balances
<1>2. /\ debited = [balance EXCEPT ![from] = @ - amount]
      /\ balance' = [debited EXCEPT ![to] = @ + amount]
      /\ totalSupply' = totalSupply
  BY DEF Transfer, Debited
<1>3. debited \in Balances /\ balance' \in Balances
  BY <1>1, <1>2, MaxAmountAssumption DEF LedgerInv, Balances
<1>4. Adds(debited, from, amount, balance) /\ Adds(debited, to, amount, balance')
  BY <1>1, <1>2, <1>3, MaxAmountAssumption DEF Adds, LedgerInv, Balances
<1>5. Cardinality(UnitsOf(balance)) = Cardinality(UnitsOf(debited)) + amount
  BY <1>1, <1>4, CreditAddsUnits
<1>6. Cardinality(UnitsOf(balance')) = Cardinality(UnitsOf(debited)) + amount
  BY <1>1, <1>4, CreditAddsUnits
<1> QED
  BY <1>2, <1>3, <1>5, <1>6 DEF LedgerInv, Conservation, UnitsOf

\* Every other step of the contract leaves the two counters alone.
LEMMA LedgerSteps ==
  ASSUME [Next]_vars
  PROVE  \/ \E caller, to \in Address, amount \in AmountArgs :
                MintAsset(caller, to, amount) \/ Transfer(caller, to, amount)
         \/ UNCHANGED ledgerVars
<1>1. CASE UNCHANGED vars
  BY <1>1 DEF vars, assetVars, ledgerVars
<1>2. CASE AssetStep
  BY <1>2 DEF AssetStep, DistributeYield, UpdateAssetMetadata, assetVars, ledgerVars
<1>3. CASE Next /\ ~AssetStep
  BY <1>3 DEF Next, assetVars, ledgerVars
<1> QED
  BY <1>1, <1>2, <1>3

LEMMA LedgerInvStep ==
  ASSUME LedgerInv, [Next]_vars
  PROVE  LedgerInv'
<1>1. CASE UNCHANGED ledgerVars
  BY <1>1 DEF ledgerVars, LedgerInv, Conservation, UnitsOf
<1>2. ASSUME NEW caller \in Address, NEW to \in Address, NEW amount \in AmountArgs,
             MintAsset(caller, to, amount) \/ Transfer(caller, to, amount)
      PROVE  LedgerInv'
  BY <1>2, MintStep, TransferStep
<1> QED
  BY <1>1, <1>2, LedgerSteps

\* The inductive invariant of the ledger holds in every reachable state.
THEOREM LedgerInvariant == Spec => []LedgerInv
  BY LedgerInvInit, LedgerInvStep, PTL DEF Spec

\* The recorded supply is the sum of the balances in every reachable state.
THEOREM SupplyIsConserved == Spec => []Conservation
<1>1. LedgerInv => Conservation
  BY DEF LedgerInv
<1> QED
  BY <1>1, LedgerInvariant, PTL

\* Two holders' units are disjoint and all of them are part of the supply.
LEMMA ConservationBoundsTwo ==
  ASSUME LedgerInv, NEW from \in Address, NEW to \in Address, from # to
  PROVE  balance[from] + balance[to] <= MaxAmount
<1> DEFINE mine   == Block(from, 1, balance[from])
           theirs == Block(to, 1, balance[to])
<1>1. balance[from] \in 0..MaxAmount /\ balance[to] \in 0..MaxAmount
  BY DEF LedgerInv, Balances
<1>2. IsFiniteSet(mine) /\ Cardinality(mine) = balance[from]
  BY <1>1, MaxAmountAssumption, BlockSize
<1>3. IsFiniteSet(theirs) /\ Cardinality(theirs) = balance[to]
  BY <1>1, MaxAmountAssumption, BlockSize
<1>4. mine \cap theirs = {}
  BY DEF Block
<1>5. mine \cup theirs \in SUBSET UnitsOf(balance)
  BY <1>1, MaxAmountAssumption DEF Block, UnitsOf
<1> HIDE DEF mine, theirs
<1>6. Cardinality(mine \cup theirs) = balance[from] + balance[to]
  <2>1. Cardinality(mine \cup theirs)
          = Cardinality(mine) + Cardinality(theirs) - Cardinality(mine \cap theirs)
    BY <1>2, <1>3, FS_Union
  <2>2. Cardinality(mine \cap theirs) = 0
    BY <1>4, FS_EmptySet
  <2> QED
    BY <2>1, <2>2, <1>1, <1>2, <1>3
<1>7. Cardinality(mine \cup theirs) <= Cardinality(UnitsOf(balance))
  BY <1>5, UnitsAreFinite, FS_Subset
<1> QED
  BY <1>1, <1>6, <1>7, MaxAmountAssumption DEF LedgerInv, Conservation

\* The credit of a transfer can never trap: the overflow check of the release
\* profile is unreachable there, whatever was minted and with whatever caps.
THEOREM CreditsAlwaysFit == Spec => []CreditFits
<1>1. LedgerInv => CreditFits
  BY ConservationBoundsTwo DEF CreditFits
<1> QED
  BY <1>1, LedgerInvariant, PTL
-----------------------------------------------------------------------------
(* The contract implements the regulated token. *)

cleared == {u \in Address : status[u] = "Approved"}

trading == IF assetStatus = "Retired" THEN "ended"
           ELSE IF assetStatus = "Active" /\ ~paused THEN "open" ELSE "suspended"

LEMMA TokenInit == Init => Token!Init
  BY DEF Init, AssetInit, ComplianceInit, LifecycleInit, Token!Init

LEMMA MintIsIssue ==
  ASSUME NEW caller \in Address, NEW to \in Address, NEW amount \in AmountArgs,
         MintAsset(caller, to, amount),
         UNCHANGED <<adminVars, registryVars, governedVars>>
  PROVE  Token!Issue(to, amount) /\ amount \in 1..MaxAmount
<1>1. amount \in 1..MaxAmount
  BY AmountArgsAssumption, MaxAmountAssumption DEF MintAsset, CanMint
<1>2. trading = "open" /\ to \in cleared
  BY DEF MintAsset, CanMint, RequireNotPaused, RequireAssetMovable, RequireCanReceive,
         trading, cleared
<1>3. UNCHANGED <<status, assetStatus, paused>>
  BY DEF adminVars, registryVars, complianceVars, governedVars
<1> QED
  BY <1>1, <1>2, <1>3
     DEF MintAsset, Token!Issue, Token!supervision, trading, cleared

LEMMA TransferIsMove ==
  ASSUME LedgerInv, NEW from \in Address, NEW to \in Address, NEW amount \in AmountArgs,
         Transfer(from, to, amount),
         UNCHANGED <<adminVars, registryVars, governedVars>>
  PROVE  Token!Move(from, to, amount) /\ amount \in 1..MaxAmount
<1>1. amount \in 1..MaxAmount
  BY AmountArgsAssumption, MaxAmountAssumption DEF Transfer, CanTransfer
<1>2. trading = "open" /\ {from, to} \subseteq cleared /\ amount <= balance[from]
  BY <1>1, MaxAmountAssumption
     DEF Transfer, CanTransfer, RequireNotPaused, RequireAssetMovable, RequireCanSend,
         RequireCanReceive, trading, cleared, LedgerInv, Balances
<1>3. UNCHANGED <<status, assetStatus, paused>>
  BY DEF adminVars, registryVars, complianceVars, governedVars
<1>4. balance' = IF from = to THEN balance
                 ELSE [balance EXCEPT ![from] = @ - amount, ![to] = @ + amount]
  <2>1. balance \in [Address -> Int] /\ balance[from] \in Int /\ amount \in Int
    BY <1>1, MaxAmountAssumption DEF LedgerInv, Balances
  <2>2. balance' = [Debited(from, amount) EXCEPT ![to] = Debited(from, amount)[to] + amount]
    BY DEF Transfer
  <2>3. CASE from = to
    <3>1. Debited(from, amount)[to] + amount = balance[from]
      BY <2>1, <2>3 DEF Debited
    <3> QED
      BY <2>1, <2>2, <2>3, <3>1 DEF Debited
  <2>4. CASE from # to
    <3>1. Debited(from, amount)[to] = balance[to]
      BY <2>1, <2>4 DEF Debited
    <3> QED
      BY <2>1, <2>2, <2>4, <3>1 DEF Debited
  <2> QED
    BY <2>3, <2>4
<1>5. totalSupply' = totalSupply
  BY DEF Transfer
<1> QED
  BY <1>1, <1>2, <1>3, <1>4, <1>5 DEF Token!Move, Token!supervision, trading, cleared

\* A step that moves no unit is supervision, once retirement is known to last.
LEMMA OtherStepsSupervise ==
  ASSUME [Next]_vars, UNCHANGED ledgerVars
  PROVE  Token!Supervise
<1>1. assetStatus = "Retired" => assetStatus' = "Retired"
  BY DEF Next, vars, governedVars, LifecycleStep, SetAssetStatus, NextAssetStatuses
<1> QED
  BY <1>1 DEF Token!Supervise, Token!ledger, ledgerVars

LEMMA TokenStep ==
  ASSUME LedgerInv, [Next]_vars
  PROVE  [Token!Next]_<<Token!ledger, Token!supervision>>
<1>1. CASE UNCHANGED ledgerVars
  BY <1>1, OtherStepsSupervise DEF Token!Next
<1>2. CASE Next /\ ~UNCHANGED ledgerVars
  <2>1. AssetStep /\ UNCHANGED <<adminVars, registryVars, governedVars>>
    BY <1>2 DEF Next, assetVars, ledgerVars
  <2>2. PICK caller \in Address, to \in Address, amount \in AmountArgs :
            MintAsset(caller, to, amount) \/ Transfer(caller, to, amount)
    BY <1>2, <2>1 DEF AssetStep, DistributeYield, UpdateAssetMetadata, assetVars, ledgerVars
  <2> QED
    BY <2>1, <2>2, MintIsIssue, TransferIsMove DEF Token!Next
<1> QED
  BY <1>1, <1>2 DEF vars, assetVars, ledgerVars

\* Units are issued and moved only among approved investors while trading is
\* open, and nothing else any entrypoint does touches a unit.
THEOREM TokenIsImplemented == Spec => ImplementsRegulatedToken
<1>1. Init => Token!Init
  BY TokenInit
<1>2. LedgerInv /\ [Next]_vars => [Token!Next]_<<Token!ledger, Token!supervision>>
  BY TokenStep
<1> QED
  BY <1>1, <1>2, LedgerInvariant, PTL DEF Spec, ImplementsRegulatedToken, Token!Spec
=============================================================================
