--------------------------- MODULE ContractProofs ---------------------------
(***************************************************************************)
(* What the components guarantee together: the types of the whole storage, *)
(* what a pause and a retirement freeze, the separation of duties across   *)
(* the role table, the registry and the ledger, the caps that minting and  *)
(* transfers keep, and what is left to do without an admin.                *)
(***************************************************************************)
EXTENDS Capabilities, RegistryProofs, GovernanceProofs, LedgerProofs

OtherTypesOK == IssuerTypeOK /\ LifecycleTypeOK /\ AssetTypeOK

\* The components' own inductive invariants, side by side: no component writes
\* what another's rests on, so together they are inductive as they stand.
ContractInv == AdminInv /\ RegistryInv /\ GovernanceInv /\ LedgerInv /\ OtherTypesOK

LEMMA ContractInvInit == Init => ContractInv
<1> SUFFICES ASSUME Init PROVE ContractInv
  OBVIOUS
<1>1. AdminInv /\ RegistryInv /\ GovernanceInv /\ LedgerInv
  BY AdminInvInit, RegistryInvInit, GovernanceInvInit, LedgerInvInit
     DEF Init, GovernanceInit
<1>2. IssuerTypeOK /\ LifecycleTypeOK
  BY DEF Init, IssuerInit, IssuerTypeOK, DefaultPolicy, IssuerSeparationPolicy,
         LifecycleInit, LifecycleTypeOK, AssetStatus
<1>3. AssetTypeOK
  BY MaxAmountAssumption DEF Init, AssetInit, AssetTypeOK
<1> QED
  BY <1>1, <1>2, <1>3 DEF ContractInv, OtherTypesOK

\* A step of the contract is, for each component, one of its own or none.
LEMMA NextByComponent ==
  ASSUME [Next]_vars
  PROVE  /\ [AdminNext]_adminVars
         /\ [ComplianceStep]_complianceVars
         /\ [IssuerStep]_policy
         /\ [LifecycleStep]_assetStatus
         /\ [GovernanceNext]_governanceVars \/ UNCHANGED <<capVars, configVars>>
         /\ [AssetStep]_assetVars
<1>1. CASE UNCHANGED vars
  BY <1>1 DEF vars, registryVars, governedVars
<1>2. CASE Next
  BY <1>2 DEF Next, registryVars, governedVars, GovernanceNext
<1> QED
  BY <1>1, <1>2

LEMMA OtherTypesStep ==
  ASSUME OtherTypesOK, LedgerInv', [Next]_vars
  PROVE  OtherTypesOK'
<1>1. IssuerTypeOK'
  BY NextByComponent, PolicyArgsAssumption
     DEF OtherTypesOK, IssuerTypeOK, IssuerStep, SetIssuerSeparationPolicy
<1>2. LifecycleTypeOK'
  BY NextByComponent, AssetStatusArgsAssumption
     DEF OtherTypesOK, LifecycleTypeOK, LifecycleStep, SetAssetStatus
<1>3. metadata' \in MetadataArgs \cup {NoMetadata}
  BY NextByComponent
     DEF OtherTypesOK, AssetTypeOK, assetVars, AssetStep, MintAsset, Transfer,
         DistributeYield, UpdateAssetMetadata
<1> QED
  BY <1>1, <1>2, <1>3 DEF OtherTypesOK, AssetTypeOK, LedgerInv, Balances

LEMMA ContractInvStep ==
  ASSUME ContractInv, [Next]_vars
  PROVE  ContractInv'
<1>1. AdminInv' /\ RegistryInv' /\ LedgerInv'
  BY NextByComponent, AdminInvStep, RegistryInvStep, LedgerInvStep DEF ContractInv
<1>2. GovernanceInv'
  <2>1. CASE UNCHANGED <<capVars, configVars>>
    BY <2>1 DEF ContractInv, GovernanceInv, CapsTypeOK, ConfigTypeOK, ProposalIsAChange,
                capVars, configVars
  <2> QED
    BY <2>1, NextByComponent, GovernanceInvStep DEF ContractInv
<1> QED
  BY <1>1, <1>2, OtherTypesStep DEF ContractInv

\* The components keep their invariants inside the whole contract.
THEOREM ContractInvariant == Spec => []ContractInv
  BY ContractInvInit, ContractInvStep, PTL DEF Spec

\* Every key of the storage always holds a value of the type it is read as.
THEOREM StorageTypeCorrect == Spec => []AegisTypeOK
<1>1. ContractInv => AegisTypeOK
  BY DEF ContractInv, AdminInv, RegistryInv, GovernanceInv, OtherTypesOK, AegisTypeOK
<1> QED
  BY <1>1, ContractInvariant, PTL
-----------------------------------------------------------------------------
(* The entrypoints that check the pause. *)

LEMMA RegistryWritesCheckPause ==
  ASSUME ComplianceStep
  PROVE  ~paused
  BY DEF ComplianceStep, SetComplianceStatus, BatchSetComplianceStatus, CanBatchSet,
         WhitelistUser, CanWhitelist, RevokeWhitelist, CanRevoke, RequireNotPaused

\* No compliance record moves while the contract is paused, in batches of any
\* length and through the legacy aliases.
THEOREM PauseFreezesTheRegistry == ComplianceSpec => PauseFreezesRegistry
<1>1. [ComplianceNext]_<<adminVars, events, complianceVars>>
        => [paused => UNCHANGED complianceVars]_<<adminVars, events, complianceVars>>
  BY RegistryWritesCheckPause DEF ComplianceNext
<1> QED
  BY <1>1, PTL DEF ComplianceSpec, PauseFreezesRegistry

LEMMA GovernanceChecksPause ==
  ASSUME IssuerStep \/ CapsStep \/ ConfigStep
  PROVE  ~paused
<1>1. CASE IssuerStep
  BY <1>1 DEF IssuerStep, SetIssuerSeparationPolicy, RequireNotPaused
<1>2. CASE CapsStep
  BY <1>2 DEF CapsStep, ProposeSupplyCap, AcceptSupplyCap, CancelSupplyCapProposal,
              ProposeHoldingCap, AcceptHoldingCap, CancelHoldingCapProposal,
              MayGovern, RequireNotPaused
<1>3. CASE ConfigStep
  BY <1>3 DEF ConfigStep, ProposeConfig, AcceptConfig, CancelConfigProposal, RequireNotPaused
<1> QED
  BY <1>1, <1>2, <1>3

LEMMA LedgerChecksPause ==
  ASSUME AssetStep
  PROVE  ~paused
<1>1. ASSUME NEW caller \in Address, NEW to \in Address, NEW amount \in AmountArgs,
             MintAsset(caller, to, amount) \/ Transfer(caller, to, amount)
      PROVE  ~paused
  BY <1>1 DEF MintAsset, CanMint, Transfer, CanTransfer, RequireNotPaused
<1> QED
  BY <1>1 DEF AssetStep, DistributeYield, UpdateAssetMetadata, RequireNotPaused

LEMMA StatusChangeChecksActivation ==
  ASSUME LifecycleStep, paused, assetStatus' # assetStatus
  PROVE  assetStatus' # "Active"
  BY DEF LifecycleStep, SetAssetStatus, RequireNotPaused

Frozen ==
    /\ UNCHANGED <<admin, adminCandidate, role, registryVars, capVars, configVars, assetVars>>
    /\ assetStatus' # assetStatus => assetStatus' # "Active"

LEMMA PauseFreezesStep ==
  ASSUME AdminInv, [Next]_vars, paused
  PROVE  Frozen
<1>1. CASE UNCHANGED vars
  BY <1>1 DEF vars, adminVars, governedVars, Frozen
<1>2. CASE AdminNext /\ UNCHANGED <<registryVars, governedVars, assetVars>>
  <2>1. UNCHANGED <<admin, adminCandidate, role>>
    BY <1>2, PauseFreezesRolesStep
  <2> QED
    BY <1>2, <2>1 DEF governedVars, Frozen
<1>3. CASE /\ LifecycleStep
           /\ UNCHANGED <<adminVars, registryVars, capVars, configVars, assetVars>>
  BY <1>3, StatusChangeChecksActivation DEF adminVars, Frozen
<1> QED
  BY <1>1, <1>2, <1>3, RegistryWritesCheckPause, GovernanceChecksPause, LedgerChecksPause
     DEF Next

\* A pause stops every write of every component but the asset status, and lets
\* that one only move away from trading.
THEOREM PauseFreezesEverything == Spec => PauseFreezesContract
<1>1. ContractInv /\ [Next]_vars => [paused => Frozen]_vars
  BY PauseFreezesStep DEF ContractInv
<1> QED
  BY <1>1, ContractInvariant, PTL DEF Spec, PauseFreezesContract, Frozen
-----------------------------------------------------------------------------
(* Retirement. *)

LEMMA RetiredLedgerStep ==
  ASSUME AssetStep, assetStatus = "Retired"
  PROVE  UNCHANGED assetVars
<1>1. ASSUME NEW caller \in Address, NEW to \in Address, NEW amount \in AmountArgs
      PROVE  ~MintAsset(caller, to, amount) /\ ~Transfer(caller, to, amount)
  BY DEF MintAsset, CanMint, Transfer, CanTransfer, RequireAssetMovable
<1> QED
  BY <1>1 DEF AssetStep, DistributeYield, UpdateAssetMetadata

LEMMA RetirementStep ==
  ASSUME [Next]_vars, assetStatus = "Retired"
  PROVE  assetStatus' = "Retired" /\ UNCHANGED assetVars
<1>1. CASE UNCHANGED vars
  BY <1>1 DEF vars, governedVars
<1>2. CASE LifecycleStep
  BY <1>2 DEF LifecycleStep, SetAssetStatus, NextAssetStatuses
<1>3. CASE AssetStep /\ UNCHANGED governedVars
  BY <1>3, RetiredLedgerStep DEF governedVars
<1> QED
  BY <1>1, <1>2, <1>3 DEF Next, governedVars

\* No sequence of calls brings a retired asset back or touches its ledger.
THEOREM RetirementLasts == Spec => RetirementIsFinal
<1>1. [Next]_vars => [assetStatus = "Retired"
                        => assetStatus' = "Retired" /\ UNCHANGED assetVars]_vars
  BY RetirementStep
<1> QED
  BY <1>1, PTL DEF Spec, RetirementIsFinal
-----------------------------------------------------------------------------
(* Separation of duties. *)

LEMMA DutiesOf ==
  ASSUME AdminInv, NEW a \in Address
  PROVE  LET duties == Duties[EffectiveRole(a)]
         IN  /\ "Compliance" \in duties <=> AuthorityGuard(a, "Unknown") = "Allowed"
             /\ "Issuance" \in duties <=> RequireRole(a, "AssetManager")
             /\ "Emergency" \in duties <=> RequireRole(a, "EmergencyOfficer")
             /\ "Governance" \in duties <=> IsAdmin(a)
<1>1. role[a] \in Role /\ (role[a] = "Admin" => a = admin)
  BY DEF AdminInv, AdminTypeOK, SoleAdminRole
<1>2. CASE admin = NoAddress
  BY <1>2 DEF EffectiveRole, Duties, AuthorityGuard, RequireRole, IsAdmin
<1>3. CASE admin # NoAddress /\ a = admin
  BY <1>3 DEF EffectiveRole, Duties, AuthorityGuard, RequireRole, IsAdmin
<1>4. CASE admin # NoAddress /\ a # admin
  BY <1>1, <1>4 DEF EffectiveRole, Duties, AuthorityGuard, RequireRole, IsAdmin, Role
<1> QED
  BY <1>2, <1>3, <1>4

\* The duty table describes the entrypoints in every reachable state, which
\* rests on nobody but the admin having the Admin role.
THEOREM DutyTableIsEnforced == Spec => []DutiesAreEnforced
<1>1. ContractInv => DutiesAreEnforced
  BY DutiesOf DEF ContractInv, DutiesAreEnforced
<1> QED
  BY <1>1, ContractInvariant, PTL

\* Only minting announces a mint: the other components' events, of whatever
\* number, are about something else.
NotMinted == \A i \in DOMAIN events' : ~Minted(events'[i])

LEMMA OneOtherEvent ==
  ASSUME NEW e, Publish(<<e>>), e.topic # "asset_minted"
  PROVE  NotMinted
  BY DEF Publish, NotMinted, Minted

LEMMA NoEvent ==
  ASSUME Publish(<<>>)
  PROVE  NotMinted
  BY DEF Publish, NotMinted

LEMMA AdminMintsNothing ==
  ASSUME AdminNext
  PROVE  NotMinted
  BY OneOtherEvent
     DEF AdminNext, Initialize, SetRole, RemoveRole, TransferAdmin, AcceptAdmin,
         RenounceAdmin, Pause, Unpause

LEMMA GovernanceMintsNothing ==
  ASSUME IssuerStep \/ LifecycleStep \/ CapsStep \/ ConfigStep
  PROVE  NotMinted
<1>1. CASE IssuerStep \/ LifecycleStep
  BY <1>1, OneOtherEvent
     DEF IssuerStep, SetIssuerSeparationPolicy, LifecycleStep, SetAssetStatus
<1>2. CASE CapsStep
  BY <1>2, OneOtherEvent, NoEvent
     DEF CapsStep, ProposeSupplyCap, AcceptSupplyCap, CancelSupplyCapProposal,
         ProposeHoldingCap, AcceptHoldingCap, CancelHoldingCapProposal
<1>3. CASE ConfigStep
  BY <1>3, OneOtherEvent, NoEvent
     DEF ConfigStep, ProposeConfig, AcceptConfig, CancelConfigProposal
<1> QED
  BY <1>1, <1>2, <1>3

LEMMA RegistryMintsNothing ==
  ASSUME ComplianceStep
  PROVE  NotMinted
<1>1. PICK caller \in Address : IsSoundBatch(caller)
  BY StepIsSound
<1>2. PICK n \in Nat : \E updates \in [1..n -> ValidUpdate], legacy \in Legacy :
        ApplyTransitions(caller, updates, legacy)
  BY <1>1 DEF IsSoundBatch
<1>3. PICK updates \in [1..n -> ValidUpdate], legacy \in Legacy :
        ApplyTransitions(caller, updates, legacy)
  BY <1>2
<1>4. \A i \in DOMAIN events' : i \in 1..n \/ (i = n + 1 /\ events'[i] \in LegacyEvents)
  BY <1>3, PublishedInOrder
<1>5. ASSUME NEW i \in 1..n
      PROVE  ~Minted(events'[i])
  <2>1. events'[i] = [topic |-> "compliance_status_changed", caller |-> caller,
                      user |-> updates[i].user, previous_status |-> status[updates[i].user],
                      new_status |-> updates[i].new_status]
    BY <1>3, PublishedInOrder
  <2> QED
    BY <2>1 DEF Minted
<1>6. \A e \in LegacyEvents : ~Minted(e)
  BY DEF LegacyEvents, LegacyTopics, Minted
<1> QED
  BY <1>4, <1>5, <1>6 DEF NotMinted

LEMMA MintIsBehindTheEvent ==
  ASSUME Next, NEW i \in DOMAIN events', Minted(events'[i])
  PROVE  \E amount \in AmountArgs :
            /\ events'[i].caller \in Address /\ events'[i].to \in Address
            /\ CanMint(events'[i].caller, events'[i].to, amount)
<1>1. AssetStep
  BY AdminMintsNothing, GovernanceMintsNothing, RegistryMintsNothing DEF Next, NotMinted
<1>2. PICK caller \in Address, to \in Address, amount \in AmountArgs :
        MintAsset(caller, to, amount)
  BY <1>1, OneOtherEvent DEF AssetStep, Transfer, DistributeYield, UpdateAssetMetadata, NotMinted
<1>3. events'[i].caller = caller /\ events'[i].to = to
  BY <1>2 DEF MintAsset, Publish
<1> QED
  BY <1>2, <1>3 DEF MintAsset

\* Nobody issues who could, at that moment, clear an investor.
LEMMA IssuerCannotClearStep ==
  ASSUME ContractInv, [Next]_vars, policy.enforced, ~policy.allow_dual_duty_issuance,
         ~UNCHANGED vars, NEW i \in DOMAIN events', Minted(events'[i])
  PROVE  AuthorityGuard(events'[i].caller, "Unknown") # "Allowed"
<1>1. PICK amount \in AmountArgs :
        /\ events'[i].caller \in Address
        /\ CanMint(events'[i].caller, events'[i].to, amount)
  BY MintIsBehindTheEvent
<1>2. "Compliance" \notin Duties[EffectiveRole(events'[i].caller)]
  BY <1>1 DEF CanMint, RequireIssuanceAuthority, EvaluateIssuance
<1> QED
  BY <1>1, <1>2, DutiesOf DEF ContractInv

\* Where dual duty is forbidden, nobody who could clear an investor issues,
\* whatever the role table says, hand-overs and renunciations included.
THEOREM IssuersNeverClear == Spec => IssuerCannotClear
<1>1. ContractInv /\ [Next]_vars
        => [policy.enforced /\ ~policy.allow_dual_duty_issuance
                => \A i \in DOMAIN events' : Minted(events'[i])
                    => AuthorityGuard(events'[i].caller, "Unknown") # "Allowed"]_vars
  BY IssuerCannotClearStep
<1> QED
  BY <1>1, ContractInvariant, PTL DEF Spec, IssuerCannotClear

LEMMA FourEyesStep ==
  ASSUME ContractInv, [Next]_vars, policy.enforced, policy.require_independent_approver,
         ~UNCHANGED vars, NEW i \in DOMAIN events', Minted(events'[i])
  PROVE  approver[events'[i].to] \in Address \ {events'[i].caller}
<1>1. PICK amount \in AmountArgs :
        /\ events'[i].caller \in Address /\ events'[i].to \in Address
        /\ CanMint(events'[i].caller, events'[i].to, amount)
  BY MintIsBehindTheEvent
<1>2. approver[events'[i].to] # events'[i].caller
  BY <1>1, NoAddressAssumption DEF CanMint, RequireIssuanceAuthority, EvaluateIssuance
<1>3. status[events'[i].to] = "Approved"
  BY <1>1 DEF CanMint, RequireCanReceive
<1> QED
  BY <1>1, <1>2, <1>3 DEF ContractInv, RegistryInv, RegistryAgrees, ComplianceTypeOK

\* Where an independent approver is required, every issue has two persons
\* behind it, which takes the registry's record of who cleared the receiver.
THEOREM IssuesTakeFourEyes == Spec => FourEyes
<1>1. ContractInv /\ [Next]_vars
        => [policy.enforced /\ policy.require_independent_approver
                => \A i \in DOMAIN events' : Minted(events'[i])
                    => approver[events'[i].to] \in Address \ {events'[i].caller}]_vars
  BY FourEyesStep
<1> QED
  BY <1>1, ContractInvariant, PTL DEF Spec, FourEyes
-----------------------------------------------------------------------------
(* The caps. *)

LEMMA MintKeepsCaps ==
  ASSUME LedgerInv, NEW caller \in Address, NEW to \in Address, NEW amount \in AmountArgs,
         MintAsset(caller, to, amount), NEW a \in Address, balance'[a] > balance[a],
         holdingCap \in 0..MaxAmount, holdingCap > 0
  PROVE  balance'[a] <= holdingCap
<1>1. amount \in Int /\ balance \in [Address -> Int]
  BY AmountArgsAssumption, MaxAmountAssumption DEF LedgerInv, Balances
<1>2. a = to /\ balance'[a] = balance[to] + amount
  BY <1>1 DEF MintAsset
<1>3. balance[to] + amount <= holdingCap
  BY MaxAmountAssumption DEF MintAsset, CanMint, EnforceHoldingCap
<1> QED
  BY <1>2, <1>3

LEMMA TransferKeepsCaps ==
  ASSUME LedgerInv, NEW from \in Address, NEW to \in Address, NEW amount \in AmountArgs,
         Transfer(from, to, amount), NEW a \in Address, balance'[a] > balance[a],
         holdingCap \in 0..MaxAmount, holdingCap > 0
  PROVE  balance'[a] <= holdingCap
<1>1. amount \in Int /\ amount > 0 /\ balance \in [Address -> Int]
  BY AmountArgsAssumption, MaxAmountAssumption DEF LedgerInv, Balances, Transfer, CanTransfer
<1>2. Debited(from, amount) \in [Address -> Int]
  BY <1>1 DEF Debited
<1>3. balance'[a] = Debited(from, amount)[a] + (IF a = to THEN amount ELSE 0)
  BY <1>1, <1>2 DEF Transfer
<1>4. Debited(from, amount)[a] <= balance[a]
  BY <1>1 DEF Debited
<1>5. a = to
  BY <1>1, <1>2, <1>3, <1>4
<1>6. balance[to] + amount <= holdingCap
  BY MaxAmountAssumption DEF Transfer, CanTransfer, EnforceHoldingCap
<1> QED
  BY <1>1, <1>2, <1>3, <1>4, <1>5, <1>6

LEMMA SupplyKeepsCap ==
  ASSUME LedgerInv, [Next]_vars, totalSupply' > totalSupply,
         supplyCap \in 0..MaxAmount, supplyCap > 0
  PROVE  totalSupply' <= supplyCap
<1>1. totalSupply' # totalSupply
  BY MaxAmountAssumption DEF LedgerInv
<1>2. PICK caller \in Address, to \in Address, amount \in AmountArgs :
        MintAsset(caller, to, amount)
  BY <1>1, LedgerSteps DEF Transfer, ledgerVars
<1> QED
  BY <1>2, MaxAmountAssumption DEF MintAsset, CanMint, EnforceSupplyCap

LEMMA CreditStep ==
  ASSUME ContractInv, [Next]_vars
  PROVE  /\ \A a \in Address : balance'[a] > balance[a] /\ holdingCap > 0
                => balance'[a] <= holdingCap
         /\ totalSupply' > totalSupply /\ supplyCap > 0 => totalSupply' <= supplyCap
<1>1. supplyCap \in 0..MaxAmount /\ holdingCap \in 0..MaxAmount
  BY DEF ContractInv, GovernanceInv, CapsTypeOK
<1>2. ASSUME NEW a \in Address, balance'[a] > balance[a], holdingCap > 0
      PROVE  balance'[a] <= holdingCap
  <2>1. ~UNCHANGED ledgerVars
    BY <1>2, MaxAmountAssumption DEF ledgerVars, ContractInv, LedgerInv, Balances
  <2> QED
    BY <1>1, <1>2, <2>1, LedgerSteps, MintKeepsCaps, TransferKeepsCaps DEF ContractInv
<1> QED
  BY <1>1, <1>2, SupplyKeepsCap DEF ContractInv

\* No credit goes past a cap in force, however often the caps were amended
\* below what was already issued.
THEOREM CapsBoundCredits == Spec => CreditsRespectCaps
<1>1. ContractInv /\ [Next]_vars
        => [/\ \A a \in Address : balance'[a] > balance[a] /\ holdingCap > 0
                                    => balance'[a] <= holdingCap
            /\ totalSupply' > totalSupply /\ supplyCap > 0 => totalSupply' <= supplyCap]_vars
  BY CreditStep
<1> QED
  BY <1>1, ContractInvariant, PTL DEF Spec, CreditsRespectCaps
-----------------------------------------------------------------------------
(* A contract without an admin. *)

LEMMA WithoutAdminStep ==
  ASSUME ContractInv, [Next]_vars, admin = NoAddress
  PROVE  /\ UNCHANGED <<adminCandidate, paused, registryVars, governedVars, totalSupply, metadata>>
         /\ \A a \in Address : role'[a] # role[a] => admin' = a
         /\ balance' # balance => UNCHANGED <<admin, role>>
<1>1. ~paused /\ role \in [Address -> Role]
  BY DEF ContractInv, AdminInv, PausedHasAdmin, AdminTypeOK
<1>2. CASE UNCHANGED vars
  BY <1>2 DEF vars, adminVars, assetVars
<1>3. CASE AdminNext /\ UNCHANGED <<registryVars, governedVars, assetVars>>
  <2>1. PICK caller \in Address : Initialize(caller)
    BY <1>1, <1>3 DEF AdminNext, SetRole, RemoveRole, TransferAdmin, AcceptAdmin, RenounceAdmin,
                Pause, Unpause, RequireRole, IsAdmin
  <2> QED
    BY <1>1, <1>3, <2>1 DEF Initialize, assetVars
<1>4. ASSUME ComplianceStep
      PROVE  UNCHANGED complianceVars
  <2>1. PICK caller \in Address : IsSoundBatch(caller)
    BY <1>4, StepIsSound
  <2>2. PICK n \in Nat : \E updates \in [1..n -> ValidUpdate], legacy \in Legacy :
          Sound(caller, updates) /\ ApplyTransitions(caller, updates, legacy)
    BY <2>1 DEF IsSoundBatch
  <2>3. PICK updates \in [1..n -> ValidUpdate], legacy \in Legacy :
          Sound(caller, updates) /\ ApplyTransitions(caller, updates, legacy)
    BY <2>2
  <2>4. \A u : Naming(updates, u) = {}
    BY <2>3 DEF Sound, AuthorityGuard, Naming
  <2>5. /\ status \in [Address -> ComplianceStatus]
        /\ approver \in [Address -> Address \cup {NoAddress}]
        /\ whitelist \subseteq Address
    BY DEF ContractInv, RegistryInv, ComplianceTypeOK
  <2>6. /\ status' = [u \in Address |-> status[u]]
        /\ whitelist' = {u \in Address : u \in whitelist}
        /\ approver' = [u \in Address |-> approver[u]]
    BY <2>3, <2>4, WritesByUser DEF ApplyTransitions
  <2>7. status' = status /\ approver' = approver /\ whitelist' = whitelist
    BY <2>5, <2>6
  <2> QED
    BY <2>7 DEF complianceVars
<1>5. ~(IssuerStep \/ LifecycleStep \/ CapsStep \/ ConfigStep)
  BY DEF IssuerStep, SetIssuerSeparationPolicy, LifecycleStep, SetAssetStatus,
         CapsStep, ProposeSupplyCap, AcceptSupplyCap, CancelSupplyCapProposal,
         ProposeHoldingCap, AcceptHoldingCap, CancelHoldingCapProposal, MayGovern,
         ConfigStep, ProposeConfig, AcceptConfig, CancelConfigProposal, IsAdmin
<1>6. CASE ComplianceStep /\ UNCHANGED <<adminVars, policy, governedVars, assetVars>>
  BY <1>4, <1>6 DEF adminVars, registryVars, assetVars
<1>7. CASE AssetStep /\ UNCHANGED <<adminVars, registryVars, governedVars>>
  <2>1. UNCHANGED <<totalSupply, metadata>>
    BY <1>7 DEF AssetStep, MintAsset, CanMint, Transfer, DistributeYield, UpdateAssetMetadata,
                RequireRole, assetVars
  <2> QED
    BY <1>7, <2>1 DEF adminVars
<1> QED
  BY <1>2, <1>3, <1>5, <1>6, <1>7 DEF Next

\* Once the admin has renounced, holders trade and nobody does anything else
\* until somebody initializes the contract.
THEOREM OnlyHoldersActWithoutAdmin == Spec => OnlyTradesWithoutAdmin
<1>1. ContractInv /\ [Next]_vars
        => [~RuntimeSwitches.initialized =>
             /\ UNCHANGED <<adminCandidate, paused, registryVars, governedVars, totalSupply, metadata>>
             /\ \A a \in Address : role'[a] # role[a] => admin' = a
             /\ balance' # balance => UNCHANGED <<admin, role>>]_vars
  BY WithoutAdminStep DEF RuntimeSwitches
<1> QED
  BY <1>1, ContractInvariant, PTL DEF Spec, OnlyTradesWithoutAdmin
-----------------------------------------------------------------------------
(* The promises of the components, inside the contract: each was proved of    *)
(* its component beside the access control alone, and here the others step    *)
(* in between.                                                                *)

\* No former admin has the Admin role, a paused contract has an admin, the
\* records of every investor agree and a pending cap is a change, in every
\* reachable state of the contract.
THEOREM ContractIsConsistent ==
    Spec => [](SoleAdminRole /\ PausedHasAdmin /\ RegistryAgrees /\ ProposalIsAChange)
<1>1. ContractInv => SoleAdminRole /\ PausedHasAdmin /\ RegistryAgrees /\ ProposalIsAChange
  BY DEF ContractInv, AdminInv, RegistryInv, GovernanceInv
<1> QED
  BY <1>1, ContractInvariant, PTL

LEMMA ContractHandoverStep ==
  ASSUME ContractInv, [Next]_vars
  PROVE  /\ HandedOver => /\ admin' = adminCandidate
                          /\ role'[admin'] = "Admin"
                          /\ admin # admin' => role'[admin] = "None"
         /\ admin # NoAddress /\ admin' # admin => role'[admin] = "None"
<1>1. CASE AdminNext
  BY <1>1, HandoverStep, OutgoingAdminStep DEF ContractInv
<1>2. CASE UNCHANGED adminVars
  BY <1>2 DEF adminVars, HandedOver
<1> QED
  BY <1>1, <1>2, NextByComponent

\* Between a nomination and its acceptance the other components may do what they
\* do: the hand-over still moves the whole authority, and whoever stops being
\* the admin keeps no role.
THEOREM ContractHandsOver == Spec => HandoverMovesAuthority /\ OutgoingAdminLosesRole
<1>1. ContractInv /\ [Next]_vars
        => [HandedOver => /\ admin' = adminCandidate
                          /\ role'[admin'] = "Admin"
                          /\ admin # admin' => role'[admin] = "None"]_<<adminVars, events>>
  BY ContractHandoverStep
<1>2. ContractInv /\ [Next]_vars
        => [(admin # NoAddress /\ admin' # admin) => role'[admin] = "None"]_<<adminVars, events>>
  BY ContractHandoverStep
<1> QED
  BY <1>1, <1>2, ContractInvariant, PTL
     DEF Spec, HandoverMovesAuthority, OutgoingAdminLosesRole, HandedOver

\* No other component's call lifts a freeze or rewrites the record of an
\* approver, which the issuance guards of the contract read.
THEOREM ContractKeepsTheRegistry ==
    Spec => FreezeLiftedByAdminIntoReview /\ ApproverOnlySetOnClearance
<1>1. ContractInv /\ [Next]_vars
        => [\A u \in Address : (status[u] = "Blocked" /\ status'[u] # "Blocked")
                => /\ status'[u] = "Pending"
                   /\ \E i \in DOMAIN events' :
                        events'[i].topic = "compliance_status_changed"
                            /\ events'[i].user = u /\ events'[i].caller = admin
           ]_<<adminVars, events, complianceVars>>
  BY NextByComponent, UnfreezeStep DEF ContractInv, Unfrozen, Attributed
<1>2. ContractInv /\ [Next]_vars
        => [\A u \in Address : approver'[u] # approver[u]
                => status[u] # "Approved" /\ status'[u] = "Approved"
           ]_<<adminVars, events, complianceVars>>
  BY NextByComponent, ApproverStep DEF ContractInv
<1> QED
  BY <1>1, <1>2, ContractInvariant, PTL
     DEF Spec, FreezeLiftedByAdminIntoReview, ApproverOnlySetOnClearance

\* Only the registry announces status changes.
LEMMA OneEventLeavesNoTrail ==
  ASSUME NEW e, Publish(<<e>>), e.topic # "compliance_status_changed", NEW u
  PROVE  Trail(u) = {}
  BY DEF Publish, Trail

LEMMA NoEventLeavesNoTrail ==
  ASSUME Publish(<<>>), NEW u
  PROVE  Trail(u) = {}
  BY DEF Publish, Trail

LEMMA GovernanceLeavesNoTrail ==
  ASSUME IssuerStep \/ LifecycleStep \/ CapsStep \/ ConfigStep, NEW u
  PROVE  Trail(u) = {}
<1>1. CASE IssuerStep \/ LifecycleStep
  BY <1>1, OneEventLeavesNoTrail
     DEF IssuerStep, SetIssuerSeparationPolicy, LifecycleStep, SetAssetStatus
<1>2. CASE CapsStep
  BY <1>2, OneEventLeavesNoTrail, NoEventLeavesNoTrail
     DEF CapsStep, ProposeSupplyCap, AcceptSupplyCap, CancelSupplyCapProposal,
         ProposeHoldingCap, AcceptHoldingCap, CancelHoldingCapProposal
<1>3. CASE ConfigStep
  BY <1>3, OneEventLeavesNoTrail, NoEventLeavesNoTrail
     DEF ConfigStep, ProposeConfig, AcceptConfig, CancelConfigProposal
<1> QED
  BY <1>1, <1>2, <1>3

LEMMA LedgerLeavesNoTrail ==
  ASSUME AssetStep, NEW u
  PROVE  Trail(u) = {}
  BY OneEventLeavesNoTrail
     DEF AssetStep, MintAsset, Transfer, DistributeYield, UpdateAssetMetadata

LEMMA ContractAccounts ==
  ASSUME ContractInv, Next, NEW u \in Address
  PROVE  Accounts(u)
<1>1. CASE ComplianceStep
  BY <1>1, TrailAccounts DEF ContractInv, RegistryInv
<1>2. CASE Trail(u) = {} /\ UNCHANGED complianceVars
  BY <1>2 DEF Accounts, complianceVars
<1> QED
  BY <1>1, <1>2, AdminLeavesNoTrail, GovernanceLeavesNoTrail, LedgerLeavesNoTrail
     DEF Next, registryVars

\* Among the events of all components those on an investor's status are still a
\* complete account of the registry.
THEOREM ContractAuditTrail == Spec => ComplianceAuditTrail
<1>1. ContractInv /\ [Next]_vars
        => [\A u \in Address : Accounts(u)]_<<adminVars, events, complianceVars>>
  BY ContractAccounts DEF vars, registryVars
<1> QED
  BY <1>1, ContractInvariant, PTL DEF Spec, ComplianceAuditTrail, Accounts, Trail

LEMMA ContractMovesInTwoSteps ==
  ASSUME [Next]_vars
  PROVE  /\ [SupplyCapGovernance!Next]_<<supplyCap, supplyCapCandidate>>
         /\ [HoldingCapGovernance!Next]_<<holdingCap, holdingCapCandidate>>
         /\ [ConfigGovernance!Next]_<<config, configCandidate>>
<1>1. CASE UNCHANGED <<capVars, configVars>>
  BY <1>1 DEF capVars, supplyCapVars, holdingCapVars, configVars
<1> QED
  BY <1>1, NextByComponent, CapsStepRefines, ConfigStepRefines

\* The two caps and the configuration are two-step parameters in the contract as
\* well: minting and transferring read them, and nothing else writes them.
THEOREM ContractGovernsInTwoSteps ==
    Spec => SupplyCapIsTwoStep /\ HoldingCapIsTwoStep /\ ConfigIsTwoStep
<1>1. Init => SupplyCapGovernance!Init /\ HoldingCapGovernance!Init /\ ConfigGovernance!Init
  BY DEF Init, CapsInit, ConfigInit, SupplyCapGovernance!Init, HoldingCapGovernance!Init,
         ConfigGovernance!Init
<1>2. [Next]_vars => [SupplyCapGovernance!Next]_<<supplyCap, supplyCapCandidate>>
  BY ContractMovesInTwoSteps
<1>3. [Next]_vars => [HoldingCapGovernance!Next]_<<holdingCap, holdingCapCandidate>>
  BY ContractMovesInTwoSteps
<1>4. [Next]_vars => [ConfigGovernance!Next]_<<config, configCandidate>>
  BY ContractMovesInTwoSteps
<1> QED
  BY <1>1, <1>2, <1>3, <1>4, PTL
     DEF Spec, SupplyCapIsTwoStep, HoldingCapIsTwoStep, ConfigIsTwoStep,
         SupplyCapGovernance!Spec, HoldingCapGovernance!Spec, ConfigGovernance!Spec
=============================================================================
