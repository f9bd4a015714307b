---------------------------- MODULE IndexProofs -----------------------------
(***************************************************************************)
(* An index that applies the events follows the storage of the contract,   *)
(* for any addresses and amounts and batches of any length.                *)
(***************************************************************************)
EXTENDS EventIndex, ContractProofs, ChainProofs

\* What an index does with the events of one invocation: it arrives at the
\* storage after it, and no event contradicts what it has at that point.
Follows(before, published, after) ==
    /\ Replayed(before, published)[Len(published)] = after
    /\ \A i \in DOMAIN published : Continues(Replayed(before, published)[i - 1], published[i])

\* The views an index goes through: the first is the one it starts with, and
\* each of the others comes from the one before by the event in its place.
IsHistory(views, before, published) ==
    views = [n \in 0..Len(published) |->
                IF n = 0 THEN before ELSE ReplayEvent(views[n - 1], published[n])]
-----------------------------------------------------------------------------
(* The recursion. *)

\* There is one history only: two of them would have a first view to differ in.
LEMMA HistoryIsUnique ==
  ASSUME NEW before, NEW published, Len(published) \in Nat,
         NEW f, IsHistory(f, before, published), NEW g, IsHistory(g, before, published)
  PROVE  f = g
<1> DEFINE N == Len(published)
           differ == {n \in 0..N : f[n] # g[n]}
<1>1. /\ \A n \in 0..N : f[n] = IF n = 0 THEN before ELSE ReplayEvent(f[n - 1], published[n])
      /\ \A n \in 0..N : g[n] = IF n = 0 THEN before ELSE ReplayEvent(g[n - 1], published[n])
  BY Zenon DEF IsHistory
<1>2. differ \in SUBSET Nat
  OBVIOUS
<1>3. ASSUME differ # {}
      PROVE  FALSE
  <2>1. PICK n \in differ : \A m \in differ : n <= m
    BY <1>2, <1>3, LeastElement
  <2>2. n # 0
    BY <1>1, <2>1
  <2>3. n - 1 \in 0..N /\ n - 1 \notin differ
    BY <2>1, <2>2
  <2>4. f[n - 1] = g[n - 1]
    BY <2>3
  <2> QED
    BY <1>1, <2>1, <2>2, <2>4
<1>4. \A n \in 0..N : f[n] = g[n]
  BY <1>3
<1>5. f = [n \in 0..N |-> f[n]] /\ g = [n \in 0..N |-> g[n]]
  BY Zenon DEF IsHistory
<1> QED
  BY <1>4, <1>5

\* So a history that is written down is what the index computes.
LEMMA ReplayedIsHistory ==
  ASSUME NEW before, NEW published, Len(published) \in Nat,
         NEW views, IsHistory(views, before, published)
  PROVE  Replayed(before, published) = views
<1>1. IsHistory(Replayed(before, published), before, published)
  BY Zenon DEF Replayed, IsHistory
<1> QED
  BY <1>1, HistoryIsUnique

LEMMA HistoryFollows ==
  ASSUME NEW before, NEW published, Len(published) \in Nat, DOMAIN published = 1..Len(published),
         NEW views, IsHistory(views, before, published),
         \A n \in DOMAIN published : Continues(views[n - 1], published[n])
  PROVE  Follows(before, published, views[Len(published)])
  BY ReplayedIsHistory DEF Follows

\* An invocation that publishes nothing has to leave what the events account
\* for as it is.
LEMMA SilenceFollows ==
  ASSUME NEW before
  PROVE  Follows(before, <<>>, before)
<1> DEFINE views == [n \in 0..0 |-> before]
<1>1. Len(<<>>) = 0 /\ DOMAIN <<>> = {}
  OBVIOUS
<1>2. IsHistory(views, before, <<>>)
  BY <1>1 DEF IsHistory
<1>3. Replayed(before, <<>>) = views
  BY <1>1, <1>2, ReplayedIsHistory
<1> QED
  BY <1>1, <1>3 DEF Follows

LEMMA OneEventFollows ==
  ASSUME NEW before, NEW e, Continues(before, e)
  PROVE  Follows(before, <<e>>, ReplayEvent(before, e))
<1> DEFINE views == [n \in 0..1 |-> IF n = 0 THEN before ELSE ReplayEvent(before, e)]
<1>1. Len(<<e>>) = 1 /\ DOMAIN <<e>> = {1} /\ <<e>>[1] = e
  OBVIOUS
<1>2. views[0] = before /\ views[1] = ReplayEvent(before, e)
  OBVIOUS
<1>3. IsHistory(views, before, <<e>>)
  <2>1. views = [n \in 0..1 |-> IF n = 0 THEN before ELSE ReplayEvent(views[n - 1], <<e>>[n])]
    BY <1>1, <1>2
  <2> QED
    BY <1>1, <2>1 DEF IsHistory
<1> HIDE DEF views
<1>4. Replayed(before, <<e>>) = views
  BY <1>1, <1>3, ReplayedIsHistory
<1> QED
  BY <1>1, <1>2, <1>4 DEF Follows
-----------------------------------------------------------------------------
(* Invocations with one event, or none. *)

StepFollows == Follows(Storage, events', Storage')

LEMMA SilentStep ==
  ASSUME Publish(<<>>), Storage' = Storage
  PROVE  StepFollows
<1>1. Follows(Storage, <<>>, Storage)
  BY SilenceFollows
<1> QED
  BY <1>1 DEF StepFollows, Publish

LEMMA OneEventStep ==
  ASSUME NEW e, Publish(<<e>>), Continues(Storage, e), ReplayEvent(Storage, e) = Storage'
  PROVE  StepFollows
<1>1. Follows(Storage, <<e>>, ReplayEvent(Storage, e))
  BY OneEventFollows
<1> QED
  BY <1>1 DEF StepFollows, Publish

LEMMA PolicyFollows ==
  ASSUME IssuerStep, UNCHANGED <<adminVars, complianceVars, governedVars, assetVars>>
  PROVE  StepFollows
<1>1. PICK caller \in Address, newPolicy \in PolicyArgs :
        SetIssuerSeparationPolicy(caller, newPolicy)
  BY DEF IssuerStep
<1> DEFINE e == [topic |-> "issuer_separation_policy_updated", admin |-> caller,
                 previous_policy |-> policy, new_policy |-> newPolicy]
<1>2. Publish(<<e>>) /\ policy' = newPolicy
  BY <1>1 DEF SetIssuerSeparationPolicy
<1>3. Continues(Storage, e)
  BY DEF Continues, Storage
<1>4. ReplayEvent(Storage, e) = Storage'
  BY <1>2 DEF ReplayEvent, Storage, adminVars, complianceVars, governedVars, assetVars, capVars,
              configVars
<1> QED
  BY <1>2, <1>3, <1>4, OneEventStep

LEMMA AssetStatusFollows ==
  ASSUME LifecycleStep, UNCHANGED <<adminVars, registryVars, capVars, configVars, assetVars>>
  PROVE  StepFollows
<1>1. PICK caller \in Address, newStatus \in AssetStatusArgs : SetAssetStatus(caller, newStatus)
  BY DEF LifecycleStep
<1> DEFINE e == [topic |-> "asset_status_changed", admin |-> caller,
                 previous_status |-> assetStatus, new_status |-> newStatus]
<1>2. Publish(<<e>>) /\ assetStatus' = newStatus
  BY <1>1 DEF SetAssetStatus
<1>3. Continues(Storage, e)
  BY DEF Continues, Storage
<1>4. ReplayEvent(Storage, e) = Storage'
  BY <1>2 DEF ReplayEvent, Storage, adminVars, registryVars, complianceVars, assetVars, capVars,
              configVars
<1> QED
  BY <1>2, <1>3, <1>4, OneEventStep
-----------------------------------------------------------------------------
(* The governed parameters. *)

LEMMA SupplyCapFollows ==
  ASSUME NEW caller \in Address,
         \/ \E cap \in CapArgs : ProposeSupplyCap(caller, cap)
         \/ AcceptSupplyCap(caller)
         \/ CancelSupplyCapProposal(caller),
         UNCHANGED <<adminVars, registryVars, assetStatus, configVars, assetVars>>
  PROVE  StepFollows
<1> USE DEF Storage, adminVars, registryVars, complianceVars, holdingCapVars, configVars, assetVars
<1>1. ASSUME NEW cap \in CapArgs, ProposeSupplyCap(caller, cap)
      PROVE  StepFollows
  <2> DEFINE e == [topic |-> "supply_cap_proposed", admin |-> caller,
                   current_cap |-> supplyCap, proposed_cap |-> cap]
  <2>1. Publish(<<e>>) /\ UNCHANGED <<supplyCap, holdingCapVars>>
    BY <1>1 DEF ProposeSupplyCap
  <2>2. Continues(Storage, e)
    BY DEF Continues
  <2>3. ReplayEvent(Storage, e) = Storage'
    BY <2>1 DEF ReplayEvent, ReplayAdminEvent
  <2> QED
    BY <2>1, <2>2, <2>3, OneEventStep
<1>2. CASE AcceptSupplyCap(caller)
  <2> DEFINE e == [topic |-> "supply_cap_amended", admin |-> caller,
                   previous_cap |-> supplyCap, new_cap |-> supplyCapCandidate]
  <2>1. Publish(<<e>>) /\ supplyCap' = supplyCapCandidate /\ UNCHANGED holdingCapVars
    BY <1>2 DEF AcceptSupplyCap
  <2>2. Continues(Storage, e)
    BY DEF Continues
  <2>3. ReplayEvent(Storage, e) = Storage'
    BY <2>1 DEF ReplayEvent
  <2> QED
    BY <2>1, <2>2, <2>3, OneEventStep
<1>3. CASE CancelSupplyCapProposal(caller)
  <2>1. Publish(<<>>) /\ UNCHANGED <<supplyCap, holdingCapVars>>
    BY <1>3 DEF CancelSupplyCapProposal
  <2>2. Storage' = Storage
    BY <2>1
  <2> QED
    BY <2>1, <2>2, SilentStep
<1> QED
  BY <1>1, <1>2, <1>3

LEMMA HoldingCapFollows ==
  ASSUME NEW caller \in Address,
         \/ \E cap \in CapArgs : ProposeHoldingCap(caller, cap)
         \/ AcceptHoldingCap(caller)
         \/ CancelHoldingCapProposal(caller),
         UNCHANGED <<adminVars, registryVars, assetStatus, configVars, assetVars>>
  PROVE  StepFollows
<1> USE DEF Storage, adminVars, registryVars, complianceVars, supplyCapVars, configVars, assetVars
<1>1. ASSUME NEW cap \in CapArgs, ProposeHoldingCap(caller, cap)
      PROVE  StepFollows
  <2> DEFINE e == [topic |-> "holding_cap_proposed", admin |-> caller,
                   current_cap |-> holdingCap, proposed_cap |-> cap]
  <2>1. Publish(<<e>>) /\ UNCHANGED <<holdingCap, supplyCapVars>>
    BY <1>1 DEF ProposeHoldingCap
  <2>2. Continues(Storage, e)
    BY DEF Continues
  <2>3. ReplayEvent(Storage, e) = Storage'
    BY <2>1 DEF ReplayEvent, ReplayAdminEvent
  <2> QED
    BY <2>1, <2>2, <2>3, OneEventStep
<1>2. CASE AcceptHoldingCap(caller)
  <2> DEFINE e == [topic |-> "holding_cap_amended", admin |-> caller,
                   previous_cap |-> holdingCap, new_cap |-> holdingCapCandidate]
  <2>1. Publish(<<e>>) /\ holdingCap' = holdingCapCandidate /\ UNCHANGED supplyCapVars
    BY <1>2 DEF AcceptHoldingCap
  <2>2. Continues(Storage, e)
    BY DEF Continues
  <2>3. ReplayEvent(Storage, e) = Storage'
    BY <2>1 DEF ReplayEvent
  <2> QED
    BY <2>1, <2>2, <2>3, OneEventStep
<1>3. CASE CancelHoldingCapProposal(caller)
  <2>1. Publish(<<>>) /\ UNCHANGED <<holdingCap, supplyCapVars>>
    BY <1>3 DEF CancelHoldingCapProposal
  <2>2. Storage' = Storage
    BY <2>1
  <2> QED
    BY <2>1, <2>2, SilentStep
<1> QED
  BY <1>1, <1>2, <1>3

LEMMA ConfigFollows ==
  ASSUME ConfigStep, UNCHANGED <<adminVars, registryVars, assetStatus, capVars, assetVars>>
  PROVE  StepFollows
<1> USE DEF Storage, adminVars, registryVars, complianceVars, capVars, assetVars
<1>1. ASSUME NEW caller \in Address, NEW proposedConfig \in ConfigArgs,
             ProposeConfig(caller, proposedConfig)
      PROVE  StepFollows
  <2> DEFINE e == [topic |-> "config_proposed", admin |-> caller,
                   proposed_config |-> proposedConfig]
  <2>1. Publish(<<e>>) /\ UNCHANGED config
    BY <1>1 DEF ProposeConfig
  <2>2. Continues(Storage, e)
    BY DEF Continues
  <2>3. ReplayEvent(Storage, e) = Storage'
    BY <2>1 DEF ReplayEvent, ReplayAdminEvent
  <2> QED
    BY <2>1, <2>2, <2>3, OneEventStep
<1>2. ASSUME NEW caller \in Address, AcceptConfig(caller)
      PROVE  StepFollows
  <2> DEFINE e == [topic |-> "config_amended", admin |-> caller, new_config |-> configCandidate]
  <2>1. Publish(<<e>>) /\ config' = configCandidate
    BY <1>2 DEF AcceptConfig
  <2>2. Continues(Storage, e)
    BY DEF Continues
  <2>3. ReplayEvent(Storage, e) = Storage'
    BY <2>1 DEF ReplayEvent
  <2> QED
    BY <2>1, <2>2, <2>3, OneEventStep
<1>3. ASSUME NEW caller \in Address, CancelConfigProposal(caller)
      PROVE  StepFollows
  <2>1. Publish(<<>>) /\ UNCHANGED config
    BY <1>3 DEF CancelConfigProposal
  <2>2. Storage' = Storage
    BY <2>1
  <2> QED
    BY <2>1, <2>2, SilentStep
<1> QED
  BY <1>1, <1>2, <1>3 DEF ConfigStep
-----------------------------------------------------------------------------
(* The ledger. *)

\* The views after a mint and after a transfer, written out.
LEMMA MintReplayed ==
  ASSUME NEW e, e.topic = "asset_minted"
  PROVE  ReplayEvent(Storage, e) =
            [Storage EXCEPT !.balance = [balance EXCEPT ![e.to] = balance[e.to] + e.amount],
                            !.totalSupply = e.total_supply]
<1> DEFINE first == [Storage EXCEPT !.balance[e.to] = @ + e.amount]
<1>1. first = [Storage EXCEPT !.balance = [balance EXCEPT ![e.to] = balance[e.to] + e.amount]]
  BY DEF Storage
<1>2. ReplayEvent(Storage, e) = [first EXCEPT !.totalSupply = e.total_supply]
  BY DEF ReplayEvent
<1> HIDE DEF first
<1> QED
  BY <1>1, <1>2

\* The storage with another ledger in it.
StorageHolding(newBalance, newSupply) ==
    [admin |-> admin, adminCandidate |-> adminCandidate, role |-> role, paused |-> paused,
     status |-> status, whitelist |-> whitelist, approver |-> approver, policy |-> policy,
     assetStatus |-> assetStatus, supplyCap |-> supplyCap, holdingCap |-> holdingCap,
     config |-> config, balance |-> newBalance, totalSupply |-> newSupply,
     metadata |-> metadata]

LEMMA LedgerReplaced ==
  ASSUME NEW newBalance, NEW newSupply
  PROVE  /\ [Storage EXCEPT !.balance = newBalance] = StorageHolding(newBalance, totalSupply)
         /\ [Storage EXCEPT !.balance = newBalance, !.totalSupply = newSupply]
                = StorageHolding(newBalance, newSupply)
<1> DEFINE first == [Storage EXCEPT !.balance = newBalance]
<1>1. [Storage EXCEPT !.balance = newBalance, !.totalSupply = newSupply]
        = [first EXCEPT !.totalSupply = newSupply]
  OBVIOUS
<1>2. first = StorageHolding(newBalance, totalSupply)
  BY DEF Storage, StorageHolding
<1> HIDE DEF first
<1>3. [first EXCEPT !.totalSupply = newSupply] = StorageHolding(newBalance, newSupply)
  BY <1>2 DEF StorageHolding
<1> QED
  BY <1>1, <1>2, <1>3 DEF first

LEMMA LedgerAfter ==
  ASSUME UNCHANGED <<adminVars, registryVars, governedVars, metadata>>
  PROVE  Storage' = StorageHolding(balance', totalSupply')
  BY DEF Storage, StorageHolding, adminVars, registryVars, complianceVars, governedVars,
         capVars, configVars

LEMMA MintFollows ==
  ASSUME NEW caller \in Address, NEW to \in Address, NEW amount \in AmountArgs,
         MintAsset(caller, to, amount), UNCHANGED <<adminVars, registryVars, governedVars>>
  PROVE  StepFollows
<1> DEFINE e == [topic |-> "asset_minted", caller |-> caller, to |-> to,
                 amount |-> amount, total_supply |-> totalSupply + amount]
<1>1. /\ Publish(<<e>>)
      /\ balance' = [balance EXCEPT ![to] = balance[to] + amount]
      /\ totalSupply' = totalSupply + amount
      /\ UNCHANGED metadata
  BY DEF MintAsset
<1>2. Continues(Storage, e)
  BY DEF Continues, Storage
<1>3. ReplayEvent(Storage, e) =
        [Storage EXCEPT !.balance = [balance EXCEPT ![to] = balance[to] + amount],
                        !.totalSupply = totalSupply + amount]
  BY MintReplayed
<1>4. ReplayEvent(Storage, e) = StorageHolding(balance', totalSupply')
  BY <1>1, <1>3, LedgerReplaced
<1>5. ReplayEvent(Storage, e) = Storage'
  BY <1>1, <1>4, LedgerAfter
<1> QED
  BY <1>1, <1>2, <1>5, OneEventStep

LEMMA TransferFollows ==
  ASSUME NEW from \in Address, NEW to \in Address, NEW amount \in AmountArgs,
         Transfer(from, to, amount), UNCHANGED <<adminVars, registryVars, governedVars>>
  PROVE  StepFollows
<1> DEFINE e == [topic |-> "transfer", from |-> from, to |-> to, amount |-> amount]
<1>1. /\ Publish(<<e>>)
      /\ balance' = [Debited(from, amount) EXCEPT ![to] = Debited(from, amount)[to] + amount]
      /\ UNCHANGED <<totalSupply, metadata>>
  BY DEF Transfer
<1>2. Continues(Storage, e)
  BY DEF Continues
<1>3. Debited(from, amount) = [balance EXCEPT ![from] = balance[from] - amount]
  BY DEF Debited
<1>4. BalancesAfterTransfer(Storage.balance, e) = balance'
  BY <1>1, <1>3 DEF BalancesAfterTransfer, Storage
<1>5. ReplayEvent(Storage, e) = [Storage EXCEPT !.balance = balance']
  BY <1>4 DEF ReplayEvent
<1>6. ReplayEvent(Storage, e) = Storage'
  BY <1>1, <1>5, LedgerReplaced, LedgerAfter
<1> QED
  BY <1>1, <1>2, <1>6, OneEventStep

LEMMA AssetFollows ==
  ASSUME AssetStep, UNCHANGED <<adminVars, registryVars, governedVars>>
  PROVE  StepFollows
<1> USE DEF Storage, adminVars, registryVars, complianceVars, governedVars, capVars, configVars,
            assetVars, ledgerVars
<1>1. ASSUME NEW caller \in Address, NEW amount \in AmountArgs, DistributeYield(caller, amount)
      PROVE  StepFollows
  <2> DEFINE e == [topic |-> "yield_distributed", caller |-> caller, amount |-> amount]
  <2>1. Publish(<<e>>) /\ UNCHANGED assetVars
    BY <1>1 DEF DistributeYield
  <2>2. Continues(Storage, e)
    BY DEF Continues
  <2>3. ReplayEvent(Storage, e) = Storage'
    BY <2>1 DEF ReplayEvent, ReplayAdminEvent
  <2> QED
    BY <2>1, <2>2, <2>3, OneEventStep
<1>2. ASSUME NEW caller \in Address, NEW newMetadata \in MetadataArgs,
             UpdateAssetMetadata(caller, newMetadata)
      PROVE  StepFollows
  <2> DEFINE e == [topic |-> "asset_metadata_updated", caller |-> caller,
                   metadata |-> newMetadata]
  <2>1. Publish(<<e>>) /\ metadata' = newMetadata /\ UNCHANGED ledgerVars
    BY <1>2 DEF UpdateAssetMetadata
  <2>2. Continues(Storage, e)
    BY DEF Continues
  <2>3. ReplayEvent(Storage, e) = Storage'
    BY <2>1 DEF ReplayEvent
  <2> QED
    BY <2>1, <2>2, <2>3, OneEventStep
<1> QED
  BY <1>1, <1>2, MintFollows, TransferFollows DEF AssetStep
-----------------------------------------------------------------------------
(* The access control. *)

LEMMA AppointmentsFollow ==
  ASSUME NEW caller \in Address, NEW target \in Address,
         \/ \E newRole \in RoleArgs : SetRole(caller, target, newRole)
         \/ RemoveRole(caller, target),
         UNCHANGED <<registryVars, governedVars, assetVars>>
  PROVE  StepFollows
<1> USE DEF Storage, registryVars, complianceVars, governedVars, capVars, configVars, assetVars
<1>1. ASSUME NEW newRole \in RoleArgs, SetRole(caller, target, newRole)
      PROVE  StepFollows
  <2> DEFINE e == [topic |-> "role_assigned", admin |-> caller, target |-> target,
                   role |-> newRole]
  <2>1. /\ Publish(<<e>>) /\ role' = [role EXCEPT ![target] = newRole]
        /\ UNCHANGED <<admin, adminCandidate, paused>>
    BY <1>1 DEF SetRole
  <2>2. Continues(Storage, e)
    BY DEF Continues
  <2>3. ReplayEvent(Storage, e) = Storage'
    BY <2>1 DEF ReplayEvent, ReplayAdminEvent
  <2> QED
    BY <2>1, <2>2, <2>3, OneEventStep
<1>2. CASE RemoveRole(caller, target)
  <2> DEFINE e == [topic |-> "role_revoked", admin |-> caller, target |-> target,
                   role |-> role[target]]
  <2>1. /\ Publish(<<e>>) /\ role' = [role EXCEPT ![target] = "None"]
        /\ UNCHANGED <<admin, adminCandidate, paused>>
    BY <1>2 DEF RemoveRole
  <2>2. Continues(Storage, e)
    BY DEF Continues
  <2>3. ReplayEvent(Storage, e) = Storage'
    BY <2>1 DEF ReplayEvent, ReplayAdminEvent
  <2> QED
    BY <2>1, <2>2, <2>3, OneEventStep
<1> QED
  BY <1>1, <1>2

\* The storage with another access control in it.
StorageWith(newAdmin, newCandidate, newRole, newPaused) ==
    [admin |-> newAdmin, adminCandidate |-> newCandidate, role |-> newRole, paused |-> newPaused,
     status |-> status, whitelist |-> whitelist, approver |-> approver, policy |-> policy,
     assetStatus |-> assetStatus, supplyCap |-> supplyCap, holdingCap |-> holdingCap,
     config |-> config, balance |-> balance, totalSupply |-> totalSupply,
     metadata |-> metadata]

LEMMA StorageAfter ==
  ASSUME UNCHANGED <<registryVars, governedVars, assetVars>>
  PROVE  Storage' = StorageWith(admin', adminCandidate', role', paused')
  BY DEF Storage, StorageWith, registryVars, complianceVars, governedVars, capVars, configVars,
         assetVars

LEMMA StorageReplaced ==
  ASSUME NEW newAdmin, NEW newRole, NEW newPaused
  PROVE  /\ [Storage EXCEPT !.paused = newPaused]
                = StorageWith(admin, adminCandidate, role, newPaused)
         /\ [Storage EXCEPT !.admin = newAdmin, !.role = newRole]
                = StorageWith(newAdmin, adminCandidate, newRole, paused)
         /\ [Storage EXCEPT !.admin = newAdmin, !.adminCandidate = NoAddress, !.role = newRole]
                = StorageWith(newAdmin, NoAddress, newRole, paused)
<1> DEFINE first  == [Storage EXCEPT !.admin = newAdmin]
           second == [first EXCEPT !.adminCandidate = NoAddress]
<1>1. [Storage EXCEPT !.paused = newPaused]
        = StorageWith(admin, adminCandidate, role, newPaused)
  BY DEF Storage, StorageWith
<1>2. /\ [Storage EXCEPT !.admin = newAdmin, !.role = newRole] = [first EXCEPT !.role = newRole]
      /\ [Storage EXCEPT !.admin = newAdmin, !.adminCandidate = NoAddress, !.role = newRole]
            = [second EXCEPT !.role = newRole]
  OBVIOUS
<1>3. first = StorageWith(newAdmin, adminCandidate, role, paused)
  BY DEF Storage, StorageWith
<1> HIDE DEF first
<1>4. second = StorageWith(newAdmin, NoAddress, role, paused)
  BY <1>3 DEF StorageWith
<1> HIDE DEF second
<1>5. [first EXCEPT !.role = newRole] = StorageWith(newAdmin, adminCandidate, newRole, paused)
  BY <1>3 DEF StorageWith
<1>6. [second EXCEPT !.role = newRole] = StorageWith(newAdmin, NoAddress, newRole, paused)
  BY <1>4 DEF StorageWith
<1> QED
  BY <1>1, <1>2, <1>5, <1>6

LEMMA PausesFollow ==
  ASSUME NEW caller \in Address, Pause(caller) \/ Unpause(caller),
         UNCHANGED <<registryVars, governedVars, assetVars>>
  PROVE  StepFollows
<1>1. CASE Pause(caller)
  <2> DEFINE e == [topic |-> "contract_paused", admin |-> caller]
  <2>1. Publish(<<e>>) /\ paused' = TRUE /\ UNCHANGED <<admin, adminCandidate, role>>
    BY <1>1 DEF Pause
  <2>2. Continues(Storage, e)
    BY DEF Continues
  <2>3. ReplayEvent(Storage, e) = [Storage EXCEPT !.paused = TRUE]
    BY DEF ReplayEvent, ReplayAdminEvent
  <2>4. @ = StorageWith(admin, adminCandidate, role, TRUE)
    BY StorageReplaced
  <2>5. Storage' = StorageWith(admin, adminCandidate, role, TRUE)
    BY <2>1, StorageAfter
  <2> QED
    BY <2>1, <2>2, <2>3, <2>4, <2>5, OneEventStep
<1>2. CASE Unpause(caller)
  <2> DEFINE e == [topic |-> "contract_unpaused", admin |-> caller]
  <2>1. Publish(<<e>>) /\ paused' = FALSE /\ UNCHANGED <<admin, adminCandidate, role>>
    BY <1>2 DEF Unpause
  <2>2. Continues(Storage, e)
    BY DEF Continues
  <2>3. ReplayEvent(Storage, e) = [Storage EXCEPT !.paused = FALSE]
    BY DEF ReplayEvent, ReplayAdminEvent
  <2>4. @ = StorageWith(admin, adminCandidate, role, FALSE)
    BY StorageReplaced
  <2>5. Storage' = StorageWith(admin, adminCandidate, role, FALSE)
    BY <2>1, StorageAfter
  <2> QED
    BY <2>1, <2>2, <2>3, <2>4, <2>5, OneEventStep
<1> QED
  BY <1>1, <1>2

LEMMA HandoversFollow ==
  ASSUME NEW caller \in Address,
         \/ Initialize(caller)
         \/ \E candidate \in Nominees : TransferAdmin(caller, candidate)
         \/ AcceptAdmin(caller)
         \/ RenounceAdmin(caller),
         UNCHANGED <<registryVars, governedVars, assetVars>>
  PROVE  StepFollows
<1>1. CASE Initialize(caller)
  <2> DEFINE e == [topic |-> "contract_initialized", admin |-> caller]
  <2>1. /\ Publish(<<e>>) /\ admin' = caller /\ role' = [role EXCEPT ![caller] = "Admin"]
        /\ UNCHANGED <<adminCandidate, paused>>
    BY <1>1 DEF Initialize
  <2>2. Continues(Storage, e)
    BY DEF Continues
  <2>3. ReplayEvent(Storage, e) = [Storage EXCEPT !.admin = caller, !.role = role']
    BY <2>1 DEF ReplayEvent, ReplayAdminEvent, Storage
  <2>4. @ = StorageWith(caller, adminCandidate, role', paused)
    BY StorageReplaced
  <2>5. Storage' = StorageWith(caller, adminCandidate, role', paused)
    BY <2>1, StorageAfter
  <2> QED
    BY <2>1, <2>2, <2>3, <2>4, <2>5, OneEventStep
<1>2. ASSUME NEW candidate \in Nominees, TransferAdmin(caller, candidate)
      PROVE  StepFollows
  <2> DEFINE e == [topic |-> "admin_transfer_initiated", current_admin |-> caller,
                   candidate |-> candidate]
  <2>1. /\ Publish(<<e>>) /\ adminCandidate' = candidate /\ caller = admin
        /\ UNCHANGED <<admin, role, paused>>
    BY <1>2 DEF TransferAdmin, IsAdmin
  <2>2. Continues(Storage, e)
    BY <2>1 DEF Continues, Storage
  <2>3. ReplayEvent(Storage, e) = [Storage EXCEPT !.adminCandidate = candidate]
    BY DEF ReplayEvent, ReplayAdminEvent
  <2>4. @ = StorageWith(admin, candidate, role, paused)
    BY DEF Storage, StorageWith
  <2>5. Storage' = StorageWith(admin, candidate, role, paused)
    BY <2>1, StorageAfter
  <2> QED
    BY <2>1, <2>2, <2>3, <2>4, <2>5, OneEventStep
<1>3. CASE AcceptAdmin(caller)
  <2> DEFINE e == [topic |-> "admin_transferred", previous_admin |-> admin,
                   new_admin |-> caller]
  <2>1. /\ Publish(<<e>>) /\ admin' = caller /\ adminCandidate' = NoAddress
        /\ role' = [role EXCEPT ![admin] = "None", ![caller] = "Admin"]
        /\ UNCHANGED paused
    BY <1>3 DEF AcceptAdmin
  <2>2. Continues(Storage, e)
    BY DEF Continues, Storage
  <2>3. ReplayEvent(Storage, e)
          = [Storage EXCEPT !.admin = caller, !.adminCandidate = NoAddress, !.role = role']
    BY <2>1 DEF ReplayEvent, ReplayAdminEvent, Storage
  <2>4. @ = StorageWith(caller, NoAddress, role', paused)
    BY StorageReplaced
  <2>5. Storage' = StorageWith(caller, NoAddress, role', paused)
    BY <2>1, StorageAfter
  <2> QED
    BY <2>1, <2>2, <2>3, <2>4, <2>5, OneEventStep
<1>4. CASE RenounceAdmin(caller)
  <2> DEFINE e == [topic |-> "admin_renounced", previous_admin |-> caller,
                   new_admin |-> caller]
  <2>1. /\ Publish(<<e>>) /\ admin' = NoAddress /\ caller = admin
        /\ role' = [role EXCEPT ![caller] = "None"]
        /\ UNCHANGED <<adminCandidate, paused>>
    BY <1>4 DEF RenounceAdmin, IsAdmin
  <2>2. Continues(Storage, e)
    BY <2>1 DEF Continues, Storage
  <2>3. ReplayEvent(Storage, e) = [Storage EXCEPT !.admin = NoAddress, !.role = role']
    BY <2>1 DEF ReplayEvent, ReplayAdminEvent, Storage
  <2>4. @ = StorageWith(NoAddress, adminCandidate, role', paused)
    BY StorageReplaced
  <2>5. Storage' = StorageWith(NoAddress, adminCandidate, role', paused)
    BY <2>1, StorageAfter
  <2> QED
    BY <2>1, <2>2, <2>3, <2>4, <2>5, OneEventStep
<1> QED
  BY <1>1, <1>2, <1>3, <1>4

LEMMA AdminFollows ==
  ASSUME AdminNext, UNCHANGED <<registryVars, governedVars, assetVars>>
  PROVE  StepFollows
  BY AppointmentsFollow, PausesFollow, HandoversFollow DEF AdminNext
-----------------------------------------------------------------------------
(* The registry: as many events as updates, and a legacy one. *)

\* The storage with other compliance records in it.
StorageRecording(newStatus, newWhitelist, newApprover) ==
    [admin |-> admin, adminCandidate |-> adminCandidate, role |-> role, paused |-> paused,
     status |-> newStatus, whitelist |-> newWhitelist, approver |-> newApprover,
     policy |-> policy, assetStatus |-> assetStatus, supplyCap |-> supplyCap,
     holdingCap |-> holdingCap, config |-> config, balance |-> balance,
     totalSupply |-> totalSupply, metadata |-> metadata]

LEMMA RecordsAfter ==
  ASSUME UNCHANGED <<adminVars, policy, governedVars, assetVars>>
  PROVE  /\ Storage = StorageRecording(status, whitelist, approver)
         /\ Storage' = StorageRecording(status', whitelist', approver')
  BY DEF Storage, StorageRecording, adminVars, governedVars, capVars, configVars, assetVars

Set(f, x, v) == [f EXCEPT ![x] = v]

LEMMA StatusChangeReplayed ==
  ASSUME NEW e, e.topic = "compliance_status_changed"
  PROVE  \A st, wl, ap :
            ReplayEvent(StorageRecording(st, wl, ap), e) =
                IF e.new_status = "Approved"
                THEN StorageRecording(Set(st, e.user, e.new_status), wl \cup {e.user},
                                      Set(ap, e.user, e.caller))
                ELSE StorageRecording(Set(st, e.user, e.new_status), wl \ {e.user}, ap)
<1> TAKE st, wl, ap
<1> DEFINE view   == StorageRecording(st, wl, ap)
           newSt  == Set(st, e.user, e.new_status)
           newAp  == Set(ap, e.user, e.caller)
           first  == [view EXCEPT !.status[e.user] = e.new_status]
           second(w) == [first EXCEPT !.whitelist = w]
<1>1. ReplayEvent(view, e) = ReplayStatusChange(view, e)
  BY DEF ReplayEvent
<1>2. first = StorageRecording(newSt, wl, ap)
  BY DEF StorageRecording, Set
<1>3. first.whitelist = wl
  <2> HIDE DEF first, newSt
  <2> QED
    BY <1>2 DEF StorageRecording
<1>4. \A w : second(w) = StorageRecording(newSt, w, ap)
  <2> HIDE DEF first, newSt
  <2> QED
    BY <1>2 DEF StorageRecording
<1>5. \A w : [second(w) EXCEPT !.approver[e.user] = e.caller] = StorageRecording(newSt, w, newAp)
  <2> HIDE DEF second, newSt
  <2> QED
    BY <1>4 DEF StorageRecording, Set
<1>6. /\ e.new_status = "Approved" => ReplayStatusChange(view, e) =
                [second(first.whitelist \cup {e.user}) EXCEPT !.approver[e.user] = e.caller]
      /\ e.new_status # "Approved" =>
                ReplayStatusChange(view, e) = second(first.whitelist \ {e.user})
  BY DEF ReplayStatusChange
<1> HIDE DEF view, newSt, newAp, first, second
<1>7. CASE e.new_status = "Approved"
  <2>1. ReplayEvent(view, e)
          = [second(wl \cup {e.user}) EXCEPT !.approver[e.user] = e.caller]
    BY <1>1, <1>3, <1>6, <1>7
  <2>2. ReplayEvent(view, e) = StorageRecording(newSt, wl \cup {e.user}, newAp)
    BY <1>5, <2>1
  <2> QED
    BY <1>7, <2>2 DEF view, newSt, newAp
<1>8. CASE e.new_status # "Approved"
  <2>1. ReplayEvent(view, e) = StorageRecording(newSt, wl \ {e.user}, ap)
    BY <1>1, <1>3, <1>4, <1>6, <1>8
  <2> QED
    BY <1>8, <2>1 DEF view, newSt
<1> QED
  BY <1>7, <1>8

\* The records after the first k updates, of which each brings the records of
\* its investor to where the whole batch leaves them.
Done(updates, k) == {u \in Address : \E i \in 1..k : updates[i].user = u}
StatusAt(updates, k) == [u \in Address |-> IF u \in Done(updates, k) THEN status'[u] ELSE status[u]]
WhitelistAt(updates, k) ==
    {u \in Address : IF u \in Done(updates, k) THEN u \in whitelist' ELSE u \in whitelist}
ApproverAt(updates, k) ==
    [u \in Address |-> IF u \in Done(updates, k) THEN approver'[u] ELSE approver[u]]
RecordsAt(updates, k) ==
    StorageRecording(StatusAt(updates, k), WhitelistAt(updates, k), ApproverAt(updates, k))

LEMMA UpdateReplayed ==
  ASSUME NEW e, e.topic = "compliance_status_changed", NEW updates, NEW k, NEW j,
         StatusAt(updates, k) = Set(StatusAt(updates, j), e.user, e.new_status),
         WhitelistAt(updates, k) = IF e.new_status = "Approved"
                                   THEN WhitelistAt(updates, j) \cup {e.user}
                                   ELSE WhitelistAt(updates, j) \ {e.user},
         ApproverAt(updates, k) = IF e.new_status = "Approved"
                                  THEN Set(ApproverAt(updates, j), e.user, e.caller)
                                  ELSE ApproverAt(updates, j)
  PROVE  ReplayEvent(RecordsAt(updates, j), e) = RecordsAt(updates, k)
<1> DEFINE st == StatusAt(updates, j)
           wl == WhitelistAt(updates, j)
           ap == ApproverAt(updates, j)
<1>1. ReplayEvent(RecordsAt(updates, j), e) =
        IF e.new_status = "Approved"
        THEN StorageRecording(Set(st, e.user, e.new_status), wl \cup {e.user},
                              Set(ap, e.user, e.caller))
        ELSE StorageRecording(Set(st, e.user, e.new_status), wl \ {e.user}, ap)
  BY StatusChangeReplayed DEF RecordsAt
<1>2. RecordsAt(updates, k) =
        IF e.new_status = "Approved"
        THEN StorageRecording(Set(st, e.user, e.new_status), wl \cup {e.user},
                              Set(ap, e.user, e.caller))
        ELSE StorageRecording(Set(st, e.user, e.new_status), wl \ {e.user}, ap)
  BY DEF RecordsAt
<1> QED
  BY <1>1, <1>2

LEMMA BatchStarts ==
  ASSUME ComplianceTypeOK, NEW updates
  PROVE  RecordsAt(updates, 0) = StorageRecording(status, whitelist, approver)
<1>1. Done(updates, 0) = {}
  BY DEF Done
<1>2. /\ StatusAt(updates, 0) = status
      /\ WhitelistAt(updates, 0) = whitelist
      /\ ApproverAt(updates, 0) = approver
  BY <1>1 DEF StatusAt, WhitelistAt, ApproverAt, ComplianceTypeOK
<1> QED
  BY <1>2 DEF RecordsAt

LEMMA BatchEnds ==
  ASSUME ComplianceTypeOK, NEW caller \in Address, NEW n \in Nat,
         NEW updates \in [1..n -> ValidUpdate], Sound(caller, updates),
         WriteStatuses(caller, updates)
  PROVE  RecordsAt(updates, n) = StorageRecording(status', whitelist', approver')
<1>1. ComplianceTypeOK'
  BY WritesMoveRecords DEF RecordsMove
<1>2. ASSUME NEW u \in Address, u \notin Done(updates, n)
      PROVE  Kept(u)
  <2>1. Naming(updates, u) = {}
    BY <1>2 DEF Done, Naming
  <2> QED
    BY <2>1, UnnamedIsKept
<1>3. \A u \in Address \ Done(updates, n) : /\ status'[u] = status[u]
                                            /\ u \in whitelist' <=> u \in whitelist
                                            /\ approver'[u] = approver[u]
  BY <1>2 DEF Kept
<1>4. /\ StatusAt(updates, n) = status'
      /\ WhitelistAt(updates, n) = whitelist'
      /\ ApproverAt(updates, n) = approver'
  BY <1>1, <1>3 DEF StatusAt, WhitelistAt, ApproverAt, ComplianceTypeOK
<1> QED
  BY <1>4 DEF RecordsAt

LEMMA BatchAdvances ==
  ASSUME ComplianceTypeOK, NEW caller \in Address, NEW n \in Nat,
         NEW updates \in [1..n -> ValidUpdate], Sound(caller, updates),
         WriteStatuses(caller, updates), NEW k \in 1..n,
         NEW user \in Address, user = updates[k].user, NEW to, to = updates[k].new_status,
         NEW e, e.topic = "compliance_status_changed", e.caller = caller, e.user = user,
         e.previous_status = status[user], e.new_status = to
  PROVE  /\ ReplayEvent(RecordsAt(updates, k - 1), e) = RecordsAt(updates, k)
         /\ Continues(RecordsAt(updates, k - 1), e)
<1>1. k \in Naming(updates, user)
  BY DEF Naming
<1>2. /\ status'[user] = to
      /\ user \in whitelist' <=> to = "Approved"
      /\ approver'[user] = IF to = "Approved" THEN caller ELSE approver[user]
  <2>1. Moved(caller, user) /\ status'[user] = updates[k].new_status
    BY <1>1, NamedIsMoved
  <2> QED
    BY <2>1 DEF Moved
<1>3. user \notin Done(updates, k - 1)
  <2> SUFFICES ASSUME NEW i \in 1..(k - 1), updates[i].user = user
               PROVE  FALSE
    BY DEF Done
  <2>1. i \in 1..n /\ i # k
    OBVIOUS
  <2> QED
    BY <2>1 DEF Sound
<1>4. Done(updates, k) = Done(updates, k - 1) \cup {user}
  BY <1>1 DEF Done
<1>5. StatusAt(updates, k) = Set(StatusAt(updates, k - 1), user, to)
  BY <1>2, <1>4 DEF StatusAt, Set
<1>6. WhitelistAt(updates, k) = IF to = "Approved" THEN WhitelistAt(updates, k - 1) \cup {user}
                                ELSE WhitelistAt(updates, k - 1) \ {user}
  BY <1>2, <1>4 DEF WhitelistAt
<1>7. ApproverAt(updates, k) = IF to = "Approved"
                               THEN Set(ApproverAt(updates, k - 1), user, caller)
                               ELSE ApproverAt(updates, k - 1)
  BY <1>2, <1>3, <1>4 DEF ApproverAt, Set
<1>8. ReplayEvent(RecordsAt(updates, k - 1), e) = RecordsAt(updates, k)
  BY <1>5, <1>6, <1>7, UpdateReplayed
<1>9. RecordsAt(updates, k - 1).status[user] = status[user]
  BY <1>1, <1>3 DEF RecordsAt, StorageRecording, StatusAt
<1>10. Continues(RecordsAt(updates, k - 1), e)
  BY <1>9 DEF Continues
<1> QED
  BY <1>8, <1>10

LEMMA LegacyIsIgnored ==
  ASSUME NEW view, NEW e \in LegacyEvents
  PROVE  ReplayEvent(view, e) = view /\ Continues(view, e)
<1>1. e.topic = "user_whitelisted" \/ e.topic = "whitelist_revoked"
  BY DEF LegacyEvents, LegacyTopics
<1> QED
  BY <1>1 DEF ReplayEvent, ReplayAdminEvent, Continues

\* The views of a batch: one per update, and the last once more for the legacy
\* event, which changes nothing.
ViewsOf(updates, n, m) ==
    [k \in 0..m |-> IF k <= n THEN RecordsAt(updates, k) ELSE RecordsAt(updates, n)]

\* What such an invocation publishes.
InOrder(caller, updates, n, m) ==
    /\ DOMAIN events' = 1..m
    /\ \A i \in 1..n : events'[i] =
            [topic |-> "compliance_status_changed", caller |-> caller,
             user |-> updates[i].user, previous_status |-> status[updates[i].user],
             new_status |-> updates[i].new_status]
    /\ m = n + 1 => events'[n + 1] \in LegacyEvents

LEMMA BatchIsInOrder ==
  ASSUME NEW caller, NEW n \in Nat, NEW updates \in [1..n -> ValidUpdate],
         NEW legacy \in Legacy, ApplyTransitions(caller, updates, legacy)
  PROVE  \E m \in {n, n + 1} : m = Len(events') /\ InOrder(caller, updates, n, m)
  BY PublishedInOrder DEF InOrder

LEMMA BatchViewsFollow ==
  ASSUME ComplianceTypeOK, NEW caller \in Address, NEW n \in Nat,
         NEW updates \in [1..n -> ValidUpdate], Sound(caller, updates),
         WriteStatuses(caller, updates), NEW m \in {n, n + 1},
         InOrder(caller, updates, n, m), NEW k \in 1..m
  PROVE  /\ ViewsOf(updates, n, m)[k] = ReplayEvent(ViewsOf(updates, n, m)[k - 1], events'[k])
         /\ Continues(ViewsOf(updates, n, m)[k - 1], events'[k])
<1>1. /\ k \in 0..m /\ k - 1 \in 0..m
      /\ k \in 1..n \/ (k = n + 1 /\ m = n + 1)
  OBVIOUS
<1>2. CASE k \in 1..n
  <2>1. /\ ViewsOf(updates, n, m)[k] = RecordsAt(updates, k)
        /\ ViewsOf(updates, n, m)[k - 1] = RecordsAt(updates, k - 1)
    BY <1>1, <1>2 DEF ViewsOf
  <2>2. events'[k] = [topic |-> "compliance_status_changed", caller |-> caller,
                      user |-> updates[k].user, previous_status |-> status[updates[k].user],
                      new_status |-> updates[k].new_status]
    BY <1>2 DEF InOrder
  <2>3. updates[k].user \in Address
    <3>1. updates[k] \in ValidUpdate
      BY <1>2
    <3> QED
      BY <3>1 DEF ValidUpdate
  <2>4. /\ ReplayEvent(RecordsAt(updates, k - 1), events'[k]) = RecordsAt(updates, k)
        /\ Continues(RecordsAt(updates, k - 1), events'[k])
    <3>1. \A user \in Address : \A to, e :
            /\ user = updates[k].user /\ to = updates[k].new_status
            /\ e.topic = "compliance_status_changed" /\ e.caller = caller /\ e.user = user
            /\ e.previous_status = status[user] /\ e.new_status = to
            => /\ ReplayEvent(RecordsAt(updates, k - 1), e) = RecordsAt(updates, k)
               /\ Continues(RecordsAt(updates, k - 1), e)
      BY <1>2, BatchAdvances
    <3> QED
      BY <2>2, <2>3, <3>1
  <2> QED
    BY <2>1, <2>4
<1>3. CASE k = n + 1 /\ m = n + 1
  <2>1. /\ ViewsOf(updates, n, m)[k] = RecordsAt(updates, n)
        /\ ViewsOf(updates, n, m)[k - 1] = RecordsAt(updates, n)
    BY <1>1, <1>3 DEF ViewsOf
  <2>2. events'[k] \in LegacyEvents
    BY <1>3 DEF InOrder
  <2> QED
    BY <2>1, <2>2, LegacyIsIgnored
<1> QED
  BY <1>1, <1>2, <1>3

LEMMA RegistryFollows ==
  ASSUME ComplianceTypeOK, ComplianceStep,
         UNCHANGED <<adminVars, policy, governedVars, assetVars>>
  PROVE  StepFollows
<1>1. PICK caller \in Address : IsSoundBatch(caller)
  BY StepIsSound
<1>2. PICK n \in Nat : \E updates \in [1..n -> ValidUpdate], legacy \in Legacy :
        Sound(caller, updates) /\ ApplyTransitions(caller, updates, legacy)
  BY <1>1 DEF IsSoundBatch
<1>3. PICK updates \in [1..n -> ValidUpdate], legacy \in Legacy :
        Sound(caller, updates) /\ ApplyTransitions(caller, updates, legacy)
  BY <1>2
<1>4. PICK m \in {n, n + 1} : m = Len(events') /\ InOrder(caller, updates, n, m)
  BY <1>3, BatchIsInOrder
<1>5. m \in Nat /\ n \in 0..m /\ (m = n \/ m = n + 1)
  BY <1>4
<1>6. DOMAIN events' = 1..m /\ WriteStatuses(caller, updates)
  BY <1>3, <1>4 DEF InOrder, ApplyTransitions
<1> DEFINE views == ViewsOf(updates, n, m)
<1>7. /\ views[0] = Storage
      /\ views[m] = Storage'
  <2>1. RecordsAt(updates, 0) = Storage
    BY BatchStarts, RecordsAfter
  <2>2. RecordsAt(updates, n) = Storage'
    BY <1>3, <1>6, BatchEnds, RecordsAfter
  <2>3. views[0] = RecordsAt(updates, 0)
    BY <1>5 DEF ViewsOf
  <2>4. views[m] = RecordsAt(updates, n)
    BY <1>5 DEF ViewsOf
  <2> QED
    BY <2>1, <2>2, <2>3, <2>4
<1>8. \A k \in DOMAIN events' : /\ views[k] = ReplayEvent(views[k - 1], events'[k])
                               /\ Continues(views[k - 1], events'[k])
  BY <1>3, <1>4, <1>6, BatchViewsFollow
<1>9. views = [k \in 0..m |-> views[k]]
  BY DEF ViewsOf
<1> HIDE DEF views
<1>10. IsHistory(views, Storage, events')
  <2>1. \A k \in 0..m : k # 0 => k \in 1..m
    BY <1>5
  <2>2. \A k \in 0..m : views[k] = IF k = 0 THEN Storage
                                    ELSE ReplayEvent(views[k - 1], events'[k])
    BY <1>6, <1>7, <1>8, <2>1
  <2>3. views = [k \in 0..m |-> IF k = 0 THEN Storage
                                ELSE ReplayEvent(views[k - 1], events'[k])]
    BY <1>9, <2>2
  <2> QED
    BY <1>4, <2>3 DEF IsHistory
<1>11. Follows(Storage, events', views[m])
  BY <1>4, <1>5, <1>6, <1>8, <1>10, HistoryFollows
<1> QED
  BY <1>7, <1>11 DEF StepFollows
-----------------------------------------------------------------------------
(* The contract. *)

LEMMA NextFollows ==
  ASSUME ContractInv, Next
  PROVE  StepFollows
<1>1. CASE CapsStep /\ UNCHANGED <<adminVars, registryVars, assetStatus, configVars, assetVars>>
  BY <1>1, SupplyCapFollows, HoldingCapFollows DEF CapsStep
<1>2. ComplianceTypeOK
  BY DEF ContractInv, RegistryInv
<1> QED
  BY <1>1, <1>2, AdminFollows, RegistryFollows, PolicyFollows, AssetStatusFollows, ConfigFollows,
     AssetFollows DEF Next

\* An index that applies the events of every invocation in their order never
\* departs from the storage, whatever the number of investors, the amounts and
\* the length of the batches.
THEOREM EventsAreEnough == Spec => EventsRebuildStorage
<1>1. ContractInv /\ [Next]_vars => [Replayed(Storage, events')[Len(events')] = Storage']_vars
  BY NextFollows DEF StepFollows, Follows
<1> QED
  BY <1>1, ContractInvariant, PTL DEF Spec, EventsRebuildStorage

\* What an event says was there before is what such an index has at that point,
\* in the middle of a batch as well: a gap in the stream shows.
THEOREM EventsLeaveNoGap == Spec => EventsContinueTheIndex
<1>1. ContractInv /\ [Next]_vars
        => [\A i \in DOMAIN events' : Continues(Replayed(Storage, events')[i - 1], events'[i])
           ]_vars
  BY NextFollows DEF StepFollows, Follows
<1> QED
  BY <1>1, ContractInvariant, PTL DEF Spec, EventsContinueTheIndex
=============================================================================
