-------------------------- MODULE GovernanceProofs --------------------------
(***************************************************************************)
(* Each governed parameter implements the two-step promise, for any        *)
(* largest amount and any proposals, and whatever happens to the others.   *)
(***************************************************************************)
EXTENDS Governance, AdminProofs

\* A proposal is compared with the cap in force only when it is made.  That
\* accepting it is still a change needs that the cap has not moved since, which
\* holds because acceptance, the only move, empties the slot.
GovernanceInv == CapsTypeOK /\ ConfigTypeOK /\ ProposalIsAChange

LEMMA GovernanceInvInit == GovernanceInit => GovernanceInv
  BY MaxAmountAssumption, NoProposalAssumption
     DEF GovernanceInit, CapsInit, ConfigInit, GovernanceInv, CapsTypeOK, ConfigTypeOK,
         ProposalIsAChange, DefaultConfig, UsableConfig

LEMMA CapsKeepInv ==
  ASSUME GovernanceInv, CapsStep, UNCHANGED configVars
  PROVE  GovernanceInv'
<1> USE MaxAmountAssumption, CapArgsAssumption, NoProposalAssumption
    DEF GovernanceInv, CapsTypeOK, ProposalIsAChange, supplyCapVars, holdingCapVars
<1>1. ConfigTypeOK'
  BY DEF ConfigTypeOK, configVars
<1>2. ASSUME NEW caller \in Address, NEW cap \in CapArgs,
             ProposeSupplyCap(caller, cap) \/ ProposeHoldingCap(caller, cap)
      PROVE  (CapsTypeOK /\ ProposalIsAChange)'
  BY <1>2 DEF ProposeSupplyCap, ProposeHoldingCap
<1>3. ASSUME NEW caller \in Address, AcceptSupplyCap(caller) \/ AcceptHoldingCap(caller)
      PROVE  (CapsTypeOK /\ ProposalIsAChange)'
  BY <1>3 DEF AcceptSupplyCap, AcceptHoldingCap
<1>4. ASSUME NEW caller \in Address,
             CancelSupplyCapProposal(caller) \/ CancelHoldingCapProposal(caller)
      PROVE  (CapsTypeOK /\ ProposalIsAChange)'
  BY <1>4 DEF CancelSupplyCapProposal, CancelHoldingCapProposal
<1> QED
  BY <1>1, <1>2, <1>3, <1>4 DEF CapsStep

LEMMA ConfigKeepsInv ==
  ASSUME GovernanceInv, ConfigStep, UNCHANGED capVars
  PROVE  GovernanceInv'
<1>1. (CapsTypeOK /\ ProposalIsAChange)'
  BY DEF GovernanceInv, CapsTypeOK, ProposalIsAChange, capVars
<1>2. ASSUME NEW caller \in Address, NEW proposedConfig \in ConfigArgs,
             ProposeConfig(caller, proposedConfig)
      PROVE  ConfigTypeOK'
  <2>1. proposedConfig \in UsableConfig
    BY <1>2, ConfigArgsAssumption DEF ProposeConfig, ProtocolConfig, UsableConfig
  <2> QED
    BY <1>2, <2>1 DEF ProposeConfig, GovernanceInv, ConfigTypeOK
<1>3. ASSUME NEW caller \in Address, AcceptConfig(caller) \/ CancelConfigProposal(caller)
      PROVE  ConfigTypeOK'
  BY <1>3 DEF AcceptConfig, CancelConfigProposal, GovernanceInv, ConfigTypeOK
<1> QED
  BY <1>1, <1>2, <1>3 DEF ConfigStep, GovernanceInv

LEMMA GovernanceInvStep ==
  ASSUME GovernanceInv, [GovernanceNext]_governanceVars
  PROVE  GovernanceInv'
<1>1. CASE UNCHANGED <<capVars, configVars>>
  BY <1>1 DEF capVars, configVars, GovernanceInv, CapsTypeOK, ConfigTypeOK, ProposalIsAChange
<1> QED
  BY <1>1, CapsKeepInv, ConfigKeepsInv DEF GovernanceNext, governanceVars

\* Every cap, proposal and configuration is usable, and a proposal is a change.
THEOREM GovernanceInvariant == GovernanceSpec => []GovernanceInv
  BY GovernanceInvInit, GovernanceInvStep, PTL DEF GovernanceSpec

\* Every cap, slot and configuration always holds a value of its type.
THEOREM GovernanceTypeCorrect == GovernanceSpec => []GovernanceTypeOK
<1>1. GovernanceInit => AdminInv
  BY AdminInvInit DEF GovernanceInit
<1>2. AdminInv /\ [GovernanceNext]_governanceVars => AdminInv'
  BY AdminInvStep DEF GovernanceNext, governanceVars
<1>3. AdminInv /\ GovernanceInv => GovernanceTypeOK
  BY DEF AdminInv, GovernanceInv, GovernanceTypeOK
<1> QED
  BY <1>1, <1>2, <1>3, GovernanceInvariant, PTL DEF GovernanceSpec

\* Accepting a pending cap proposal is a change in every reachable state.
THEOREM ProposalsStayChanges == GovernanceSpec => []ProposalIsAChange
<1>1. GovernanceInv => ProposalIsAChange
  BY DEF GovernanceInv
<1> QED
  BY <1>1, GovernanceInvariant, PTL
-----------------------------------------------------------------------------
(* The caps. *)

LEMMA CapsMoveInTwoSteps ==
  ASSUME CapsStep
  PROVE  /\ [SupplyCapGovernance!Next]_<<supplyCap, supplyCapCandidate>>
         /\ [HoldingCapGovernance!Next]_<<holdingCap, holdingCapCandidate>>
<1> USE MaxAmountAssumption, CapArgsAssumption
    DEF SupplyCapGovernance!Next, HoldingCapGovernance!Next, supplyCapVars, holdingCapVars
<1>1. ASSUME NEW caller \in Address, NEW cap \in CapArgs,
             ProposeSupplyCap(caller, cap) \/ ProposeHoldingCap(caller, cap)
      PROVE  /\ [SupplyCapGovernance!Next]_<<supplyCap, supplyCapCandidate>>
             /\ [HoldingCapGovernance!Next]_<<holdingCap, holdingCapCandidate>>
  BY <1>1 DEF ProposeSupplyCap, ProposeHoldingCap,
              SupplyCapGovernance!Propose, HoldingCapGovernance!Propose
<1>2. ASSUME NEW caller \in Address, AcceptSupplyCap(caller) \/ AcceptHoldingCap(caller)
      PROVE  /\ [SupplyCapGovernance!Next]_<<supplyCap, supplyCapCandidate>>
             /\ [HoldingCapGovernance!Next]_<<holdingCap, holdingCapCandidate>>
  BY <1>2 DEF AcceptSupplyCap, AcceptHoldingCap,
              SupplyCapGovernance!Accept, HoldingCapGovernance!Accept
<1>3. ASSUME NEW caller \in Address,
             CancelSupplyCapProposal(caller) \/ CancelHoldingCapProposal(caller)
      PROVE  /\ [SupplyCapGovernance!Next]_<<supplyCap, supplyCapCandidate>>
             /\ [HoldingCapGovernance!Next]_<<holdingCap, holdingCapCandidate>>
  BY <1>3 DEF CancelSupplyCapProposal, CancelHoldingCapProposal,
              SupplyCapGovernance!Cancel, HoldingCapGovernance!Cancel
<1> QED
  BY <1>1, <1>2, <1>3 DEF CapsStep

LEMMA CapsStepRefines ==
  ASSUME [GovernanceNext]_governanceVars
  PROVE  /\ [SupplyCapGovernance!Next]_<<supplyCap, supplyCapCandidate>>
         /\ [HoldingCapGovernance!Next]_<<holdingCap, holdingCapCandidate>>
<1>1. CASE UNCHANGED capVars
  BY <1>1 DEF capVars
<1> QED
  BY <1>1, CapsMoveInTwoSteps DEF GovernanceNext, governanceVars

\* The supply cap changes only by accepting what was proposed, once.
THEOREM SupplyCapImplementsTwoStep == GovernanceSpec => SupplyCapIsTwoStep
<1>1. GovernanceInit => SupplyCapGovernance!Init
  BY DEF GovernanceInit, CapsInit, SupplyCapGovernance!Init
<1>2. [GovernanceNext]_governanceVars
        => [SupplyCapGovernance!Next]_<<supplyCap, supplyCapCandidate>>
  BY CapsStepRefines
<1> QED
  BY <1>1, <1>2, PTL DEF GovernanceSpec, SupplyCapIsTwoStep, SupplyCapGovernance!Spec

\* The holding cap changes only by accepting what was proposed, once.
THEOREM HoldingCapImplementsTwoStep == GovernanceSpec => HoldingCapIsTwoStep
<1>1. GovernanceInit => HoldingCapGovernance!Init
  BY DEF GovernanceInit, CapsInit, HoldingCapGovernance!Init
<1>2. [GovernanceNext]_governanceVars
        => [HoldingCapGovernance!Next]_<<holdingCap, holdingCapCandidate>>
  BY CapsStepRefines
<1> QED
  BY <1>1, <1>2, PTL DEF GovernanceSpec, HoldingCapIsTwoStep, HoldingCapGovernance!Spec
-----------------------------------------------------------------------------
(* The configuration. *)

LEMMA ConfigStepRefines ==
  ASSUME [GovernanceNext]_governanceVars
  PROVE  [ConfigGovernance!Next]_<<config, configCandidate>>
<1> USE DEF ConfigGovernance!Next
<1>1. CASE UNCHANGED configVars
  BY <1>1 DEF configVars
<1>2. ASSUME NEW caller \in Address, NEW proposedConfig \in ConfigArgs,
             ProposeConfig(caller, proposedConfig)
      PROVE  ConfigGovernance!Next
  <2>1. proposedConfig \in UsableConfig
    BY <1>2, ConfigArgsAssumption DEF ProposeConfig, ProtocolConfig, UsableConfig
  <2> QED
    BY <1>2, <2>1 DEF ProposeConfig, ConfigGovernance!Propose
<1>3. ASSUME NEW caller \in Address, AcceptConfig(caller) \/ CancelConfigProposal(caller)
      PROVE  ConfigGovernance!Next
  BY <1>3 DEF AcceptConfig, CancelConfigProposal,
              ConfigGovernance!Accept, ConfigGovernance!Cancel
<1> QED
  BY <1>1, <1>2, <1>3 DEF GovernanceNext, governanceVars, ConfigStep

\* The configuration changes only by accepting a usable one that was proposed.
THEOREM ConfigImplementsTwoStep == GovernanceSpec => ConfigIsTwoStep
<1>1. GovernanceInit => ConfigGovernance!Init
  BY DEF GovernanceInit, ConfigInit, ConfigGovernance!Init
<1>2. [GovernanceNext]_governanceVars => [ConfigGovernance!Next]_<<config, configCandidate>>
  BY ConfigStepRefines
<1> QED
  BY <1>1, <1>2, PTL DEF GovernanceSpec, ConfigIsTwoStep, ConfigGovernance!Spec
=============================================================================
