----------------------------- MODULE Governance -----------------------------
(***************************************************************************)
(* The governed parameters together: two caps and the configuration, each  *)
(* with a proposal slot of its own, under an admin who may pause the       *)
(* contract and change between a proposal and its acceptance.              *)
(***************************************************************************)
EXTENDS Caps, Config

governanceVars == <<adminVars, events, capVars, configVars>>

GovernanceInit == AdminInit /\ CapsInit /\ ConfigInit

GovernanceNext ==
    \/ CapsStep /\ UNCHANGED <<adminVars, configVars>>
    \/ ConfigStep /\ UNCHANGED <<adminVars, capVars>>
    \/ AdminNext /\ UNCHANGED <<capVars, configVars>>

GovernanceSpec == GovernanceInit /\ [][GovernanceNext]_governanceVars

GovernanceTypeOK == AdminTypeOK /\ CapsTypeOK /\ ConfigTypeOK
=============================================================================
