------------------------------ MODULE MCAegis -------------------------------
(***************************************************************************)
(* The whole contract between two addresses.  The runs differ in what the  *)
(* callers pass: each opens the inputs its question is about and keeps the *)
(* other components to the calls that reach the interesting states.        *)
(***************************************************************************)
EXTENDS EventIndex, Capabilities, TLC

CONSTANTS a1, a2, m1

MCAddress == {a1, a2}
MCSymmetry == Permutations(MCAddress)
MCView == <<adminVars, registryVars, governedVars, assetVars>>

MCAmountArgs == -1..2
MCUsableConfigs == [min_transfer_amount : {1}, max_batch_size : {1}]
MCRaisedMinimum == [min_transfer_amount : {2}, max_batch_size : {1}]
MCStrictPolicies ==
    {[enforced |-> TRUE, allow_dual_duty_issuance |-> FALSE,
      allow_self_issuance |-> FALSE, require_independent_approver |-> TRUE]}
=============================================================================
