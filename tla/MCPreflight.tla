---------------------------- MODULE MCPreflight -----------------------------
(***************************************************************************)
(* The reads against the submissions they predict, in every reachable      *)
(* state and for every argument: amounts below zero, zero, within and      *)
(* beyond the caps, and up to the largest one.                             *)
(***************************************************************************)
EXTENDS Capabilities, TLC

CONSTANTS a1, a2

MCAddress == {a1, a2}
MCSymmetry == Permutations(MCAddress)
MCView == <<adminVars, registryVars, governedVars, assetVars>>

MCAmountArgs == -1..MaxAmount
MCIssuedAmounts == 0..MaxAmount

\* Every restriction on its own and all of them together, and all of them
\* written down but not enforced.
MCSeparationPolicies ==
    {[enforced |-> enforced, allow_dual_duty_issuance |-> allowed,
      allow_self_issuance |-> allowed, require_independent_approver |-> independent] :
        <<enforced, allowed, independent>> \in
            {<<TRUE, FALSE, FALSE>>, <<TRUE, TRUE, TRUE>>, <<TRUE, FALSE, TRUE>>,
             <<FALSE, FALSE, TRUE>>}}
MCStrictPolicies ==
    {[enforced |-> TRUE, allow_dual_duty_issuance |-> FALSE,
      allow_self_issuance |-> FALSE, require_independent_approver |-> TRUE],
     [enforced |-> TRUE, allow_dual_duty_issuance |-> TRUE,
      allow_self_issuance |-> TRUE, require_independent_approver |-> TRUE]}
=============================================================================
