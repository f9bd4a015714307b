---------------------------- MODULE Capabilities ----------------------------
(***************************************************************************)
(* The runtime switches of the capability descriptor, by which clients     *)
(* show or hide what they offer (src/capabilities.rs).  The descriptor     *)
(* gates nothing, so what it says is right only if the entrypoints keep to *)
(* it.  One runtime switch is left out: metadata_configured compares the   *)
(* metadata strings with the empty one, and metadata is opaque here.  The  *)
(* other fields of the descriptor are constants of the build.              *)
(***************************************************************************)
EXTENDS Preflight

OperationsEnabled == ~paused /\ assetStatus = "Active"

\* Slip: a cap of 0 is taken for one that lets nothing through.
CapEnforcedAtZero(cap) == cap >= 0

CapEnforced(cap) == cap > 0

RuntimeSwitches ==
    [initialized                |-> admin # NoAddress,
     paused                     |-> paused,
     asset_active               |-> assetStatus = "Active",
     operations_enabled         |-> OperationsEnabled,
     supply_cap_enforced        |-> CapEnforced(supplyCap),
     holding_cap_enforced       |-> CapEnforced(holdingCap),
     issuer_separation_enforced |-> policy.enforced]
-----------------------------------------------------------------------------
(* Properties. *)

\* What an enforced policy forbids, said of the parties and not of the guard:
\* issuing by somebody who could clear an investor, to oneself, or to whom one
\* has cleared.
ForbiddenByPolicy(caller, to) ==
    \/ ~policy.allow_dual_duty_issuance /\ AuthorityGuard(caller, "Unknown") = "Allowed"
    \/ ~policy.allow_self_issuance /\ caller = to
    \/ policy.require_independent_approver /\ approver[to] = caller

\* Each switch of the descriptor says both ways what the entrypoints do.  While
\* it reads off nobody is refused by its control, whatever else is refused;
\* while it reads on nobody gets past the control: everything is refused over
\* the pause, nothing commits on an asset that is not active, no mint takes the
\* supply past its cap, no credit an investor past the holding cap, and nobody
\* issues whom the policy forbids to.  The derived switch is both of the first
\* two, for the flags of every investor too.  A minter is told that there is no
\* admin exactly while the descriptor says so: a pause, which would be reported
\* first, needs an admin.
SwitchesMatchEnforcement ==
    \A a, b \in Address, amount \in AmountArgs :
        LET switch == RuntimeSwitches
            mint   == MintError(a, b, amount)
            errors == {mint, TransferError(a, b, amount)}
        IN  /\ IF switch.paused THEN errors = {"ContractPaused"}
               ELSE "ContractPaused" \notin errors
            /\ IF switch.asset_active
               THEN errors \cap {"AssetPausedRestriction", "AssetRetiredRestriction",
                                 "AssetBlockedRestriction"} = {}
               ELSE "Ok" \notin errors
            /\ IF switch.operations_enabled
               THEN ~switch.paused /\ switch.asset_active
               ELSE /\ "Ok" \notin errors
                    /\ ~InvestorEligibility(a).can_send
                    /\ ~InvestorEligibility(a).can_receive
            /\ IF switch.supply_cap_enforced
               THEN totalSupply + amount > supplyCap => mint # "Ok"
               ELSE mint # "SupplyCapExceeded"
            /\ IF switch.holding_cap_enforced
               THEN balance[b] + amount > holdingCap => "Ok" \notin errors
               ELSE "HoldingCapExceeded" \notin errors
            /\ IF switch.issuer_separation_enforced
               THEN ForbiddenByPolicy(a, b) => mint # "Ok"
               ELSE mint \notin {"IssuanceDutyConflict", "SelfIssuanceForbidden",
                                 "IssuanceApproverConflict"}
            /\ mint = "NotInitialized" <=> ~switch.initialized

\* While the contract has no admin only holders act.  Officers whom a former
\* admin appointed are still in the role table, and a nominee in the candidate
\* slot, but none of them gets anything done: besides transfers, all that can
\* change is that somebody initializes the contract.
OnlyTradesWithoutAdmin ==
    [][~RuntimeSwitches.initialized =>
        /\ UNCHANGED <<adminCandidate, paused, registryVars, governedVars, totalSupply, metadata>>
        /\ \A a \in Address : role'[a] # role[a] => admin' = a
        /\ balance' # balance => UNCHANGED <<admin, role>>]_vars
=============================================================================
