-------------------------------- MODULE Caps --------------------------------
(***************************************************************************)
(* The global supply cap and the per-investor holding cap, each amended by *)
(* the admin in two steps (src/supply_cap.rs, src/holding.rs).  A cap of 0 *)
(* is no cap.  A refused assertion in the code reverts the invocation.     *)
(***************************************************************************)
EXTENDS Admin, Integers

CONSTANTS
    MaxAmount,    \* the largest amount: i128::MAX, scaled down
    CapArgs,      \* the caps callers propose
    NoProposal    \* an empty candidate slot

ASSUME MaxAmountAssumption == MaxAmount \in Nat
ASSUME CapArgsAssumption == CapArgs \subseteq (-MaxAmount - 1)..MaxAmount
ASSUME NoProposalAssumption == NoProposal \notin Int

VARIABLES
    supplyCap,            \* DataKey::SupplyCap, 0 when absent
    supplyCapCandidate,   \* DataKey::SupplyCapCandidate
    holdingCap,           \* DataKey::HoldingCap, 0 when absent
    holdingCapCandidate   \* DataKey::HoldingCapCandidate

supplyCapVars == <<supplyCap, supplyCapCandidate>>
holdingCapVars == <<holdingCap, holdingCapCandidate>>
capVars == <<supplyCap, supplyCapCandidate, holdingCap, holdingCapCandidate>>

CapsTypeOK ==
    /\ supplyCap \in 0..MaxAmount
    /\ supplyCapCandidate \in 0..MaxAmount \cup {NoProposal}
    /\ holdingCap \in 0..MaxAmount
    /\ holdingCapCandidate \in 0..MaxAmount \cup {NoProposal}

CapsInit ==
    /\ supplyCap = 0 /\ supplyCapCandidate = NoProposal
    /\ holdingCap = 0 /\ holdingCapCandidate = NoProposal
-----------------------------------------------------------------------------
(* Enforcement, consumed by minting and transfers. *)

EnforceSupplyCap(supply, amount) == supplyCap <= 0 \/ supply + amount <= supplyCap

EnforceHoldingCap(balance, incoming) == holdingCap <= 0 \/ balance + incoming <= holdingCap
-----------------------------------------------------------------------------
(* Entrypoints. *)

MayGovern(caller) == RequireNotPaused /\ IsAdmin(caller)

ProposeSupplyCap(caller, proposedCap) ==
    /\ MayGovern(caller)
    /\ proposedCap >= 0
    /\ proposedCap # supplyCap
    /\ supplyCapCandidate' = proposedCap
    /\ UNCHANGED <<supplyCap, holdingCapVars>>
    /\ Publish(<<[topic |-> "supply_cap_proposed", admin |-> caller,
                  current_cap |-> supplyCap, proposed_cap |-> proposedCap]>>)

\* Slip: the slot is not emptied.
AcceptSupplyCapKeepsProposal(caller) ==
    /\ MayGovern(caller)
    /\ supplyCapCandidate # NoProposal
    /\ supplyCap' = supplyCapCandidate
    /\ UNCHANGED <<supplyCapCandidate, holdingCapVars>>
    /\ Publish(<<[topic |-> "supply_cap_amended", admin |-> caller,
                  previous_cap |-> supplyCap, new_cap |-> supplyCapCandidate]>>)

AcceptSupplyCap(caller) ==
    /\ MayGovern(caller)
    /\ supplyCapCandidate # NoProposal
    /\ supplyCap' = supplyCapCandidate
    /\ supplyCapCandidate' = NoProposal
    /\ UNCHANGED holdingCapVars
    /\ Publish(<<[topic |-> "supply_cap_amended", admin |-> caller,
                  previous_cap |-> supplyCap, new_cap |-> supplyCapCandidate]>>)

\* Slip: the cap is removed in place of its candidate.
CancelSupplyCapWrongKey(caller) ==
    /\ MayGovern(caller)
    /\ supplyCapCandidate # NoProposal
    /\ supplyCap' = 0
    /\ UNCHANGED <<supplyCapCandidate, holdingCapVars>>
    /\ Publish(<<>>)

CancelSupplyCapProposal(caller) ==
    /\ MayGovern(caller)
    /\ supplyCapCandidate # NoProposal
    /\ supplyCapCandidate' = NoProposal
    /\ UNCHANGED <<supplyCap, holdingCapVars>>
    /\ Publish(<<>>)

ProposeHoldingCap(caller, proposedCap) ==
    /\ MayGovern(caller)
    /\ proposedCap >= 0
    /\ proposedCap # holdingCap
    /\ holdingCapCandidate' = proposedCap
    /\ UNCHANGED <<holdingCap, supplyCapVars>>
    /\ Publish(<<[topic |-> "holding_cap_proposed", admin |-> caller,
                  current_cap |-> holdingCap, proposed_cap |-> proposedCap]>>)

\* Slip: the candidate of the other cap is read.
AcceptHoldingCapFromSupply(caller) ==
    /\ MayGovern(caller)
    /\ supplyCapCandidate # NoProposal
    /\ holdingCap' = supplyCapCandidate
    /\ holdingCapCandidate' = NoProposal
    /\ UNCHANGED supplyCapVars
    /\ Publish(<<[topic |-> "holding_cap_amended", admin |-> caller,
                  previous_cap |-> holdingCap, new_cap |-> supplyCapCandidate]>>)

\* Slip: the previous cap is read after it has been replaced.
AcceptHoldingCapLateRead(caller) ==
    /\ MayGovern(caller)
    /\ holdingCapCandidate # NoProposal
    /\ holdingCap' = holdingCapCandidate
    /\ holdingCapCandidate' = NoProposal
    /\ UNCHANGED supplyCapVars
    /\ Publish(<<[topic |-> "holding_cap_amended", admin |-> caller,
                  previous_cap |-> holdingCapCandidate, new_cap |-> holdingCapCandidate]>>)

AcceptHoldingCap(caller) ==
    /\ MayGovern(caller)
    /\ holdingCapCandidate # NoProposal
    /\ holdingCap' = holdingCapCandidate
    /\ holdingCapCandidate' = NoProposal
    /\ UNCHANGED supplyCapVars
    /\ Publish(<<[topic |-> "holding_cap_amended", admin |-> caller,
                  previous_cap |-> holdingCap, new_cap |-> holdingCapCandidate]>>)

CancelHoldingCapProposal(caller) ==
    /\ MayGovern(caller)
    /\ holdingCapCandidate # NoProposal
    /\ holdingCapCandidate' = NoProposal
    /\ UNCHANGED <<holdingCap, supplyCapVars>>
    /\ Publish(<<>>)

CapsStep ==
    \E caller \in Address :
        \/ \E cap \in CapArgs : ProposeSupplyCap(caller, cap) \/ ProposeHoldingCap(caller, cap)
        \/ AcceptSupplyCap(caller) \/ AcceptHoldingCap(caller)
        \/ CancelSupplyCapProposal(caller) \/ CancelHoldingCapProposal(caller)
-----------------------------------------------------------------------------
(* Properties. *)

\* Accepting a pending proposal always changes the cap: a proposal is checked
\* against the active cap only when it is made, so this rests on the active cap
\* not moving underneath it (the slot is emptied by every acceptance).
ProposalIsAChange ==
    supplyCapCandidate # supplyCap /\ holdingCapCandidate # holdingCap

SupplyCapGovernance ==
    INSTANCE TwoStep WITH Value <- 0..MaxAmount, Default <- 0,
                          active <- supplyCap, proposed <- supplyCapCandidate

HoldingCapGovernance ==
    INSTANCE TwoStep WITH Value <- 0..MaxAmount, Default <- 0,
                          active <- holdingCap, proposed <- holdingCapCandidate

\* Each cap keeps the two-step promise whatever happens to the other one, to
\* the pause and to the admin between a proposal and its acceptance.
SupplyCapIsTwoStep == SupplyCapGovernance!Spec
HoldingCapIsTwoStep == HoldingCapGovernance!Spec
=============================================================================
