----------------------------- MODULE Preflight ------------------------------
(***************************************************************************)
(* The reads a client asks before it submits: the restriction evaluators   *)
(* (src/restrictions.rs), the investor eligibility (src/eligibility.rs),   *)
(* the issuance verdict (src/issuer.rs), against what the submission then  *)
(* does.                                                                   *)
(*                                                                         *)
(* Reads and entrypoints run their checks in an order of their own and     *)
(* report the first one that fails.  "Trap" is an arithmetic overflow,     *)
(* which no check announces.                                               *)
(***************************************************************************)
EXTENDS Aegis

Overflows(a, b) == a + b > MaxAmount
-----------------------------------------------------------------------------
(* The errors transfer and mint_asset revert with, in the order they meet  *)
(* them; "Ok" when they commit.                                            *)

AssetError ==
    [Active |-> "Ok", Draft |-> "AssetBlockedRestriction", Paused |-> "AssetPausedRestriction",
     Retired |-> "AssetRetiredRestriction", Blocked |-> "AssetBlockedRestriction"]

ReceiverError ==
    [Approved |-> "Ok", Blocked |-> "ReceiverBlocked", Pending |-> "ReceiverCompliancePending",
     Unknown |-> "ReceiverNotWhitelisted", Revoked |-> "ReceiverNotWhitelisted"]

SenderError ==
    [Approved |-> "Ok", Blocked |-> "SenderBlocked", Pending |-> "SenderCompliancePending",
     Unknown |-> "SenderNotWhitelisted", Revoked |-> "SenderNotWhitelisted"]

CapChecks(cap, held, amount, report) ==
    <<Check(cap > 0 /\ Overflows(held, amount), "Trap"),
      Check(cap > 0 /\ held + amount > cap, report)>>

TransferError(from, to, amount) ==
    FirstFailing(
        <<Check(paused, "ContractPaused"),
          Check(amount <= 0, "InvalidAmount"),
          Check(assetStatus # "Active", AssetError[assetStatus]),
          Check(status[from] # "Approved", SenderError[status[from]]),
          Check(status[to] # "Approved", ReceiverError[status[to]])>>
        \o CapChecks(holdingCap, balance[to], amount, "HoldingCapExceeded") \o
        <<Check(balance[from] < amount, "InsufficientBalance"),
          Check(Overflows(Debited(from, amount)[to], amount), "Trap")>>, "Ok")

MintError(caller, to, amount) ==
    FirstFailing(
        <<Check(paused, "ContractPaused"),
          Check(admin = NoAddress, "NotInitialized"),
          Check(~RequireRole(caller, "AssetManager"), "Unauthorized"),
          Check(~RequireIssuanceAuthority(caller, to),
                IssuanceError[EvaluateIssuance(caller, to)]),
          Check(amount <= 0, "InvalidAmount"),
          Check(assetStatus # "Active", AssetError[assetStatus]),
          Check(status[to] # "Approved", ReceiverError[status[to]])>>
        \o CapChecks(supplyCap, totalSupply, amount, "SupplyCapExceeded")
        \o CapChecks(holdingCap, balance[to], amount, "HoldingCapExceeded") \o
        <<Check(Overflows(balance[to], amount) \/ Overflows(totalSupply, amount), "Trap")>>,
        "Ok")
-----------------------------------------------------------------------------
(* The reads. *)

AssetStatusReason ==
    [Active |-> "None", Draft |-> "AssetBlocked", Paused |-> "AssetPaused",
     Retired |-> "AssetRetired", Blocked |-> "AssetBlocked"]

\* Slip: a credit that just reaches the cap is reported as exceeding it.
EvaluateTransferBelowCap(from, to, amount) ==
    FirstFailing(
        <<Check(paused, "ContractPaused"),
          Check(amount <= 0, "InvalidAmount"),
          Check(assetStatus # "Active", AssetStatusReason[assetStatus]),
          Check(status[from] # "Approved", "SenderNotCompliant"),
          Check(status[to] # "Approved", "RecipientNotCompliant"),
          Check(holdingCap > 0 /\ balance[to] + amount >= holdingCap, "HoldingCapExceeded"),
          Check(balance[from] < amount, "InsufficientBalance")>>, "None")

\* Slip: the receiver is looked at before the sender.
EvaluateTransferReceiverFirst(from, to, amount) ==
    FirstFailing(
        <<Check(paused, "ContractPaused"),
          Check(amount <= 0, "InvalidAmount"),
          Check(assetStatus # "Active", AssetStatusReason[assetStatus]),
          Check(status[to] # "Approved", "RecipientNotCompliant"),
          Check(status[from] # "Approved", "SenderNotCompliant")>>
        \o CapChecks(holdingCap, balance[to], amount, "HoldingCapExceeded") \o
        <<Check(balance[from] < amount, "InsufficientBalance")>>, "None")

EvaluateTransfer(from, to, amount) ==
    FirstFailing(
        <<Check(paused, "ContractPaused"),
          Check(amount <= 0, "InvalidAmount"),
          Check(assetStatus # "Active", AssetStatusReason[assetStatus]),
          Check(status[from] # "Approved", "SenderNotCompliant"),
          Check(status[to] # "Approved", "RecipientNotCompliant")>>
        \o CapChecks(holdingCap, balance[to], amount, "HoldingCapExceeded") \o
        <<Check(balance[from] < amount, "InsufficientBalance")>>, "None")

\* Slip: the role table is asked, and the admin who is not in it refused.
MayMintByRole(caller) == admin # NoAddress /\ role[caller] = "AssetManager"

MayMint(caller) == RequireRole(caller, "AssetManager")

EvaluateMint(caller, to, amount) ==
    FirstFailing(
        <<Check(paused, "ContractPaused"),
          Check(~MayMint(caller), "UnauthorizedOperation"),
          Check(amount <= 0, "InvalidAmount"),
          Check(assetStatus # "Active", AssetStatusReason[assetStatus]),
          Check(status[to] # "Approved", "RecipientNotCompliant")>>
        \o CapChecks(supplyCap, totalSupply, amount, "SupplyCapExceeded")
        \o CapChecks(holdingCap, balance[to], amount, "HoldingCapExceeded"), "None")

ErrorForReason ==
    [None |-> "Ok", UnauthorizedOperation |-> "Unauthorized",
     ContractPaused |-> "ContractPaused", AssetPaused |-> "AssetPausedRestriction",
     AssetRetired |-> "AssetRetiredRestriction", AssetBlocked |-> "AssetBlockedRestriction",
     SenderNotCompliant |-> "SenderNotWhitelisted",
     RecipientNotCompliant |-> "ReceiverNotWhitelisted", InvalidAmount |-> "InvalidAmount",
     InsufficientBalance |-> "InsufficientBalance",
     HoldingCapExceeded |-> "HoldingCapExceeded", SupplyCapExceeded |-> "SupplyCapExceeded",
     Trap |-> "Trap"]

\* Slip: the errors of the two parties are mixed up.
ReasonForErrorSwapped(error) ==
    LET reasonOf == [SenderNotWhitelisted   |-> "RecipientNotCompliant",
                     ReceiverNotWhitelisted |-> "SenderNotCompliant"]
    IN  IF error \in DOMAIN reasonOf THEN reasonOf[error] ELSE "NoReason"

\* What an observed error is read back as; "NoReason" for one that is not
\* about a movement.
ReasonForError(error) ==
    LET reasonOf ==
            [Unauthorized |-> "UnauthorizedOperation", ContractPaused |-> "ContractPaused",
             AssetPausedRestriction |-> "AssetPaused", AssetRetiredRestriction |-> "AssetRetired",
             AssetBlockedRestriction |-> "AssetBlocked",
             SenderNotWhitelisted |-> "SenderNotCompliant",
             ReceiverNotWhitelisted |-> "RecipientNotCompliant",
             InvalidAmount |-> "InvalidAmount", InsufficientBalance |-> "InsufficientBalance",
             HoldingCapExceeded |-> "HoldingCapExceeded",
             SupplyCapExceeded |-> "SupplyCapExceeded"]
    IN  IF error \in DOMAIN reasonOf THEN reasonOf[error] ELSE "NoReason"

\* Slip: a balance that has reached the cap still counts as below it.
HasHeadroomAtCap(investor) == holdingCap <= 0 \/ balance[investor] <= holdingCap

HasHeadroom(investor) == holdingCap <= 0 \/ balance[investor] < holdingCap

\* A balance may exceed a cap that was lowered since; without a cap the code
\* reports no capacity at all, here "None".
RemainingCapacity(investor) ==
    IF holdingCap <= 0 THEN "None"
    ELSE IF balance[investor] > holdingCap THEN 0 ELSE holdingCap - balance[investor]

InvestorEligibility(investor) ==
    LET operable == status[investor] = "Approved" /\ ~paused /\ assetStatus = "Active"
    IN  [compliance_status |-> status[investor], whitelisted |-> status[investor] = "Approved",
         contract_paused |-> paused, asset_status |-> assetStatus,
         balance |-> balance[investor], holding_cap |-> holdingCap,
         remaining_capacity |-> RemainingCapacity(investor),
         can_receive |-> operable /\ HasHeadroom(investor),
         can_send    |-> operable /\ balance[investor] > 0]
-----------------------------------------------------------------------------
(* Properties. *)

\* check_transfer_eligibility says yes exactly when the transfer would commit:
\* no check of transfer is missing from the read, the balance arithmetic never
\* refuses what the read let pass, and nothing is refused by the read alone.
TransferPreflightExact ==
    \A from, to \in Address, amount \in AmountArgs :
        EvaluateTransfer(from, to, amount) = "None" <=> CanTransfer(from, to, amount)

\* A restriction tells the client what the revert will: the reason of the read
\* maps onto the error of the transfer, except that the read folds the three
\* errors an unapproved party can cause into one.  In particular both report
\* the same party and the same check when several fail at once.
TransferReasonFollowsRevert ==
    \A from, to \in Address, amount \in AmountArgs :
        LET reason == EvaluateTransfer(from, to, amount)
            error  == TransferError(from, to, amount)
        IN  CASE reason = "SenderNotCompliant" ->
                    status[from] # "Approved" /\ error = SenderError[status[from]]
              [] reason = "RecipientNotCompliant" ->
                    status[to] # "Approved" /\ error = ReceiverError[status[to]]
              [] OTHER -> error = ErrorForReason[reason]

\* The two reads a minter is told to combine are sufficient together, up to the
\* overflow of the supply that neither looks at: with both saying yes the mint
\* commits, and a mint that commits was refused by neither.
MintPreflightsTogetherExact ==
    \A caller, to \in Address, amount \in AmountArgs :
        (/\ EvaluateMint(caller, to, amount) = "None"
         /\ EvaluateIssuance(caller, to) = "Allowed"
         /\ ~Overflows(totalSupply, amount))
            <=> CanMint(caller, to, amount)

\* The per-investor snapshots compose.  Two investors whose flags say they can
\* send and receive can move one unit between them, and only they can; more of
\* it up to what the sender's snapshot says it holds and the receiver's that it
\* has room for, each taken on its own, a transfer to oneself included.
EligibilityComposes ==
    \A from, to \in Address :
        LET sender   == InvestorEligibility(from)
            receiver == InvestorEligibility(to)
            able     == sender.can_send /\ receiver.can_receive
        IN  /\ able <=> CanTransfer(from, to, 1)
            /\ \A amount \in AmountArgs :
                    CanTransfer(from, to, amount)
                        <=> /\ able /\ amount \in 1..sender.balance
                            /\ receiver.holding_cap > 0
                                    => amount <= receiver.remaining_capacity

\* An error a client meets is never read back as a restriction other than the
\* one the read would have told it: the two tables are inverse where both
\* apply, and an error outside of them is given no reason.
RevertNeverMisread ==
    \A from, to \in Address, amount \in AmountArgs :
        /\ ReasonForError(TransferError(from, to, amount))
                \in {"NoReason", EvaluateTransfer(from, to, amount)}
        /\ ReasonForError(MintError(from, to, amount))
                \in {"NoReason", EvaluateMint(from, to, amount)}

\* What the separation report refuses, the mint refuses with the code it gave,
\* whatever the amount, unless a pause comes first; what it lets pass is not
\* refused over authority.  A conflict is explained by the fields beside it.
IssuanceReportExact ==
    \A caller, to \in Address :
        LET report == CheckIssuance(caller, to)
            refusals == {IssuanceError[reason] : reason \in DOMAIN IssuanceError \ {"Allowed"}}
        IN  /\ \A amount \in AmountArgs :
                LET error == MintError(caller, to, amount)
                IN  IF paused THEN error = "ContractPaused"
                    ELSE IF report.allowed THEN error \notin refusals
                    ELSE error = report.error_code
            /\ report.reason = "ApproverConflict" => report.recipient_approver = caller
            /\ report.reason = "DualDutyConflict" =>
                    {"Compliance", "Issuance"} \subseteq report.caller_duties
-----------------------------------------------------------------------------
(* What the repository says of these reads and the code does not keep. *)

\* "The returned reason is the same one the matching transfer revert reports
\* via its numeric error code": check_transfer_restriction in src/restrictions.rs.
TransferReasonIsTheRevert ==
    \A from, to \in Address, amount \in AmountArgs :
        ErrorForReason[EvaluateTransfer(from, to, amount)] = TransferError(from, to, amount)

\* "or RestrictionReason::None if it would succeed": check_mint_restriction in
\* src/restrictions.rs, which does not look at the issuer separation policy.
MintReasonNoneMeansSuccess ==
    \A caller, to \in Address, amount \in AmountArgs :
        EvaluateMint(caller, to, amount) = "None" => MintError(caller, to, amount) = "Ok"
=============================================================================
