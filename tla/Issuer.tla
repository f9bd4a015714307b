------------------------------- MODULE Issuer -------------------------------
(***************************************************************************)
(* Issuer role separation: which duties a role carries, the policy an      *)
(* admin may switch on, and the guard every issuance passes                *)
(* (src/issuer.rs).                                                        *)
(***************************************************************************)
EXTENDS Compliance

CONSTANT PolicyArgs        \* the policies the admin sets

IssuerSeparationPolicy ==
    [enforced : BOOLEAN, allow_dual_duty_issuance : BOOLEAN,
     allow_self_issuance : BOOLEAN, require_independent_approver : BOOLEAN]

ASSUME PolicyArgsAssumption == PolicyArgs \subseteq IssuerSeparationPolicy

VARIABLE policy            \* DataKey::IssuerSeparationPolicy, permissive when absent

IssuerTypeOK == policy \in IssuerSeparationPolicy

DefaultPolicy ==
    [enforced |-> FALSE, allow_dual_duty_issuance |-> TRUE,
     allow_self_issuance |-> TRUE, require_independent_approver |-> FALSE]

IssuerInit == policy = DefaultPolicy

\* Slip: the pause entrypoint is thought to let compliance officers in.
DutiesEmergencyForOfficers ==
    [None              |-> {},
     Admin             |-> {"Compliance", "Issuance", "Emergency", "Governance"},
     ComplianceOfficer |-> {"Compliance", "Emergency"},
     AssetManager      |-> {"Issuance"},
     EmergencyOfficer  |-> {"Compliance", "Emergency"}]

Duties ==
    [None              |-> {},
     Admin             |-> {"Compliance", "Issuance", "Emergency", "Governance"},
     ComplianceOfficer |-> {"Compliance"},
     AssetManager      |-> {"Issuance"},
     EmergencyOfficer  |-> {"Compliance", "Emergency"}]

\* Slip: the role table is asked what the admin may do.
EffectiveRoleFromTable(caller) == IF admin = NoAddress THEN "None" ELSE role[caller]

\* The admin's authority comes from DataKey::Admin, not from the role table.
EffectiveRole(caller) ==
    IF admin = NoAddress THEN "None"
    ELSE IF caller = admin THEN "Admin" ELSE role[caller]

\* recipient is NoAddress for an issuance without a single beneficiary.
EvaluateIssuance(caller, recipient) ==
    LET duties == Duties[EffectiveRole(caller)]
    IN  IF admin = NoAddress THEN "NotInitialized"
        ELSE IF "Issuance" \notin duties THEN "MissingIssuanceDuty"
        ELSE IF ~policy.enforced THEN "Allowed"
        ELSE IF ~policy.allow_dual_duty_issuance /\ "Compliance" \in duties
             THEN "DualDutyConflict"
        ELSE IF recipient = NoAddress THEN "Allowed"
        ELSE IF ~policy.allow_self_issuance /\ caller = recipient
             THEN "SelfIssuanceForbidden"
        ELSE IF policy.require_independent_approver /\ approver[recipient] = caller
             THEN "ApproverConflict"
        ELSE "Allowed"

RequireIssuanceAuthority(caller, recipient) == EvaluateIssuance(caller, recipient) = "Allowed"

IssuanceError ==
    [Allowed |-> "Ok", NotInitialized |-> "NotInitialized",
     MissingIssuanceDuty |-> "Unauthorized", DualDutyConflict |-> "IssuanceDutyConflict",
     SelfIssuanceForbidden |-> "SelfIssuanceForbidden",
     ApproverConflict |-> "IssuanceApproverConflict"]

\* Slip: the recipient is not passed on, as in distribute_yield.
CheckIssuanceForNobody(caller, recipient) ==
    LET reason == EvaluateIssuance(caller, NoAddress)
    IN  [caller_role |-> EffectiveRole(caller), caller_duties |-> Duties[EffectiveRole(caller)],
         recipient_approver |-> approver[recipient],
         allowed |-> reason = "Allowed", reason |-> reason, error_code |-> IssuanceError[reason]]

\* The report of check_issuance_authority.
CheckIssuance(caller, recipient) ==
    LET reason == EvaluateIssuance(caller, recipient)
    IN  [caller_role |-> EffectiveRole(caller), caller_duties |-> Duties[EffectiveRole(caller)],
         recipient_approver |-> approver[recipient],
         allowed |-> reason = "Allowed", reason |-> reason, error_code |-> IssuanceError[reason]]

SetIssuerSeparationPolicy(caller, newPolicy) ==
    /\ RequireNotPaused
    /\ IsAdmin(caller)
    /\ policy' = newPolicy
    /\ Publish(<<[topic |-> "issuer_separation_policy_updated", admin |-> caller,
                  previous_policy |-> policy, new_policy |-> newPolicy]>>)

IssuerStep ==
    \E caller \in Address, newPolicy \in PolicyArgs : SetIssuerSeparationPolicy(caller, newPolicy)
-----------------------------------------------------------------------------
(* Properties. *)

\* The duty table clients cache, and the separation guard judges dual duty by,
\* says of every address what the entrypoints let it do: clear an investor,
\* issue, pause, govern.  The table goes by the effective role, the entrypoints
\* by the admin key and the role table, so it takes a role table in which
\* nobody but the admin is ever found as Admin.
DutiesAreEnforced ==
    \A a \in Address :
        LET duties == Duties[EffectiveRole(a)]
        IN  /\ "Compliance" \in duties <=> AuthorityGuard(a, "Unknown") = "Allowed"
            /\ "Issuance" \in duties <=> RequireRole(a, "AssetManager")
            /\ "Emergency" \in duties <=> RequireRole(a, "EmergencyOfficer")
            /\ "Governance" \in duties <=> IsAdmin(a)
=============================================================================
