----------------------------- MODULE Compliance -----------------------------
(***************************************************************************)
(* The compliance registry: a lifecycle status per investor, the officers  *)
(* that move it, the transition guards they share with the pre-flight      *)
(* reads (src/compliance.rs, src/compliance_guards.rs) and the record of   *)
(* who granted a clearance (record_compliance_approver, src/issuer.rs).    *)
(***************************************************************************)
EXTENDS Admin, Naturals

CONSTANTS
    StatusArgs,   \* the statuses callers request
    MaxBatch      \* the longest batch callers submit

ComplianceStatus == {"Unknown", "Pending", "Approved", "Revoked", "Blocked"}

ASSUME StatusArgsAssumption == StatusArgs \subseteq ComplianceStatus
ASSUME MaxBatchAssumption == MaxBatch \in Nat

VARIABLES
    status,       \* DataKey::ComplianceStatus(_), "Unknown" when absent
    whitelist,    \* the addresses with the legacy DataKey::Whitelist(_) key
    approver      \* DataKey::ComplianceApprover(_), NoAddress when absent

complianceVars == <<status, whitelist, approver>>

ComplianceTypeOK ==
    /\ status \in [Address -> ComplianceStatus]
    /\ whitelist \subseteq Address
    /\ approver \in [Address -> Address \cup {NoAddress}]

ComplianceInit ==
    /\ status = [u \in Address |-> "Unknown"]
    /\ whitelist = {}
    /\ approver = [u \in Address |-> NoAddress]
-----------------------------------------------------------------------------
(* Transition guards: each reports the first precondition that fails. *)

AllowedTargets ==
    [Unknown  |-> {"Pending", "Approved", "Blocked"},
     Pending  |-> {"Approved", "Revoked", "Blocked"},
     Approved |-> {"Pending", "Revoked", "Blocked"},
     Revoked  |-> {"Pending", "Approved", "Blocked"},
     Blocked  |-> {"Pending"}]

TransitionIsAllowed(from, to) == to \in AllowedTargets[from]

AuthorityGuard(caller, from) ==
    IF admin = NoAddress THEN "NotInitialized"
    ELSE IF caller = admin THEN "Allowed"
    ELSE IF from = "Blocked" THEN "BlockedRequiresAdmin"
    ELSE IF role[caller] \in {"ComplianceOfficer", "EmergencyOfficer"} THEN "Allowed"
    ELSE "CallerUnauthorized"

EvaluateFromStatus(caller, current, newStatus) ==
    IF paused THEN "ContractPaused"
    ELSE IF AuthorityGuard(caller, current) # "Allowed" THEN AuthorityGuard(caller, current)
    ELSE IF current = newStatus THEN "StatusUnchanged"
    ELSE IF newStatus = "Unknown" THEN "TargetUnknownForbidden"
    ELSE IF ~TransitionIsAllowed(current, newStatus) THEN "TransitionForbidden"
    ELSE "Allowed"

ErrorForGuard ==
    [Allowed |-> "Ok", NotInitialized |-> "NotInitialized", ContractPaused |-> "ContractPaused",
     CallerUnauthorized |-> "Unauthorized", BlockedRequiresAdmin |-> "Unauthorized",
     StatusUnchanged |-> "ComplianceStatusUnchanged",
     TargetUnknownForbidden |-> "InvalidComplianceTransition",
     TransitionForbidden |-> "InvalidComplianceTransition",
     DuplicateUserInBatch |-> "InvalidComplianceTransition"]

RequireTransition(caller, current, newStatus) ==
    EvaluateFromStatus(caller, current, newStatus) = "Allowed"

RequireTransitionAuthority(caller, current) == AuthorityGuard(caller, current) = "Allowed"

\* Slip: the entry right before the current one is not compared.
BatchHasDuplicateUserOffByOne(updates, index) ==
    \E previous \in 1..(index - 2) : updates[previous].user = updates[index].user

BatchHasDuplicateUser(updates, index) ==
    \E previous \in 1..(index - 1) : updates[previous].user = updates[index].user
-----------------------------------------------------------------------------
(* Writes. *)

Update == [user : Address, new_status : StatusArgs]

\* Slip: the legacy key is only ever set, not removed.
WriteStatusesKeepMirror(caller, updates) ==
    LET named(u) == {i \in DOMAIN updates : updates[i].user = u}
        last(u)  == CHOOSE i \in named(u) : \A j \in named(u) : j <= i
    IN  /\ status' = [u \in Address |->
                        IF named(u) = {} THEN status[u] ELSE updates[last(u)].new_status]
        /\ whitelist' = whitelist \cup {u \in Address : named(u) # {}
                            /\ updates[last(u)].new_status = "Approved"}
        /\ approver' = [u \in Address |->
                        IF \E i \in named(u) : updates[i].new_status = "Approved"
                        THEN caller ELSE approver[u]]

\* Slip: the approver is stored under the key of the status.
WriteStatusesApproverAsStatus(caller, updates) ==
    LET named(u) == {i \in DOMAIN updates : updates[i].user = u}
        last(u)  == CHOOSE i \in named(u) : \A j \in named(u) : j <= i
    IN  /\ status' = [u \in Address |->
                        IF named(u) = {} THEN status[u]
                        ELSE IF updates[last(u)].new_status = "Approved" THEN caller
                        ELSE updates[last(u)].new_status]
        /\ whitelist' = {u \in Address : IF named(u) = {} THEN u \in whitelist
                                         ELSE updates[last(u)].new_status = "Approved"}
        /\ UNCHANGED approver

\* The writes of a sequence of validated updates, in order: the last one to
\* name a user decides its status, and any that clears it records the caller.
WriteStatuses(caller, updates) ==
    LET named(u) == {i \in DOMAIN updates : updates[i].user = u}
        last(u)  == CHOOSE i \in named(u) : \A j \in named(u) : j <= i
    IN  /\ status' = [u \in Address |->
                        IF named(u) = {} THEN status[u] ELSE updates[last(u)].new_status]
        /\ whitelist' = {u \in Address : IF named(u) = {} THEN u \in whitelist
                                         ELSE updates[last(u)].new_status = "Approved"}
        /\ approver' = [u \in Address |->
                        IF \E i \in named(u) : updates[i].new_status = "Approved"
                        THEN caller ELSE approver[u]]

\* One compliance_status_changed per update, with the status it replaces.
StatusChanges(caller, updates) ==
    [i \in DOMAIN updates |->
        [topic |-> "compliance_status_changed", caller |-> caller, user |-> updates[i].user,
         previous_status |-> status[updates[i].user], new_status |-> updates[i].new_status]]

ApplyTransitions(caller, updates, legacyEvents) ==
    /\ WriteStatuses(caller, updates)
    /\ Publish(StatusChanges(caller, updates) \o legacyEvents)

LegacyEvent(topic, caller, user) == <<[topic |-> topic, caller |-> caller, user |-> user]>>
-----------------------------------------------------------------------------
(* Entrypoints. *)

SetComplianceStatus(caller, user, newStatus) ==
    /\ RequireNotPaused
    /\ RequireTransition(caller, status[user], newStatus)
    /\ ApplyTransitions(caller, <<[user |-> user, new_status |-> newStatus]>>, <<>>)

\* Every entry is validated against the state before the batch.
CanBatchSet(caller, updates) ==
    /\ RequireNotPaused
    /\ \A i \in DOMAIN updates :
        /\ ~BatchHasDuplicateUser(updates, i)
        /\ RequireTransition(caller, status[updates[i].user], updates[i].new_status)

\* An empty batch commits for anybody.
BatchSetComplianceStatus(caller, updates) ==
    /\ CanBatchSet(caller, updates)
    /\ ApplyTransitions(caller, updates, <<>>)

\* Slip: the transition matrix is left to the caller.
CanWhitelistUnchecked(caller, user) ==
    RequireNotPaused /\ RequireTransitionAuthority(caller, status[user])

\* The legacy aliases ask for the authority and look at the matrix themselves.
CanWhitelist(caller, user) ==
    /\ RequireNotPaused
    /\ RequireTransitionAuthority(caller, status[user])
    /\ status[user] # "Approved" => TransitionIsAllowed(status[user], "Approved")

\* Slip: an approved address is approved once more instead of left alone.
WhitelistUserAgain(caller, user) ==
    /\ CanWhitelist(caller, user)
    /\ ApplyTransitions(caller, <<[user |-> user, new_status |-> "Approved"]>>,
            LegacyEvent("user_whitelisted", caller, user))

\* Legacy approval: an address that is approved already keeps its record.
WhitelistUser(caller, user) ==
    /\ CanWhitelist(caller, user)
    /\ ApplyTransitions(caller,
            IF status[user] = "Approved" THEN <<>>
            ELSE <<[user |-> user, new_status |-> "Approved"]>>,
            LegacyEvent("user_whitelisted", caller, user))

\* Slip: the pause is not checked; the authority guard does not know of it.
CanRevokeWhilePaused(caller, user) == RequireTransitionAuthority(caller, status[user])

CanRevoke(caller, user) ==
    RequireNotPaused /\ RequireTransitionAuthority(caller, status[user])

\* Legacy revocation: what cannot be revoked is left alone, not refused.
RevokeWhitelist(caller, user) ==
    /\ CanRevoke(caller, user)
    /\ ApplyTransitions(caller,
            IF TransitionIsAllowed(status[user], "Revoked")
            THEN <<[user |-> user, new_status |-> "Revoked"]>> ELSE <<>>,
            LegacyEvent("whitelist_revoked", caller, user))

Batches == UNION {[1..n -> Update] : n \in 0..MaxBatch}

ComplianceStep ==
    \E caller \in Address :
        \/ \E user \in Address, newStatus \in StatusArgs :
                SetComplianceStatus(caller, user, newStatus)
        \/ \E updates \in Batches : BatchSetComplianceStatus(caller, updates)
        \/ \E user \in Address : WhitelistUser(caller, user) \/ RevokeWhitelist(caller, user)

ComplianceNext ==
    \/ ComplianceStep /\ UNCHANGED adminVars
    \/ AdminNext /\ UNCHANGED complianceVars

ComplianceSpec ==
    AdminInit /\ ComplianceInit /\ [][ComplianceNext]_<<adminVars, events, complianceVars>>
-----------------------------------------------------------------------------
(* The pre-flight reads, and the error a batch reverts with. *)

Check(fails, report) == [fails |-> fails, report |-> report]

\* The report of the first failing check, or ok when none fails.
FirstFailing(checks, ok) ==
    LET failing == {i \in DOMAIN checks : checks[i].fails}
    IN  IF failing = {} THEN ok
        ELSE checks[CHOOSE i \in failing : \A j \in failing : i <= j].report

Report(reason) ==
    [allowed |-> reason = "Allowed", reason |-> reason, error_code |-> ErrorForGuard[reason]]

CheckTransition(caller, user, newStatus) ==
    Report(EvaluateFromStatus(caller, status[user], newStatus))

\* Slip: the code of the repeated row is left as it was.
CheckBatchStaleCode(caller, updates) ==
    [i \in DOMAIN updates |->
        LET check == CheckTransition(caller, updates[i].user, updates[i].new_status)
        IN  IF \E earlier \in 1..(i - 1) : updates[earlier].user = updates[i].user
            THEN [check EXCEPT !.allowed = FALSE, !.reason = "DuplicateUserInBatch"]
            ELSE check]

\* check_compliance_batch looks for repeated addresses with a loop of its own.
CheckBatch(caller, updates) ==
    [i \in DOMAIN updates |->
        IF \E earlier \in 1..(i - 1) : updates[earlier].user = updates[i].user
        THEN Report("DuplicateUserInBatch")
        ELSE CheckTransition(caller, updates[i].user, updates[i].new_status)]

\* The error batch_set_compliance_status reverts with; "Ok" when it commits.
BatchError(caller, updates) ==
    LET verdict(i) == EvaluateFromStatus(caller, status[updates[i].user], updates[i].new_status)
        error(i)   == IF BatchHasDuplicateUser(updates, i) THEN "InvalidComplianceTransition"
                      ELSE ErrorForGuard[verdict(i)]
    IN  FirstFailing(<<Check(paused, "ContractPaused")>>
                \o [i \in DOMAIN updates |-> Check(error(i) # "Ok", error(i))], "Ok")
-----------------------------------------------------------------------------
(* Properties. *)

\* The three records of one investor never disagree: the legacy whitelist key
\* is there exactly for the approved, whoever was ever approved has a recorded
\* approver, and no history is left on an address the registry has not seen.
RegistryAgrees ==
    \A u \in Address :
        /\ u \in whitelist <=> status[u] = "Approved"
        /\ status[u] = "Approved" => approver[u] # NoAddress
        /\ status[u] = "Unknown" => approver[u] = NoAddress

\* A sanctions freeze is lifted by the sitting admin alone, only into review,
\* and never together with the clearance: not by the legacy alias, not by a
\* batch that names the address twice, not by an officer.
FreezeLiftedByAdminIntoReview ==
    [][\A u \in Address : (status[u] = "Blocked" /\ status'[u] # "Blocked")
        => /\ status'[u] = "Pending"
           /\ \E i \in DOMAIN events' :
                events'[i].topic = "compliance_status_changed"
                    /\ events'[i].user = u /\ events'[i].caller = admin
      ]_<<adminVars, events, complianceVars>>

\* The approver recorded for an investor is whoever moved it into Approved:
\* neither a later revocation, nor approving it again while it is approved,
\* rewrites the record the issuer separation rules rest on.
ApproverOnlySetOnClearance ==
    [][\A u \in Address : approver'[u] # approver[u]
        => status[u] # "Approved" /\ status'[u] = "Approved"
      ]_<<adminVars, events, complianceVars>>

\* Nobody's compliance record moves while the contract is paused, through
\* whichever of the four entrypoints (each checks the pause on its own).
PauseFreezesRegistry ==
    [][paused => UNCHANGED complianceVars]_<<adminVars, events, complianceVars>>

\* The compliance_status_changed events of one invocation are a complete
\* account of it: a user whose record moved is named exactly once, with the
\* status it had before and the one it has after, and no other record moved.
ComplianceAuditTrail ==
    [][\A u \in Address :
        LET trail == {i \in DOMAIN events' :
                        events'[i].topic = "compliance_status_changed" /\ events'[i].user = u}
        IN  IF trail = {}
            THEN status'[u] = status[u] /\ approver'[u] = approver[u]
            ELSE \E i \in trail :
                 /\ trail = {i}
                 /\ events'[i].previous_status = status[u]
                 /\ events'[i].new_status = status'[u]
                 /\ status'[u] \in AllowedTargets[status[u]]
                 /\ approver'[u] = IF status'[u] = "Approved" THEN events'[i].caller
                                                             ELSE approver[u]
      ]_<<adminVars, events, complianceVars>>

\* The rows of a batch pre-flight foretell the submission: with at least one
\* entry it commits exactly when every row was allowed, and otherwise reverts
\* with the code of the first refused row.  The rows are evaluated one by one
\* against the state before the batch, which is sound only because no user
\* comes twice, in two pieces of code that look for that.
BatchPreflightExact ==
    \A caller \in Address, updates \in Batches \ {<<>>} :
        LET rows  == CheckBatch(caller, updates)
            error == BatchError(caller, updates)
        IN  /\ CanBatchSet(caller, updates) <=> error = "Ok"
            /\ error = FirstFailing([i \in DOMAIN rows |->
                            Check(~rows[i].allowed, rows[i].error_code)], "Ok")

\* The legacy aliases, which repeat the guards in code of their own, come to the
\* same as the guard: they commit for whoever it lets make the move, and apart
\* from that only where they leave the status alone, an approval of what is
\* approved already and a revocation that the matrix does not have.  So the
\* legacy revocation of a pending investor is a move like any other; the comment
\* on revoke_whitelist calls it a no-op, which the code does not keep.
AliasesFollowGuard ==
    \A caller, user \in Address :
        LET approve == CheckTransition(caller, user, "Approved").reason
            revoke  == CheckTransition(caller, user, "Revoked").reason
        IN  /\ CanWhitelist(caller, user) <=> approve \in {"Allowed", "StatusUnchanged"}
            /\ CanRevoke(caller, user)
                    <=> revoke \in {"Allowed", "StatusUnchanged", "TransitionForbidden"}
            /\ CanRevoke(caller, user) =>
                    (revoke = "Allowed" <=> TransitionIsAllowed(status[user], "Revoked"))
-----------------------------------------------------------------------------
(* What the repository says of the registry and the code does not keep.    *)

\* "Canonical event projection: user_whitelisted adds the user,
\* whitelist_revoked removes it": docs/compliance-registry-reads.md.  An index
\* built that way misses what the lifecycle entrypoints do.
LegacyEventsProjectWhitelist ==
    [][LET named(topic) == {events'[i].user : i \in
                                {j \in DOMAIN events' : events'[j].topic = topic}}
       IN  whitelist' = (whitelist \cup named("user_whitelisted"))
                            \ named("whitelist_revoked")
      ]_<<adminVars, events, complianceVars>>
=============================================================================
