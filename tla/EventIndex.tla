----------------------------- MODULE EventIndex -----------------------------
(***************************************************************************)
(* What an off-chain index makes of the events of the contract: the        *)
(* payloads of every component (the ...Event structs in src/), applied in  *)
(* the order in which an invocation published them.                        *)
(*                                                                         *)
(* The slots of pending proposals are left out: cancelling one publishes   *)
(* nothing, so no index can follow them.                                   *)
(***************************************************************************)
EXTENDS Aegis

\* The part of the storage that events account for.
Storage ==
    [admin |-> admin, adminCandidate |-> adminCandidate, role |-> role, paused |-> paused,
     status |-> status, whitelist |-> whitelist, approver |-> approver, policy |-> policy,
     assetStatus |-> assetStatus, supplyCap |-> supplyCap, holdingCap |-> holdingCap,
     config |-> config, balance |-> balance, totalSupply |-> totalSupply,
     metadata |-> metadata]

ReplayStatusChange(view, e) ==
    IF e.new_status = "Approved"
    THEN [view EXCEPT !.status[e.user] = "Approved", !.whitelist = @ \cup {e.user},
                      !.approver[e.user] = e.caller]
    ELSE [view EXCEPT !.status[e.user] = e.new_status, !.whitelist = @ \ {e.user}]

\* The receiver is credited on top of what the debit left, its own included.
BalancesAfterTransfer(held, e) ==
    LET debited == [held EXCEPT ![e.from] = held[e.from] - e.amount]
    IN  [debited EXCEPT ![e.to] = debited[e.to] + e.amount]

\* Topics without an effect on the storage (the legacy aliases, a proposal, a
\* yield announcement) leave the view alone.
ReplayEvent(view, e) ==
    CASE e.topic = "compliance_status_changed" -> ReplayStatusChange(view, e)
      [] e.topic = "issuer_separation_policy_updated" -> [view EXCEPT !.policy = e.new_policy]
      [] e.topic = "asset_status_changed" -> [view EXCEPT !.assetStatus = e.new_status]
      [] e.topic = "supply_cap_amended" -> [view EXCEPT !.supplyCap = e.new_cap]
      [] e.topic = "holding_cap_amended" -> [view EXCEPT !.holdingCap = e.new_cap]
      [] e.topic = "config_amended" -> [view EXCEPT !.config = e.new_config]
      [] e.topic = "asset_minted" ->
            [view EXCEPT !.balance[e.to] = @ + e.amount, !.totalSupply = e.total_supply]
      [] e.topic = "transfer" ->
            [view EXCEPT !.balance = BalancesAfterTransfer(view.balance, e)]
      [] e.topic = "asset_metadata_updated" -> [view EXCEPT !.metadata = e.metadata]
      [] OTHER -> ReplayAdminEvent(view, e)

\* The view after the first n of the published events.
Replayed(view, published) ==
    LET after[n \in 0..Len(published)] ==
            IF n = 0 THEN view ELSE ReplayEvent(after[n - 1], published[n])
    IN  after

\* What an event says of the value it replaces is what a view without gaps has.
Continues(view, e) ==
    CASE e.topic = "compliance_status_changed" -> e.previous_status = view.status[e.user]
      [] e.topic = "issuer_separation_policy_updated" -> e.previous_policy = view.policy
      [] e.topic = "asset_status_changed" -> e.previous_status = view.assetStatus
      [] e.topic = "supply_cap_proposed" -> e.current_cap = view.supplyCap
      [] e.topic = "supply_cap_amended" -> e.previous_cap = view.supplyCap
      [] e.topic = "holding_cap_proposed" -> e.current_cap = view.holdingCap
      [] e.topic = "holding_cap_amended" -> e.previous_cap = view.holdingCap
      [] e.topic = "role_revoked" -> e.role = view.role[e.target]
      [] e.topic = "admin_transfer_initiated" -> e.current_admin = view.admin
      [] e.topic \in {"admin_transferred", "admin_renounced"} -> e.previous_admin = view.admin
      [] e.topic = "asset_minted" -> e.total_supply = view.totalSupply + e.amount
      [] OTHER -> TRUE
-----------------------------------------------------------------------------
(* Properties. *)

\* The events of an invocation are enough to follow the storage: an index that
\* agreed with it before, and applies them in the order they were published,
\* agrees with it afterwards, whichever component wrote.
EventsRebuildStorage ==
    [][Replayed(Storage, events')[Len(events')] = Storage']_vars

\* An index that has missed nothing finds in every event the value it has
\* itself; one that missed an event is told by the next event on the subject.
EventsContinueTheIndex ==
    [][\A i \in DOMAIN events' : Continues(Replayed(Storage, events')[i - 1], events'[i])]_vars
=============================================================================
