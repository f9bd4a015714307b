----------------------------- MODULE Lifecycle ------------------------------
(***************************************************************************)
(* The lifecycle status of the asset (src/lifecycle.rs).  It is separate   *)
(* from the emergency pause: value moves only when both allow it.          *)
(***************************************************************************)
EXTENDS Admin

CONSTANT AssetStatusArgs   \* the statuses callers request

AssetStatus == {"Draft", "Active", "Paused", "Retired", "Blocked"}

ASSUME AssetStatusArgsAssumption == AssetStatusArgs \subseteq AssetStatus

VARIABLE assetStatus       \* DataKey::AssetStatus, "Draft" when absent

LifecycleTypeOK == assetStatus \in AssetStatus

LifecycleInit == assetStatus = "Draft"

\* is_valid_transition: Retired is terminal, Draft cannot be locked down.
NextAssetStatuses ==
    [Draft   |-> {"Active"},
     Active  |-> {"Paused", "Retired", "Blocked"},
     Paused  |-> {"Active", "Retired", "Blocked"},
     Blocked |-> {"Active"},
     Retired |-> {}]

\* Slip: the pause stops no status change, an activation included.
SetAssetStatusWhilePaused(caller, newStatus) ==
    /\ IsAdmin(caller)
    /\ newStatus # assetStatus
    /\ newStatus \in NextAssetStatuses[assetStatus]
    /\ assetStatus' = newStatus
    /\ Publish(<<[topic |-> "asset_status_changed", admin |-> caller,
                  previous_status |-> assetStatus, new_status |-> newStatus]>>)

\* The one write the pause does not stop, except for an activation.
SetAssetStatus(caller, newStatus) ==
    /\ newStatus = "Active" => RequireNotPaused
    /\ IsAdmin(caller)
    /\ newStatus # assetStatus
    /\ newStatus \in NextAssetStatuses[assetStatus]
    /\ assetStatus' = newStatus
    /\ Publish(<<[topic |-> "asset_status_changed", admin |-> caller,
                  previous_status |-> assetStatus, new_status |-> newStatus]>>)

LifecycleStep ==
    \E caller \in Address, newStatus \in AssetStatusArgs : SetAssetStatus(caller, newStatus)
=============================================================================
