------------------------------- MODULE Admin -------------------------------
(***************************************************************************)
(* Role-based access control, the two-step hand-over of the supreme admin  *)
(* and the emergency pause (src/admin.rs, and initialize in src/lib.rs).   *)
(*                                                                         *)
(* An entrypoint is one action; its first argument is the address that     *)
(* signed the invocation (require_auth).  An invocation that reverts       *)
(* writes nothing and publishes nothing, so it is a stuttering step and    *)
(* only the committing case of every entrypoint is written down.           *)
(***************************************************************************)
EXTENDS Sequences

CONSTANTS
    Address,      \* the accounts that sign, receive roles and hold units
    NoAddress,    \* what an absent Option<Address> reads as
    RoleArgs,     \* the roles callers pass to set_role
    Nominees      \* the addresses callers pass to transfer_admin

Role == {"None", "Admin", "ComplianceOfficer", "AssetManager", "EmergencyOfficer"}

ASSUME NoAddressAssumption == NoAddress \notin Address
ASSUME RoleArgsAssumption == RoleArgs \subseteq Role
ASSUME NomineesAssumption == Nominees \subseteq Address

VARIABLES
    admin,            \* DataKey::Admin, NoAddress when the key is absent
    adminCandidate,   \* DataKey::AdminCandidate, NoAddress when absent
    role,             \* DataKey::Role(_), "None" when absent
    paused,           \* DataKey::Paused
    events            \* what the last committed invocation published, in order

adminVars == <<admin, adminCandidate, role, paused>>

AdminTypeOK ==
    /\ admin \in Address \cup {NoAddress}
    /\ adminCandidate \in Address \cup {NoAddress}
    /\ role \in [Address -> Role]
    /\ paused \in BOOLEAN

AdminInit ==
    /\ admin = NoAddress
    /\ adminCandidate = NoAddress
    /\ role = [a \in Address |-> "None"]
    /\ paused = FALSE
    /\ events = <<>>

Publish(published) == events' = published
-----------------------------------------------------------------------------
(* Guards shared by every module. *)

\* require_not_paused.
RequireNotPaused == ~paused

\* caller == get_admin(), which reverts on an uninitialized contract.
IsAdmin(caller) == admin # NoAddress /\ caller = admin

\* Slip: whoever is in the role table passes, in a contract without an admin too.
RequireRoleFromTable(caller, required) == caller = admin \/ role[caller] = required

\* require_role: the supreme admin passes whatever the role table says of it.
RequireRole(caller, required) ==
    /\ admin # NoAddress
    /\ caller = admin \/ role[caller] = required
-----------------------------------------------------------------------------
(* Entrypoints. *)

Initialize(caller) ==
    /\ admin = NoAddress
    /\ admin' = caller
    /\ role' = [role EXCEPT ![caller] = "Admin"]
    /\ UNCHANGED <<adminCandidate, paused>>
    /\ Publish(<<[topic |-> "contract_initialized", admin |-> caller]>>)

\* Slip: the supreme role can be handed out like any other.
SetRoleUnchecked(caller, target, newRole) ==
    /\ RequireNotPaused
    /\ IsAdmin(caller)
    /\ role' = [role EXCEPT ![target] = newRole]
    /\ UNCHANGED <<admin, adminCandidate, paused>>
    /\ Publish(<<[topic |-> "role_assigned", admin |-> caller,
                  target |-> target, role |-> newRole]>>)

\* Slip: the target is stored where its role belongs.
SetRoleSwapped(caller, target, newRole) ==
    /\ RequireNotPaused
    /\ IsAdmin(caller)
    /\ newRole # "Admin"
    /\ role' = [role EXCEPT ![target] = target]
    /\ UNCHANGED <<admin, adminCandidate, paused>>
    /\ Publish(<<[topic |-> "role_assigned", admin |-> caller,
                  target |-> target, role |-> newRole]>>)

SetRole(caller, target, newRole) ==
    /\ RequireNotPaused
    /\ IsAdmin(caller)
    /\ newRole # "Admin"
    /\ role' = [role EXCEPT ![target] = newRole]
    /\ UNCHANGED <<admin, adminCandidate, paused>>
    /\ Publish(<<[topic |-> "role_assigned", admin |-> caller,
                  target |-> target, role |-> newRole]>>)

RemoveRole(caller, target) ==
    /\ RequireNotPaused
    /\ IsAdmin(caller)
    /\ role[target] # "None"
    /\ role' = [role EXCEPT ![target] = "None"]
    /\ UNCHANGED <<admin, adminCandidate, paused>>
    /\ Publish(<<[topic |-> "role_revoked", admin |-> caller,
                  target |-> target, role |-> role[target]]>>)

\* Slip: the pause is not checked.
TransferAdminWhilePaused(caller, candidate) ==
    /\ IsAdmin(caller)
    /\ adminCandidate' = candidate
    /\ UNCHANGED <<admin, role, paused>>
    /\ Publish(<<[topic |-> "admin_transfer_initiated",
                  current_admin |-> caller, candidate |-> candidate]>>)

TransferAdmin(caller, candidate) ==
    /\ RequireNotPaused
    /\ IsAdmin(caller)
    /\ adminCandidate' = candidate
    /\ UNCHANGED <<admin, role, paused>>
    /\ Publish(<<[topic |-> "admin_transfer_initiated",
                  current_admin |-> caller, candidate |-> candidate]>>)

\* Slip: the incoming role is granted before the outgoing one is cleared.
AcceptAdminGrantsFirst(caller) ==
    /\ RequireNotPaused
    /\ adminCandidate # NoAddress
    /\ caller = adminCandidate
    /\ admin # NoAddress
    /\ adminCandidate' = NoAddress
    /\ admin' = caller
    /\ role' = [role EXCEPT ![caller] = "Admin", ![admin] = "None"]
    /\ UNCHANGED paused
    /\ Publish(<<[topic |-> "admin_transferred",
                  previous_admin |-> admin, new_admin |-> caller]>>)

\* Slip: the previous admin is read after it has been replaced.
AcceptAdminLateRead(caller) ==
    /\ RequireNotPaused
    /\ adminCandidate # NoAddress
    /\ caller = adminCandidate
    /\ admin # NoAddress
    /\ adminCandidate' = NoAddress
    /\ admin' = caller
    /\ role' = [role EXCEPT ![admin] = "None", ![caller] = "Admin"]
    /\ UNCHANGED paused
    /\ Publish(<<[topic |-> "admin_transferred",
                  previous_admin |-> caller, new_admin |-> caller]>>)

\* The outgoing admin's role is cleared before the incoming one's is granted:
\* the order matters when the admin nominated itself.
AcceptAdmin(caller) ==
    /\ RequireNotPaused
    /\ adminCandidate # NoAddress
    /\ caller = adminCandidate
    /\ admin # NoAddress
    /\ adminCandidate' = NoAddress
    /\ admin' = caller
    /\ role' = [role EXCEPT ![admin] = "None", ![caller] = "Admin"]
    /\ UNCHANGED paused
    /\ Publish(<<[topic |-> "admin_transferred",
                  previous_admin |-> admin, new_admin |-> caller]>>)

\* Slip: the role of the renouncing admin is left in the table.
RenounceAdminKeepsRole(caller) ==
    /\ RequireNotPaused
    /\ IsAdmin(caller)
    /\ admin' = NoAddress
    /\ UNCHANGED <<adminCandidate, role, paused>>
    /\ Publish(<<[topic |-> "admin_renounced",
                  previous_admin |-> caller, new_admin |-> caller]>>)

\* Slip: the pause is not checked.
RenounceAdminWhilePaused(caller) ==
    /\ IsAdmin(caller)
    /\ admin' = NoAddress
    /\ role' = [role EXCEPT ![caller] = "None"]
    /\ UNCHANGED <<adminCandidate, paused>>
    /\ Publish(<<[topic |-> "admin_renounced",
                  previous_admin |-> caller, new_admin |-> caller]>>)

\* The nomination, if there is one, stays behind in adminCandidate.
RenounceAdmin(caller) ==
    /\ RequireNotPaused
    /\ IsAdmin(caller)
    /\ admin' = NoAddress
    /\ role' = [role EXCEPT ![caller] = "None"]
    /\ UNCHANGED <<adminCandidate, paused>>
    /\ Publish(<<[topic |-> "admin_renounced",
                  previous_admin |-> caller, new_admin |-> caller]>>)

Pause(caller) ==
    /\ RequireRole(caller, "EmergencyOfficer")
    /\ ~paused
    /\ paused' = TRUE
    /\ UNCHANGED <<admin, adminCandidate, role>>
    /\ Publish(<<[topic |-> "contract_paused", admin |-> caller]>>)

Unpause(caller) ==
    /\ IsAdmin(caller)
    /\ paused
    /\ paused' = FALSE
    /\ UNCHANGED <<admin, adminCandidate, role>>
    /\ Publish(<<[topic |-> "contract_unpaused", admin |-> caller]>>)

AdminNext ==
    \E caller \in Address :
        \/ Initialize(caller)
        \/ \E target \in Address, newRole \in RoleArgs : SetRole(caller, target, newRole)
        \/ \E target \in Address : RemoveRole(caller, target)
        \/ \E candidate \in Nominees : TransferAdmin(caller, candidate)
        \/ AcceptAdmin(caller)
        \/ RenounceAdmin(caller)
        \/ Pause(caller)
        \/ Unpause(caller)

AdminSpec == AdminInit /\ [][AdminNext]_<<adminVars, events>>
-----------------------------------------------------------------------------
(* Properties. *)

\* Only the supreme admin can hold the Admin role: no sequence of hand-overs,
\* renunciations and re-initializations leaves the role with a former admin
\* (set_role refuses to hand it out, accept_admin and renounce_admin clear it).
SoleAdminRole == \A a \in Address : role[a] = "Admin" => a = admin

\* A pause can always be lifted: only the admin may unpause, and no sequence
\* of calls leaves the contract paused with nobody in that position
\* (renounce_admin is refused while paused, pause needs an admin to exist).
PausedHasAdmin == paused => admin # NoAddress

\* While the contract stays paused nothing changes in the access control,
\* initialize included although it carries no pause check of its own.
PauseFreezesRoles == [][paused => UNCHANGED <<admin, adminCandidate, role>>]_<<adminVars, events>>

\* A completed hand-over moves the whole authority in one step: the nominated
\* address becomes the admin and holds the Admin role, the outgoing admin
\* (whatever role it gave itself meanwhile) is left with none, and the
\* nomination cannot be used again.
HandoverMovesAuthority ==
    [][(admin # NoAddress /\ admin' # NoAddress /\ adminCandidate' # adminCandidate
            /\ adminCandidate' = NoAddress)
        => /\ admin' = adminCandidate
           /\ role'[admin'] = "Admin"
           /\ admin # admin' => role'[admin] = "None"]_<<adminVars, events>>

\* An address that stops being the admin keeps no role, however it stopped.
OutgoingAdminLosesRole ==
    [][(admin # NoAddress /\ admin' # admin) => role'[admin] = "None"]_<<adminVars, events>>

\* What an indexer that follows the admin topics makes of one event.
ReplayAdminEvent(view, e) ==
    CASE e.topic = "contract_initialized" ->
            [view EXCEPT !.admin = e.admin, !.role = [view.role EXCEPT ![e.admin] = "Admin"]]
      [] e.topic = "role_assigned" -> [view EXCEPT !.role[e.target] = e.role]
      [] e.topic = "role_revoked" -> [view EXCEPT !.role[e.target] = "None"]
      [] e.topic = "admin_transfer_initiated" -> [view EXCEPT !.adminCandidate = e.candidate]
      [] e.topic = "admin_transferred" ->
            [view EXCEPT !.admin = e.new_admin, !.adminCandidate = NoAddress,
                         !.role = [view.role EXCEPT ![e.previous_admin] = "None",
                                                    ![e.new_admin] = "Admin"]]
      [] e.topic = "admin_renounced" ->
            [view EXCEPT !.admin = NoAddress,
                         !.role = [view.role EXCEPT ![e.previous_admin] = "None"]]
      [] e.topic = "contract_paused" -> [view EXCEPT !.paused = TRUE]
      [] e.topic = "contract_unpaused" -> [view EXCEPT !.paused = FALSE]
      [] OTHER -> view

AccessControl ==
    [admin |-> admin, adminCandidate |-> adminCandidate, role |-> role, paused |-> paused]

\* The admin topics are a complete audit trail: an indexer that knew the access
\* control before an invocation and applies its one event knows it afterwards,
\* through a hand-over to oneself, a renunciation and a second initialization.
AdminAuditTrail ==
    [][Len(events') = 1 => ReplayAdminEvent(AccessControl, events'[1]) = AccessControl'
      ]_<<adminVars, events>>
-----------------------------------------------------------------------------
(* What the repository says of the access control and the code does not     *)
(* keep.                                                                     *)

\* "Initializes the contract with an admin. Can only be called once":
\* initialize in src/lib.rs.  Then it finds a fresh contract; but it finds the
\* roles and the nomination that an admin who renounced has left behind.
InitializeFindsFreshContract ==
    [][admin = NoAddress /\ admin' # NoAddress
        => role = [a \in Address |-> "None"] /\ adminCandidate = NoAddress
      ]_<<adminVars, events>>
=============================================================================
