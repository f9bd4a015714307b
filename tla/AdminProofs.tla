---------------------------- MODULE AdminProofs -----------------------------
(***************************************************************************)
(* The access control is safe for any set of addresses, any roles callers  *)
(* assign and any candidates the admin nominates.                          *)
(***************************************************************************)
EXTENDS Admin, TLAPS

\* None of the three is inductive alone: that only the admin has the Admin role
\* needs the role table to be a function on addresses, and that a paused
\* contract has an admin needs the caller of accept_admin to be an address.
AdminInv == AdminTypeOK /\ SoleAdminRole /\ PausedHasAdmin

LEMMA AdminInvInit == AdminInit => AdminInv
  BY NoAddressAssumption
     DEF AdminInit, AdminInv, AdminTypeOK, SoleAdminRole, PausedHasAdmin, Role

\* It is kept by the steps of the other components too: they leave adminVars.
LEMMA AdminInvStep ==
  ASSUME AdminInv, [AdminNext]_adminVars
  PROVE  AdminInv'
<1> USE NoAddressAssumption, RoleArgsAssumption, NomineesAssumption
    DEF AdminInv, AdminTypeOK, SoleAdminRole, PausedHasAdmin
<1>1. CASE UNCHANGED adminVars
  BY <1>1 DEF adminVars
<1>2. ASSUME NEW caller \in Address, Initialize(caller)
      PROVE  AdminInv'
  BY <1>2 DEF Initialize, Role
<1>3. ASSUME NEW caller \in Address, NEW target \in Address, NEW newRole \in RoleArgs,
             SetRole(caller, target, newRole)
      PROVE  AdminInv'
  BY <1>3 DEF SetRole, RequireNotPaused, IsAdmin
<1>4. ASSUME NEW caller \in Address, NEW target \in Address, RemoveRole(caller, target)
      PROVE  AdminInv'
  BY <1>4 DEF RemoveRole, RequireNotPaused, IsAdmin, Role
<1>5. ASSUME NEW caller \in Address, NEW candidate \in Nominees,
             TransferAdmin(caller, candidate)
      PROVE  AdminInv'
  BY <1>5 DEF TransferAdmin, RequireNotPaused, IsAdmin
<1>6. ASSUME NEW caller \in Address, AcceptAdmin(caller)
      PROVE  AdminInv'
  BY <1>6 DEF AcceptAdmin, RequireNotPaused, Role
<1>7. ASSUME NEW caller \in Address, RenounceAdmin(caller)
      PROVE  AdminInv'
  BY <1>7 DEF RenounceAdmin, RequireNotPaused, IsAdmin, Role
<1>8. ASSUME NEW caller \in Address, Pause(caller)
      PROVE  AdminInv'
  BY <1>8 DEF Pause, RequireRole
<1>9. ASSUME NEW caller \in Address, Unpause(caller)
      PROVE  AdminInv'
  BY <1>9 DEF Unpause, IsAdmin
<1> QED
  BY <1>1, <1>2, <1>3, <1>4, <1>5, <1>6, <1>7, <1>8, <1>9 DEF AdminNext

\* The inductive invariant holds in every reachable state of the access control.
THEOREM AdminInvariant == AdminSpec => []AdminInv
<1>1. AdminInv /\ [AdminNext]_<<adminVars, events>> => AdminInv'
  BY AdminInvStep
<1> QED
  BY <1>1, AdminInvInit, PTL DEF AdminSpec

\* Every stored value is of the type the storage keys are read back as.
THEOREM AdminTypeCorrect == AdminSpec => []AdminTypeOK
<1>1. AdminInv => AdminTypeOK
  BY DEF AdminInv
<1> QED
  BY <1>1, AdminInvariant, PTL

\* No former admin, and nobody an admin chose to, holds the Admin role.
THEOREM OnlyTheAdminIsAdmin == AdminSpec => []SoleAdminRole
<1>1. AdminInv => SoleAdminRole
  BY DEF AdminInv
<1> QED
  BY <1>1, AdminInvariant, PTL

\* A paused contract always has the admin who alone can lift the pause.
THEOREM PauseCanBeLifted == AdminSpec => []PausedHasAdmin
<1>1. AdminInv => PausedHasAdmin
  BY DEF AdminInv
<1> QED
  BY <1>1, AdminInvariant, PTL
-----------------------------------------------------------------------------
(* Action properties, each from the inductive invariant. *)

LEMMA PauseFreezesRolesStep ==
  ASSUME AdminInv, [AdminNext]_<<adminVars, events>>, paused
  PROVE  UNCHANGED <<admin, adminCandidate, role>>
<1>1. CASE UNCHANGED <<adminVars, events>>
  BY <1>1 DEF adminVars
<1>2. admin # NoAddress
  BY DEF AdminInv, PausedHasAdmin
<1>3. ASSUME NEW caller \in Address, Pause(caller) \/ Unpause(caller)
      PROVE  UNCHANGED <<admin, adminCandidate, role>>
  BY <1>3 DEF Pause, Unpause
<1>4. ~RequireNotPaused
  BY DEF RequireNotPaused
<1> QED
  BY <1>1, <1>2, <1>3, <1>4
     DEF AdminNext, Initialize, SetRole, RemoveRole, TransferAdmin, AcceptAdmin, RenounceAdmin

\* While the contract is paused nobody gains or loses authority.  Initialize
\* does not check the pause: that it cannot run rests on PausedHasAdmin.
THEOREM PauseFreezesTheRoles == AdminSpec => PauseFreezesRoles
<1>1. AdminInv /\ [AdminNext]_<<adminVars, events>>
        => [paused => UNCHANGED <<admin, adminCandidate, role>>]_<<adminVars, events>>
  BY PauseFreezesRolesStep
<1> QED
  BY <1>1, AdminInvariant, PTL DEF AdminSpec, PauseFreezesRoles

HandedOver ==
    admin # NoAddress /\ admin' # NoAddress /\ adminCandidate' # adminCandidate
        /\ adminCandidate' = NoAddress

\* The only step that empties the nomination while there is an admin before and
\* after is an acceptance.
LEMMA HandoverIsAcceptance ==
  ASSUME AdminInv, AdminNext, HandedOver
  PROVE  \E caller \in Address : AcceptAdmin(caller)
  BY NoAddressAssumption, NomineesAssumption
     DEF AdminInv, AdminTypeOK, AdminNext, HandedOver, Initialize, SetRole, RemoveRole,
         TransferAdmin, RenounceAdmin, Pause, Unpause, IsAdmin

LEMMA HandoverStep ==
  ASSUME AdminInv, [AdminNext]_<<adminVars, events>>, HandedOver
  PROVE  /\ admin' = adminCandidate
         /\ role'[admin'] = "Admin"
         /\ admin # admin' => role'[admin] = "None"
<1>1. ASSUME UNCHANGED <<adminVars, events>>
      PROVE  FALSE
  BY <1>1 DEF adminVars, HandedOver
<1>2. PICK caller \in Address : AcceptAdmin(caller)
  BY <1>1, HandoverIsAcceptance
<1> QED
  BY <1>2 DEF AcceptAdmin, AdminInv, AdminTypeOK

\* A hand-over moves the whole authority in one step, whatever roles the two
\* admins had and even if an admin nominated itself.
THEOREM HandoverIsComplete == AdminSpec => HandoverMovesAuthority
<1>1. AdminInv /\ [AdminNext]_<<adminVars, events>>
        => [HandedOver => /\ admin' = adminCandidate
                          /\ role'[admin'] = "Admin"
                          /\ admin # admin' => role'[admin] = "None"]_<<adminVars, events>>
  BY HandoverStep
<1> QED
  BY <1>1, AdminInvariant, PTL DEF AdminSpec, HandoverMovesAuthority, HandedOver

LEMMA OutgoingAdminStep ==
  ASSUME AdminInv, [AdminNext]_<<adminVars, events>>, admin # NoAddress, admin' # admin
  PROVE  role'[admin] = "None"
<1>1. CASE UNCHANGED <<adminVars, events>>
  BY <1>1 DEF adminVars
<1>2. CASE \E caller \in Address : AcceptAdmin(caller) \/ RenounceAdmin(caller)
  BY <1>2 DEF AcceptAdmin, RenounceAdmin, IsAdmin, AdminInv, AdminTypeOK
<1> QED
  BY <1>1, <1>2 DEF AdminNext, Initialize, SetRole, RemoveRole, TransferAdmin, Pause, Unpause

\* Whoever stops being the admin is left with no role at all.
THEOREM OutgoingAdminHasNoRole == AdminSpec => OutgoingAdminLosesRole
<1>1. AdminInv /\ [AdminNext]_<<adminVars, events>>
        => [(admin # NoAddress /\ admin' # admin) => role'[admin] = "None"]_<<adminVars, events>>
  BY OutgoingAdminStep
<1> QED
  BY <1>1, AdminInvariant, PTL DEF AdminSpec, OutgoingAdminLosesRole
-----------------------------------------------------------------------------
(* The audit trail. *)

Replays(e) == ReplayAdminEvent(AccessControl, e) = AccessControl'

LEMMA PublishedFirst ==
  ASSUME NEW e, Publish(<<e>>)
  PROVE  events'[1] = e
  BY DEF Publish

\* The record with two or three of its fields replaced, written out.
LEMMA AuthorityReplaced ==
  ASSUME NEW newAdmin, NEW newRole
  PROVE  [AccessControl EXCEPT !.admin = newAdmin, !.role = newRole]
            = [admin |-> newAdmin, adminCandidate |-> adminCandidate, role |-> newRole,
               paused |-> paused]
<1> DEFINE first  == [AccessControl EXCEPT !.admin = newAdmin]
           second == [first EXCEPT !.role = newRole]
<1>1. [AccessControl EXCEPT !.admin = newAdmin, !.role = newRole] = second
  OBVIOUS
<1>2. first = [admin |-> newAdmin, adminCandidate |-> adminCandidate, role |-> role,
               paused |-> paused]
  BY DEF AccessControl
<1> HIDE DEF first
<1>3. second = [admin |-> newAdmin, adminCandidate |-> adminCandidate, role |-> newRole,
                paused |-> paused]
  BY <1>2
<1> QED
  BY <1>1, <1>3

LEMMA HandoverReplaced ==
  ASSUME NEW newAdmin, NEW newRole
  PROVE  [AccessControl EXCEPT !.admin = newAdmin, !.adminCandidate = NoAddress,
                               !.role = newRole]
            = [admin |-> newAdmin, adminCandidate |-> NoAddress, role |-> newRole,
               paused |-> paused]
<1> DEFINE first  == [AccessControl EXCEPT !.admin = newAdmin]
           second == [first EXCEPT !.adminCandidate = NoAddress]
           third  == [second EXCEPT !.role = newRole]
<1>1. [AccessControl EXCEPT !.admin = newAdmin, !.adminCandidate = NoAddress,
                            !.role = newRole] = third
  OBVIOUS
<1>2. first = [admin |-> newAdmin, adminCandidate |-> adminCandidate, role |-> role,
               paused |-> paused]
  BY DEF AccessControl
<1> HIDE DEF first
<1>3. second = [admin |-> newAdmin, adminCandidate |-> NoAddress, role |-> role,
                paused |-> paused]
  BY <1>2
<1> HIDE DEF second
<1>4. third = [admin |-> newAdmin, adminCandidate |-> NoAddress, role |-> newRole,
               paused |-> paused]
  BY <1>3
<1> QED
  BY <1>1, <1>4

LEMMA PauseReplaced ==
  ASSUME NEW newPaused
  PROVE  [AccessControl EXCEPT !.paused = newPaused]
            = [admin |-> admin, adminCandidate |-> adminCandidate, role |-> role,
               paused |-> newPaused]
  BY DEF AccessControl

LEMMA AppointmentReplays ==
  ASSUME AdminInv, NEW caller \in Address, NEW target \in Address, NEW newRole \in RoleArgs,
         SetRole(caller, target, newRole)
  PROVE  Replays(events'[1])
<1>1. events'[1] = [topic |-> "role_assigned", admin |-> caller, target |-> target,
                    role |-> newRole]
  BY PublishedFirst DEF SetRole
<1> QED
  BY <1>1 DEF SetRole, Replays, ReplayAdminEvent, AccessControl

LEMMA RemovalReplays ==
  ASSUME AdminInv, NEW caller \in Address, NEW target \in Address, RemoveRole(caller, target)
  PROVE  Replays(events'[1])
<1>1. events'[1] = [topic |-> "role_revoked", admin |-> caller, target |-> target,
                    role |-> role[target]]
  BY PublishedFirst DEF RemoveRole
<1> QED
  BY <1>1 DEF RemoveRole, Replays, ReplayAdminEvent, AccessControl

LEMMA NominationReplays ==
  ASSUME AdminInv, NEW caller \in Address, NEW candidate \in Nominees,
         TransferAdmin(caller, candidate)
  PROVE  Replays(events'[1])
<1>1. events'[1] = [topic |-> "admin_transfer_initiated", current_admin |-> caller,
                    candidate |-> candidate]
  BY PublishedFirst DEF TransferAdmin
<1> QED
  BY <1>1 DEF TransferAdmin, Replays, ReplayAdminEvent, AccessControl

LEMMA HandoversReplay ==
  ASSUME AdminInv, NEW caller \in Address, AcceptAdmin(caller) \/ RenounceAdmin(caller)
  PROVE  Replays(events'[1])
<1>1. CASE AcceptAdmin(caller)
  <2>1. events'[1] = [topic |-> "admin_transferred", previous_admin |-> admin,
                      new_admin |-> caller]
    BY <1>1, PublishedFirst DEF AcceptAdmin
  <2>2. ReplayAdminEvent(AccessControl, events'[1])
          = [AccessControl EXCEPT !.admin = caller, !.adminCandidate = NoAddress,
                !.role = [AccessControl.role EXCEPT ![admin] = "None", ![caller] = "Admin"]]
    BY <2>1 DEF ReplayAdminEvent
  <2>3. [AccessControl.role EXCEPT ![admin] = "None", ![caller] = "Admin"] = role'
    BY <1>1 DEF AcceptAdmin, AccessControl
  <2>4. ReplayAdminEvent(AccessControl, events'[1])
          = [admin |-> caller, adminCandidate |-> NoAddress, role |-> role', paused |-> paused]
    BY <2>2, <2>3, HandoverReplaced
  <2> QED
    BY <1>1, <2>4 DEF AcceptAdmin, Replays, AccessControl
<1>2. CASE RenounceAdmin(caller)
  <2>1. events'[1] = [topic |-> "admin_renounced", previous_admin |-> caller,
                      new_admin |-> caller]
    BY <1>2, PublishedFirst DEF RenounceAdmin
  <2>2. ReplayAdminEvent(AccessControl, events'[1])
          = [AccessControl EXCEPT !.admin = NoAddress,
                !.role = [AccessControl.role EXCEPT ![caller] = "None"]]
    BY <2>1 DEF ReplayAdminEvent
  <2>3. [AccessControl.role EXCEPT ![caller] = "None"] = role'
    BY <1>2 DEF RenounceAdmin, AccessControl
  <2>4. ReplayAdminEvent(AccessControl, events'[1])
          = [admin |-> NoAddress, adminCandidate |-> adminCandidate, role |-> role',
             paused |-> paused]
    BY <2>2, <2>3, AuthorityReplaced
  <2> QED
    BY <1>2, <2>4 DEF RenounceAdmin, Replays, AccessControl
<1> QED
  BY <1>1, <1>2

LEMMA InitializeReplays ==
  ASSUME AdminInv, NEW caller \in Address, Initialize(caller)
  PROVE  Replays(events'[1])
<1>1. events'[1] = [topic |-> "contract_initialized", admin |-> caller]
  BY PublishedFirst DEF Initialize
<1>2. ReplayAdminEvent(AccessControl, events'[1])
        = [AccessControl EXCEPT !.admin = caller,
              !.role = [AccessControl.role EXCEPT ![caller] = "Admin"]]
  BY <1>1 DEF ReplayAdminEvent
<1>3. [AccessControl.role EXCEPT ![caller] = "Admin"] = role'
  BY DEF Initialize, AccessControl
<1>4. ReplayAdminEvent(AccessControl, events'[1])
        = [admin |-> caller, adminCandidate |-> adminCandidate, role |-> role',
           paused |-> paused]
  BY <1>2, <1>3, AuthorityReplaced
<1> QED
  BY <1>4 DEF Initialize, Replays, AccessControl

LEMMA PausesReplay ==
  ASSUME AdminInv, NEW caller \in Address, Pause(caller) \/ Unpause(caller)
  PROVE  Replays(events'[1])
<1>1. CASE Pause(caller)
  <2>1. events'[1] = [topic |-> "contract_paused", admin |-> caller]
    BY <1>1, PublishedFirst DEF Pause
  <2>2. ReplayAdminEvent(AccessControl, events'[1]) = [AccessControl EXCEPT !.paused = TRUE]
    BY <2>1 DEF ReplayAdminEvent
  <2>3. @ = [admin |-> admin, adminCandidate |-> adminCandidate, role |-> role, paused |-> TRUE]
    BY PauseReplaced
  <2> QED
    BY <1>1, <2>2, <2>3 DEF Pause, Replays, AccessControl
<1>2. CASE Unpause(caller)
  <2>1. events'[1] = [topic |-> "contract_unpaused", admin |-> caller]
    BY <1>2, PublishedFirst DEF Unpause
  <2>2. ReplayAdminEvent(AccessControl, events'[1]) = [AccessControl EXCEPT !.paused = FALSE]
    BY <2>1 DEF ReplayAdminEvent
  <2>3. @ = [admin |-> admin, adminCandidate |-> adminCandidate, role |-> role, paused |-> FALSE]
    BY PauseReplaced
  <2> QED
    BY <1>2, <2>2, <2>3 DEF Unpause, Replays, AccessControl
<1> QED
  BY <1>1, <1>2

LEMMA AdminStepReplays ==
  ASSUME AdminInv, AdminNext
  PROVE  Replays(events'[1])
<1>1. PICK caller \in Address :
        \/ Initialize(caller)
        \/ \E target \in Address, newRole \in RoleArgs : SetRole(caller, target, newRole)
        \/ \E target \in Address : RemoveRole(caller, target)
        \/ \E candidate \in Nominees : TransferAdmin(caller, candidate)
        \/ AcceptAdmin(caller)
        \/ RenounceAdmin(caller)
        \/ Pause(caller)
        \/ Unpause(caller)
  BY DEF AdminNext
<1> QED
  BY <1>1, InitializeReplays, AppointmentReplays, RemovalReplays, NominationReplays,
     HandoversReplay, PausesReplay

\* Whoever knew the access control and applies the event of an invocation
\* knows it afterwards, for any addresses, roles and nominees.
THEOREM AdminTopicsAreComplete == AdminSpec => AdminAuditTrail
<1>1. AdminInv /\ [AdminNext]_<<adminVars, events>>
        => [Len(events') = 1 => Replays(events'[1])]_<<adminVars, events>>
  BY AdminStepReplays
<1> QED
  BY <1>1, AdminInvariant, PTL DEF AdminSpec, AdminAuditTrail, Replays
=============================================================================
