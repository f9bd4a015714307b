--------------------------- MODULE RegistryProofs ---------------------------
(***************************************************************************)
(* The records of the compliance registry agree, for any investors, any    *)
(* officers and batches of any length.                                     *)
(***************************************************************************)
EXTENDS Compliance, TLAPS

ValidUpdate == [user : Address, new_status : ComplianceStatus]

\* What an invocation may do to the records of one investor: leave them alone,
\* or move the status along the matrix, with the mirror and the approver.
Kept(u) ==
    /\ status'[u] = status[u]
    /\ u \in whitelist' <=> u \in whitelist
    /\ approver'[u] = approver[u]

Moved(caller, u) ==
    /\ status'[u] \in AllowedTargets[status[u]]
    /\ u \in whitelist' <=> status'[u] = "Approved"
    /\ approver'[u] = IF status'[u] = "Approved" THEN caller ELSE approver[u]

RecordsMove(caller) ==
    /\ ComplianceTypeOK'
    /\ \A u \in Address : Kept(u) \/ Moved(caller, u)
-----------------------------------------------------------------------------
(* The writer.  The last entry to name a user decides; when no user comes     *)
(* twice that is the one entry that names it.                                 *)

Naming(updates, u) == {i \in DOMAIN updates : updates[i].user = u}
LastNaming(updates, u) ==
    CHOOSE i \in Naming(updates, u) : \A j \in Naming(updates, u) : j <= i

LEMMA OneNamingIsLast ==
  ASSUME NEW n \in Nat, NEW updates \in [1..n -> ValidUpdate], NEW u,
         NEW i \in Naming(updates, u), \A j \in Naming(updates, u) : j = i
  PROVE  LastNaming(updates, u) = i
<1>1. i \in 1..n
  BY DEF Naming
<1>2. \A j \in Naming(updates, u) : j <= i
  BY <1>1
<1>3. \E k \in Naming(updates, u) : \A j \in Naming(updates, u) : j <= k
  BY <1>2
<1>4. LastNaming(updates, u) \in Naming(updates, u)
  BY <1>3 DEF LastNaming
<1> QED
  BY <1>4

LEMMA WritesByUser ==
  ASSUME NEW caller, NEW updates, WriteStatuses(caller, updates)
  PROVE  /\ status' = [u \in Address |->
                        IF Naming(updates, u) = {} THEN status[u]
                        ELSE updates[LastNaming(updates, u)].new_status]
         /\ whitelist' = {u \in Address :
                        IF Naming(updates, u) = {} THEN u \in whitelist
                        ELSE updates[LastNaming(updates, u)].new_status = "Approved"}
         /\ approver' = [u \in Address |->
                        IF \E i \in Naming(updates, u) : updates[i].new_status = "Approved"
                        THEN caller ELSE approver[u]]
  BY DEF WriteStatuses, Naming, LastNaming

\* What the four entrypoints have in common: the updates an invocation hands to
\* the writer name nobody twice, and each was passed by the matrix and by the
\* authority guard for the status it replaces.
Sound(caller, updates) ==
    \A i \in DOMAIN updates :
        /\ \A j \in DOMAIN updates : updates[j].user = updates[i].user => j = i
        /\ updates[i].new_status \in AllowedTargets[status[updates[i].user]]
        /\ AuthorityGuard(caller, status[updates[i].user]) = "Allowed"

LEMMA UnnamedIsKept ==
  ASSUME ComplianceTypeOK, NEW caller, NEW updates, WriteStatuses(caller, updates),
         NEW u \in Address, Naming(updates, u) = {}
  PROVE  Kept(u)
  BY WritesByUser DEF Kept, ComplianceTypeOK

LEMMA NamedIsMoved ==
  ASSUME NEW caller, NEW n \in Nat, NEW updates \in [1..n -> ValidUpdate],
         Sound(caller, updates), WriteStatuses(caller, updates),
         NEW u \in Address, NEW i \in Naming(updates, u)
  PROVE  Moved(caller, u) /\ status'[u] = updates[i].new_status
<1>1. i \in 1..n /\ updates[i].user = u
  BY DEF Naming
<1>2. \A j \in Naming(updates, u) : j = i
  BY <1>1 DEF Naming, Sound
<1>3. LastNaming(updates, u) = i
  BY <1>2, OneNamingIsLast
<1>4. status'[u] = updates[i].new_status
  BY <1>3, WritesByUser
<1>5. u \in whitelist' <=> updates[i].new_status = "Approved"
  BY <1>3, WritesByUser
<1>6. approver'[u] = IF updates[i].new_status = "Approved" THEN caller ELSE approver[u]
  BY <1>2, WritesByUser
<1> QED
  BY <1>1, <1>4, <1>5, <1>6 DEF Moved, Sound

LEMMA WritesMoveRecords ==
  ASSUME ComplianceTypeOK, NEW caller \in Address, NEW n \in Nat,
         NEW updates \in [1..n -> ValidUpdate], Sound(caller, updates),
         WriteStatuses(caller, updates)
  PROVE  RecordsMove(caller)
<1>1. status' \in [Address -> ComplianceStatus]
  <2>1. ASSUME NEW u \in Address
        PROVE  status'[u] \in ComplianceStatus
    <3>1. CASE Naming(updates, u) = {}
      BY <3>1, UnnamedIsKept DEF ComplianceTypeOK, Kept
    <3>2. ASSUME NEW i \in Naming(updates, u)
          PROVE  status'[u] \in ComplianceStatus
      <4>1. updates[i] \in ValidUpdate
        BY <3>2 DEF Naming
      <4> QED
        BY <3>2, <4>1, NamedIsMoved DEF ValidUpdate
    <3> QED
      BY <3>1, <3>2
  <2> QED
    BY <2>1, WritesByUser
<1>2. whitelist' \subseteq Address /\ approver' \in [Address -> Address \cup {NoAddress}]
  BY WritesByUser DEF ComplianceTypeOK
<1> QED
  BY <1>1, <1>2, UnnamedIsKept, NamedIsMoved DEF RecordsMove, ComplianceTypeOK
-----------------------------------------------------------------------------
(* The entrypoints. *)

LegacyTopics == {"user_whitelisted", "whitelist_revoked"}
LegacyEvents == [topic : LegacyTopics, caller : Address, user : Address]
Legacy == {<<>>} \cup {<<e>> : e \in LegacyEvents}

IsSoundBatch(caller) ==
    \E n \in Nat : \E updates \in [1..n -> ValidUpdate], legacy \in Legacy :
        Sound(caller, updates) /\ ApplyTransitions(caller, updates, legacy)

LEMMA OneUpdateIsSound ==
  ASSUME NEW caller, NEW user \in Address, NEW newStatus \in ComplianceStatus,
         newStatus \in AllowedTargets[status[user]],
         AuthorityGuard(caller, status[user]) = "Allowed", NEW legacy \in Legacy,
         ApplyTransitions(caller, <<[user |-> user, new_status |-> newStatus]>>, legacy)
  PROVE  IsSoundBatch(caller)
<1> DEFINE updates == <<[user |-> user, new_status |-> newStatus]>>
<1>1. updates \in [1..1 -> ValidUpdate] /\ updates[1] = [user |-> user, new_status |-> newStatus]
  BY DEF ValidUpdate
<1>2. DOMAIN updates = {1}
  BY <1>1
<1>3. ApplyTransitions(caller, updates, legacy)
  OBVIOUS
<1> HIDE DEF updates
<1>4. Sound(caller, updates)
  BY <1>1, <1>2 DEF Sound
<1> QED
  BY <1>1, <1>3, <1>4 DEF IsSoundBatch

LEMMA NoUpdateIsSound ==
  ASSUME NEW caller, NEW legacy \in Legacy, ApplyTransitions(caller, <<>>, legacy)
  PROVE  IsSoundBatch(caller)
<1>1. DOMAIN <<>> = {} /\ <<>> \in [1..0 -> ValidUpdate]
  OBVIOUS
<1>2. Sound(caller, <<>>)
  BY <1>1 DEF Sound
<1> QED
  BY <1>1, <1>2 DEF IsSoundBatch

LEMMA AllowedTransition ==
  ASSUME NEW caller, NEW current, NEW newStatus, RequireTransition(caller, current, newStatus)
  PROVE  /\ newStatus \in AllowedTargets[current]
         /\ AuthorityGuard(caller, current) = "Allowed"
  BY DEF RequireTransition, EvaluateFromStatus, TransitionIsAllowed

LEMMA SetIsSound ==
  ASSUME NEW caller \in Address, NEW user \in Address, NEW newStatus \in StatusArgs,
         SetComplianceStatus(caller, user, newStatus)
  PROVE  IsSoundBatch(caller)
  BY AllowedTransition, OneUpdateIsSound, StatusArgsAssumption DEF SetComplianceStatus, Legacy

LEMMA BatchIsSound ==
  ASSUME NEW caller \in Address, NEW updates \in Batches,
         BatchSetComplianceStatus(caller, updates)
  PROVE  IsSoundBatch(caller)
<1>1. PICK n \in 0..MaxBatch : updates \in [1..n -> Update]
  BY DEF Batches
<1>2. n \in Nat /\ DOMAIN updates = 1..n
  BY <1>1, MaxBatchAssumption
<1>3. updates \in [1..n -> ValidUpdate]
  BY <1>1, StatusArgsAssumption DEF Update, ValidUpdate
<1>4. \A i, j \in 1..n : i < j => updates[i].user # updates[j].user
  BY <1>2 DEF BatchSetComplianceStatus, CanBatchSet, BatchHasDuplicateUser
<1>5. \A i, j \in 1..n : updates[j].user = updates[i].user => j = i
  BY <1>2, <1>4
<1>6. Sound(caller, updates)
  BY <1>2, <1>5, AllowedTransition DEF BatchSetComplianceStatus, CanBatchSet, Sound
<1> QED
  BY <1>2, <1>3, <1>6 DEF BatchSetComplianceStatus, IsSoundBatch, Legacy

LEMMA LegacyIsSound ==
  ASSUME NEW caller \in Address, NEW user \in Address,
         WhitelistUser(caller, user) \/ RevokeWhitelist(caller, user)
  PROVE  IsSoundBatch(caller)
<1>1. "Approved" \in ComplianceStatus /\ "Revoked" \in ComplianceStatus
  BY DEF ComplianceStatus
<1>2. AuthorityGuard(caller, status[user]) = "Allowed"
  BY DEF WhitelistUser, CanWhitelist, RevokeWhitelist, CanRevoke, RequireTransitionAuthority
<1>3. \A topic \in LegacyTopics : LegacyEvent(topic, caller, user) \in Legacy
  BY DEF LegacyEvent, LegacyEvents, Legacy
<1>4. CASE WhitelistUser(caller, user)
  <2>1. LegacyEvent("user_whitelisted", caller, user) \in Legacy
    BY <1>3 DEF LegacyTopics
  <2>2. CASE status[user] = "Approved"
    BY <1>4, <2>1, <2>2, NoUpdateIsSound DEF WhitelistUser
  <2>3. CASE status[user] # "Approved"
    BY <1>1, <1>2, <1>4, <2>1, <2>3, OneUpdateIsSound
       DEF WhitelistUser, CanWhitelist, TransitionIsAllowed
  <2> QED
    BY <2>2, <2>3
<1>5. CASE RevokeWhitelist(caller, user)
  <2>1. LegacyEvent("whitelist_revoked", caller, user) \in Legacy
    BY <1>3 DEF LegacyTopics
  <2>2. CASE TransitionIsAllowed(status[user], "Revoked")
    BY <1>1, <1>2, <1>5, <2>1, <2>2, OneUpdateIsSound DEF RevokeWhitelist, TransitionIsAllowed
  <2>3. CASE ~TransitionIsAllowed(status[user], "Revoked")
    BY <1>5, <2>1, <2>3, NoUpdateIsSound DEF RevokeWhitelist
  <2> QED
    BY <2>2, <2>3
<1> QED
  BY <1>4, <1>5

LEMMA StepIsSound ==
  ASSUME ComplianceStep
  PROVE  \E caller \in Address : IsSoundBatch(caller)
  BY SetIsSound, BatchIsSound, LegacyIsSound DEF ComplianceStep

LEMMA StepMovesRecords ==
  ASSUME ComplianceTypeOK, ComplianceStep
  PROVE  \E caller \in Address : RecordsMove(caller)
  BY StepIsSound, WritesMoveRecords DEF IsSoundBatch, ApplyTransitions
-----------------------------------------------------------------------------

RegistryInv == ComplianceTypeOK /\ RegistryAgrees

LEMMA RegistryInvInit == ComplianceInit => RegistryInv
  BY DEF ComplianceInit, RegistryInv, ComplianceTypeOK, RegistryAgrees, ComplianceStatus

\* It needs no more of a step than that it moves the records or leaves them:
\* nothing ever goes back to Unknown, and a clearance always names its approver.
LEMMA RegistryInvStep ==
  ASSUME RegistryInv, [ComplianceStep]_complianceVars
  PROVE  RegistryInv'
<1>1. CASE UNCHANGED complianceVars
  BY <1>1 DEF complianceVars, RegistryInv, ComplianceTypeOK, RegistryAgrees
<1>2. CASE ComplianceStep
  <2>1. PICK caller \in Address : RecordsMove(caller)
    BY <1>2, StepMovesRecords DEF RegistryInv
  <2>2. ASSUME NEW u \in Address
        PROVE  /\ u \in whitelist' <=> status'[u] = "Approved"
               /\ status'[u] = "Approved" => approver'[u] # NoAddress
               /\ status'[u] = "Unknown" => approver'[u] = NoAddress
    <3>1. CASE Kept(u)
      BY <3>1 DEF Kept, RegistryInv, RegistryAgrees
    <3>2. CASE Moved(caller, u)
      <4>1. status[u] \in ComplianceStatus
        BY DEF RegistryInv, ComplianceTypeOK
      <4>2. status'[u] # "Unknown"
        BY <3>2, <4>1 DEF Moved, AllowedTargets, ComplianceStatus
      <4>3. caller # NoAddress
        BY NoAddressAssumption
      <4> QED
        BY <3>2, <4>2, <4>3 DEF Moved
    <3> QED
      BY <2>1, <3>1, <3>2 DEF RecordsMove
  <2> QED
    BY <2>1, <2>2 DEF RecordsMove, RegistryInv, RegistryAgrees
<1> QED
  BY <1>1, <1>2

LEMMA ComplianceNextSteps ==
  ASSUME [ComplianceNext]_<<adminVars, events, complianceVars>>
  PROVE  [ComplianceStep]_complianceVars
  BY DEF ComplianceNext

\* The types and the agreement of the records hold in every reachable state.
THEOREM RegistryInvariant == ComplianceSpec => []RegistryInv
<1>1. RegistryInv /\ [ComplianceNext]_<<adminVars, events, complianceVars>> => RegistryInv'
  BY ComplianceNextSteps, RegistryInvStep
<1> QED
  BY <1>1, RegistryInvInit, PTL DEF ComplianceSpec

\* Every record is read back as a status, a set of addresses, an approver.
THEOREM RegistryTypeCorrect == ComplianceSpec => []ComplianceTypeOK
<1>1. RegistryInv => ComplianceTypeOK
  BY DEF RegistryInv
<1> QED
  BY <1>1, RegistryInvariant, PTL

\* Status, legacy whitelist key and approver of every investor always agree.
THEOREM RecordsAlwaysAgree == ComplianceSpec => []RegistryAgrees
<1>1. RegistryInv => RegistryAgrees
  BY DEF RegistryInv
<1> QED
  BY <1>1, RegistryInvariant, PTL

LEMMA ApproverStep ==
  ASSUME RegistryInv, [ComplianceStep]_complianceVars, NEW u \in Address,
         approver'[u] # approver[u]
  PROVE  status[u] # "Approved" /\ status'[u] = "Approved"
<1>1. ComplianceStep
  BY DEF complianceVars
<1>2. PICK caller \in Address : RecordsMove(caller)
  BY <1>1, StepMovesRecords DEF RegistryInv
<1>3. Moved(caller, u)
  BY <1>2 DEF RecordsMove, Kept
<1>4. status'[u] = "Approved"
  BY <1>3 DEF Moved
<1>5. "Approved" \notin AllowedTargets["Approved"]
  BY DEF AllowedTargets
<1> QED
  BY <1>3, <1>4, <1>5 DEF Moved

\* The approver the issuer separation rules rest on is set on a clearance and
\* never otherwise, by whichever entrypoint and in batches of any length.
THEOREM ApproverIsSetOnClearance == ComplianceSpec => ApproverOnlySetOnClearance
<1>1. RegistryInv /\ [ComplianceNext]_<<adminVars, events, complianceVars>>
        => [\A u \in Address : approver'[u] # approver[u]
                => status[u] # "Approved" /\ status'[u] = "Approved"
           ]_<<adminVars, events, complianceVars>>
  BY ComplianceNextSteps, ApproverStep
<1> QED
  BY <1>1, RegistryInvariant, PTL DEF ComplianceSpec, ApproverOnlySetOnClearance
-----------------------------------------------------------------------------
(* The events. *)

LEMMA LegacyIsShort ==
  ASSUME NEW legacy \in Legacy
  PROVE  /\ legacy \in Seq(LegacyEvents)
         /\ Len(legacy) \in Nat /\ Len(legacy) <= 1
         /\ Len(legacy) = 1 => legacy[1] \in LegacyEvents
<1>1. CASE legacy = <<>>
  BY <1>1
<1>2. ASSUME NEW e \in LegacyEvents, legacy = <<e>>
      PROVE  /\ legacy \in Seq(LegacyEvents)
             /\ Len(legacy) = 1
             /\ legacy[1] \in LegacyEvents
  BY <1>2
<1> QED
  BY <1>1, <1>2 DEF Legacy

\* Every update has its event, in its place, and only a legacy one may follow.
LEMMA PublishedInOrder ==
  ASSUME NEW caller, NEW n \in Nat, NEW updates \in [1..n -> ValidUpdate],
         NEW legacy \in Legacy, ApplyTransitions(caller, updates, legacy)
  PROVE  /\ Len(events') = n \/ Len(events') = n + 1
         /\ DOMAIN events' = 1..Len(events')
         /\ \A i \in 1..n : events'[i] =
                [topic |-> "compliance_status_changed", caller |-> caller,
                 user |-> updates[i].user, previous_status |-> status[updates[i].user],
                 new_status |-> updates[i].new_status]
         /\ Len(events') = n + 1 => events'[n + 1] \in LegacyEvents
<1> DEFINE changes == StatusChanges(caller, updates)
           T == LegacyEvents \cup {changes[j] : j \in 1..n}
           m == Len(legacy)
<1>1. DOMAIN updates = 1..n
  OBVIOUS
<1>2. changes \in [1..n -> T]
  BY <1>1 DEF StatusChanges
<1>3. changes \in Seq(T) /\ Len(changes) = n
  BY <1>2
<1>4. m \in Nat /\ m <= 1 /\ (m = 1 => legacy[1] \in LegacyEvents)
  BY LegacyIsShort
<1>5. legacy \in Seq(T)
  <2>1. legacy \in Seq(LegacyEvents) /\ LegacyEvents \subseteq T
    BY LegacyIsShort
  <2> HIDE DEF T
  <2> QED
    BY <2>1
<1>6. \A i \in 1..n : changes[i] =
        [topic |-> "compliance_status_changed", caller |-> caller,
         user |-> updates[i].user, previous_status |-> status[updates[i].user],
         new_status |-> updates[i].new_status]
  BY <1>1 DEF StatusChanges
<1>7. events' = changes \o legacy
  BY DEF ApplyTransitions, Publish
<1> HIDE DEF changes, T
<1>8. /\ Len(changes \o legacy) = n + m
      /\ DOMAIN (changes \o legacy) = 1..(n + m)
      /\ \A i \in 1..n : (changes \o legacy)[i] = changes[i]
      /\ \A i \in 1..m : (changes \o legacy)[n + i] = legacy[i]
  BY <1>3, <1>5
<1> HIDE DEF m
<1> QED
  BY <1>4, <1>6, <1>7, <1>8

\* Where an invocation speaks of an investor's status.
Trail(u) ==
    {i \in DOMAIN events' : events'[i].topic = "compliance_status_changed" /\ events'[i].user = u}

LEMMA TrailIsNaming ==
  ASSUME NEW caller, NEW n \in Nat, NEW updates \in [1..n -> ValidUpdate],
         NEW legacy \in Legacy, ApplyTransitions(caller, updates, legacy), NEW u
  PROVE  Trail(u) = Naming(updates, u)
<1>1. DOMAIN updates = 1..n
  OBVIOUS
<1>2. 1..n \subseteq DOMAIN events'
        /\ \A i \in DOMAIN events' : i \notin 1..n => i = n + 1 /\ Len(events') = n + 1
  BY PublishedInOrder
<1>3. \A i \in DOMAIN events' : i \notin 1..n => events'[i].topic # "compliance_status_changed"
  BY <1>2, PublishedInOrder DEF LegacyEvents, LegacyTopics
<1>4. ASSUME NEW i \in 1..n
      PROVE  /\ events'[i].topic = "compliance_status_changed"
             /\ events'[i].user = updates[i].user
  <2>1. events'[i] = [topic |-> "compliance_status_changed", caller |-> caller,
                      user |-> updates[i].user, previous_status |-> status[updates[i].user],
                      new_status |-> updates[i].new_status]
    BY PublishedInOrder
  <2> QED
    BY <2>1
<1> QED
  BY <1>1, <1>2, <1>3, <1>4 DEF Trail, Naming

\* The events on one investor account for what happened to its record.
Accounts(u) ==
    IF Trail(u) = {}
    THEN status'[u] = status[u] /\ approver'[u] = approver[u]
    ELSE \E i \in Trail(u) :
         /\ Trail(u) = {i}
         /\ events'[i].previous_status = status[u]
         /\ events'[i].new_status = status'[u]
         /\ status'[u] \in AllowedTargets[status[u]]
         /\ approver'[u] = IF status'[u] = "Approved" THEN events'[i].caller ELSE approver[u]

LEMMA TrailAccounts ==
  ASSUME ComplianceTypeOK, ComplianceStep, NEW u \in Address
  PROVE  Accounts(u)
<1>1. PICK caller \in Address : IsSoundBatch(caller)
  BY StepIsSound
<1>2. PICK n \in Nat : \E updates \in [1..n -> ValidUpdate], legacy \in Legacy :
        Sound(caller, updates) /\ ApplyTransitions(caller, updates, legacy)
  BY <1>1 DEF IsSoundBatch
<1>3. PICK updates \in [1..n -> ValidUpdate], legacy \in Legacy :
        Sound(caller, updates) /\ ApplyTransitions(caller, updates, legacy)
  BY <1>2
<1>4. WriteStatuses(caller, updates) /\ Trail(u) = Naming(updates, u)
  BY <1>3, TrailIsNaming DEF ApplyTransitions
<1>5. CASE Naming(updates, u) = {}
  BY <1>4, <1>5, UnnamedIsKept DEF Accounts, Kept
<1>6. ASSUME NEW i \in Naming(updates, u)
      PROVE  Accounts(u)
  <2>1. i \in 1..n /\ updates[i].user = u
    BY <1>6 DEF Naming
  <2>2. Naming(updates, u) = {i}
    BY <1>3, <1>6, <2>1 DEF Naming, Sound
  <2>3. events'[i] = [topic |-> "compliance_status_changed", caller |-> caller,
                      user |-> u, previous_status |-> status[u],
                      new_status |-> updates[i].new_status]
    BY <1>3, <2>1, PublishedInOrder
  <2>4. Moved(caller, u) /\ status'[u] = updates[i].new_status
    BY <1>3, <1>4, NamedIsMoved
  <2> QED
    BY <1>4, <2>2, <2>3, <2>4 DEF Accounts, Moved
<1> QED
  BY <1>5, <1>6

\* The other components publish nothing about an investor's status.
LEMMA AdminLeavesNoTrail ==
  ASSUME AdminNext, NEW u
  PROVE  Trail(u) = {}
<1>1. ASSUME NEW e, Publish(<<e>>), e.topic # "compliance_status_changed"
      PROVE  Trail(u) = {}
  BY <1>1 DEF Publish, Trail
<1> QED
  BY <1>1 DEF AdminNext, Initialize, SetRole, RemoveRole, TransferAdmin, AcceptAdmin,
              RenounceAdmin, Pause, Unpause

LEMMA AuditTrailStep ==
  ASSUME ComplianceTypeOK, ComplianceNext, NEW u \in Address
  PROVE  Accounts(u)
<1>1. CASE AdminNext /\ UNCHANGED complianceVars
  BY <1>1, AdminLeavesNoTrail DEF Accounts, complianceVars
<1> QED
  BY <1>1, TrailAccounts DEF ComplianceNext

\* The events of an invocation account for every compliance record: whoever
\* reads them knows which records moved, from what to what and by whose hand,
\* in batches of any length.
THEOREM AuditTrailIsComplete == ComplianceSpec => ComplianceAuditTrail
<1>1. RegistryInv /\ [ComplianceNext]_<<adminVars, events, complianceVars>>
        => [\A u \in Address : Accounts(u)]_<<adminVars, events, complianceVars>>
  BY AuditTrailStep DEF RegistryInv
<1> QED
  BY <1>1, RegistryInvariant, PTL DEF ComplianceSpec, ComplianceAuditTrail, Accounts, Trail
-----------------------------------------------------------------------------
(* The freeze. *)

Attributed(u) ==
    \E i \in DOMAIN events' :
        events'[i].topic = "compliance_status_changed"
            /\ events'[i].user = u /\ events'[i].caller = admin

Unfrozen(u) == status[u] = "Blocked" /\ status'[u] # "Blocked"

\* Whom an authority guard lets move a frozen record.
LEMMA OnlyAdminUnfreezes ==
  ASSUME NEW caller, AuthorityGuard(caller, "Blocked") = "Allowed"
  PROVE  caller = admin
  BY DEF AuthorityGuard

LEMMA UnfreezeIsAttributed ==
  ASSUME ComplianceTypeOK, ComplianceStep, NEW u \in Address, Unfrozen(u)
  PROVE  Attributed(u)
<1>1. PICK caller \in Address : IsSoundBatch(caller)
  BY StepIsSound
<1>2. PICK n \in Nat : \E updates \in [1..n -> ValidUpdate], legacy \in Legacy :
        Sound(caller, updates) /\ ApplyTransitions(caller, updates, legacy)
  BY <1>1 DEF IsSoundBatch
<1>3. PICK updates \in [1..n -> ValidUpdate], legacy \in Legacy :
        Sound(caller, updates) /\ ApplyTransitions(caller, updates, legacy)
  BY <1>2
<1>4. PICK i \in Naming(updates, u) : TRUE
  BY <1>3, UnnamedIsKept DEF ApplyTransitions, Kept, Unfrozen
<1>5. i \in 1..n /\ updates[i].user = u
  BY <1>4 DEF Naming
<1>6. caller = admin
  BY <1>3, <1>5, OnlyAdminUnfreezes DEF Sound, Unfrozen
<1>7. i \in Trail(u)
  BY <1>3, <1>4, TrailIsNaming
<1>8. events'[i].caller = caller
  <2>1. events'[i] = [topic |-> "compliance_status_changed", caller |-> caller,
                      user |-> updates[i].user, previous_status |-> status[updates[i].user],
                      new_status |-> updates[i].new_status]
    BY <1>3, <1>5, PublishedInOrder
  <2> QED
    BY <2>1
<1> QED
  BY <1>6, <1>7, <1>8 DEF Attributed, Trail

LEMMA UnfreezeStep ==
  ASSUME RegistryInv, [ComplianceStep]_complianceVars, NEW u \in Address, Unfrozen(u)
  PROVE  status'[u] = "Pending" /\ Attributed(u)
<1>1. ComplianceStep
  BY DEF complianceVars, Unfrozen
<1>2. PICK caller \in Address : RecordsMove(caller)
  BY <1>1, StepMovesRecords DEF RegistryInv
<1>3. Moved(caller, u)
  BY <1>2 DEF RecordsMove, Kept, Unfrozen
<1>4. status'[u] = "Pending"
  BY <1>3 DEF Moved, Unfrozen, AllowedTargets
<1> QED
  BY <1>1, <1>4, UnfreezeIsAttributed DEF RegistryInv

\* A freeze ends in review, by the hand of the admin of that moment, through
\* whichever of the four entrypoints and in batches of any length.
THEOREM FreezeIsLiftedByAdmin == ComplianceSpec => FreezeLiftedByAdminIntoReview
<1>1. RegistryInv /\ [ComplianceNext]_<<adminVars, events, complianceVars>>
        => [\A u \in Address : (status[u] = "Blocked" /\ status'[u] # "Blocked")
                => /\ status'[u] = "Pending"
                   /\ \E i \in DOMAIN events' :
                        events'[i].topic = "compliance_status_changed"
                            /\ events'[i].user = u /\ events'[i].caller = admin
           ]_<<adminVars, events, complianceVars>>
  BY ComplianceNextSteps, UnfreezeStep DEF Unfrozen, Attributed
<1> QED
  BY <1>1, RegistryInvariant, PTL DEF ComplianceSpec, FreezeLiftedByAdminIntoReview
-----------------------------------------------------------------------------
(* The legacy aliases. *)

\* The aliases' own copy of the rules says what the shared guard says.
LEMMA AliasesAgree ==
  ASSUME NEW caller, NEW user
  PROVE  LET approve == CheckTransition(caller, user, "Approved").reason
             revoke  == CheckTransition(caller, user, "Revoked").reason
         IN  /\ CanWhitelist(caller, user) <=> approve \in {"Allowed", "StatusUnchanged"}
             /\ CanRevoke(caller, user)
                     <=> revoke \in {"Allowed", "StatusUnchanged", "TransitionForbidden"}
             /\ CanRevoke(caller, user) =>
                     (revoke = "Allowed" <=> TransitionIsAllowed(status[user], "Revoked"))
<1> DEFINE verdict(to) == EvaluateFromStatus(caller, status[user], to)
           authority   == AuthorityGuard(caller, status[user])
<1>1. \A to : CheckTransition(caller, user, to).reason = verdict(to)
  BY DEF CheckTransition, Report
<1>2. authority \in {"Allowed", "NotInitialized", "BlockedRequiresAdmin", "CallerUnauthorized"}
  BY DEF AuthorityGuard
<1>3. "Revoked" \notin AllowedTargets["Revoked"]
  BY DEF AllowedTargets
<1>4. /\ CanWhitelist(caller, user) <=> verdict("Approved") \in {"Allowed", "StatusUnchanged"}
      /\ CanRevoke(caller, user)
            <=> verdict("Revoked") \in {"Allowed", "StatusUnchanged", "TransitionForbidden"}
      /\ CanRevoke(caller, user) =>
            (verdict("Revoked") = "Allowed" <=> TransitionIsAllowed(status[user], "Revoked"))
  BY <1>2, <1>3 DEF CanWhitelist, CanRevoke, EvaluateFromStatus, RequireNotPaused,
                    RequireTransitionAuthority, TransitionIsAllowed
<1> QED
  BY <1>1, <1>4

\* The legacy aliases let nobody make a move that the guard refuses.
THEOREM AliasesAlwaysFollowGuard == ComplianceSpec => []AliasesFollowGuard
<1>1. AliasesFollowGuard
  BY AliasesAgree DEF AliasesFollowGuard
<1> QED
  BY <1>1, PTL
=============================================================================
