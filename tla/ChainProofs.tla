---------------------------- MODULE ChainProofs -----------------------------
(***************************************************************************)
(* Chains of checks, of which the first one that fails is reported: what   *)
(* a chain reports, for chains of any length, and with it that the batch   *)
(* pre-flight foretells the submission, for batches of any length.         *)
(***************************************************************************)
EXTENDS RegistryProofs, WellFoundedInduction

LEMMA LeastElement ==
  ASSUME NEW S \in SUBSET Nat, S # {}
  PROVE  \E i \in S : \A j \in S : i <= j
<1>1. PICK i \in S : \A j \in S : ~(<<j, i>> \in OpToRel(<, Nat))
  BY NatLessThanWellFounded, WFMin
<1>2. \A j, k \in Nat : j < k => <<j, k>> \in OpToRel(<, Nat)
  BY Zenon DEF OpToRel
<1>3. \A j \in S : ~(j < i)
  BY <1>1, <1>2, Zenon
<1> QED
  BY <1>3

\* A check that fails after none before it did is the one reported.
LEMMA FirstIsReported ==
  ASSUME NEW checks, DOMAIN checks \subseteq Nat, NEW k \in DOMAIN checks, checks[k].fails,
         \A j \in DOMAIN checks : j < k => ~checks[j].fails,
         NEW ok
  PROVE  FirstFailing(checks, ok) = checks[k].report
<1> DEFINE failing == {i \in DOMAIN checks : checks[i].fails}
           first   == CHOOSE i \in failing : \A j \in failing : i <= j
<1>1. k \in failing /\ \A j \in failing : k <= j
  OBVIOUS
<1>2. first \in failing /\ \A j \in failing : first <= j
  BY <1>1
<1>3. first = k
  BY <1>1, <1>2
<1>4. FirstFailing(checks, ok) = checks[first].report
  BY <1>1 DEF FirstFailing
<1> QED
  BY <1>3, <1>4

LEMMA NoneIsReported ==
  ASSUME NEW checks, \A j \in DOMAIN checks : ~checks[j].fails, NEW ok
  PROVE  FirstFailing(checks, ok) = ok
  BY DEF FirstFailing

\* In every chain either there is a first failing check, or none fails.
LEMMA SomeFirst ==
  ASSUME NEW checks, DOMAIN checks \subseteq Nat
  PROVE  \/ \A j \in DOMAIN checks : ~checks[j].fails
         \/ \E k \in DOMAIN checks :
                checks[k].fails /\ \A j \in DOMAIN checks : j < k => ~checks[j].fails
<1> DEFINE failing == {i \in DOMAIN checks : checks[i].fails}
<1>1. CASE failing # {}
  <2>1. PICK i \in failing : \A j \in failing : i <= j
    BY <1>1, LeastElement
  <2>2. \A j \in DOMAIN checks : j < i => j \notin failing
    BY <2>1
  <2> QED
    BY <2>1, <2>2
<1> QED
  BY <1>1

\* A chain that continues another is asked when the other has nothing to report.
LEMMA ChainContinues ==
  ASSUME NEW S, NEW first \in Seq(S), NEW second \in Seq(S), NEW ok
  PROVE  FirstFailing(first \o second, ok) = FirstFailing(first, FirstFailing(second, ok))
<1> DEFINE both == first \o second
           m    == Len(first)
           n    == Len(second)
<1>1. m \in Nat /\ n \in Nat /\ DOMAIN first = 1..m /\ DOMAIN second = 1..n
  OBVIOUS
<1>2. both \in Seq(S) /\ Len(both) = m + n
  OBVIOUS
<1>3. DOMAIN both = 1..(m + n)
  BY <1>2
<1>4. /\ \A i \in 1..m : both[i] = first[i]
      /\ \A i \in 1..n : both[m + i] = second[i]
  OBVIOUS
<1> HIDE DEF both, m, n
<1>5. ASSUME NEW k \in 1..m, first[k].fails, \A j \in 1..m : j < k => ~first[j].fails
      PROVE  FirstFailing(both, ok) = first[k].report
  <2>1. k \in DOMAIN both /\ both[k].fails /\ both[k].report = first[k].report
    BY <1>1, <1>3, <1>4, <1>5
  <2>2. \A j \in DOMAIN both : j < k => ~both[j].fails
    BY <1>1, <1>3, <1>4, <1>5
  <2> QED
    BY <1>1, <1>3, <2>1, <2>2, FirstIsReported
<1>6. ASSUME \A j \in 1..m : ~first[j].fails,
             NEW k \in 1..n, second[k].fails, \A j \in 1..n : j < k => ~second[j].fails
      PROVE  FirstFailing(both, ok) = second[k].report
  <2>1. m + k \in DOMAIN both /\ both[m + k].fails /\ both[m + k].report = second[k].report
    BY <1>1, <1>3, <1>4, <1>6
  <2>2. ASSUME NEW j \in DOMAIN both, j < m + k PROVE ~both[j].fails
    <3>1. CASE j <= m
      BY <1>1, <1>3, <1>4, <1>6, <3>1
    <3>2. CASE j > m
      <4>1. j - m \in 1..n /\ j - m < k /\ m + (j - m) = j
        BY <1>1, <1>3, <2>2, <3>2
      <4> QED
        BY <1>4, <1>6, <4>1
    <3> QED
      BY <1>1, <1>3, <3>1, <3>2
  <2>3. FirstFailing(both, ok) = both[m + k].report
    <3>1. \A j \in DOMAIN both : j < m + k => ~both[j].fails
      BY <2>2
    <3>2. m + k \in DOMAIN both /\ both[m + k].fails
      BY <2>1
    <3>3. DOMAIN both \subseteq Nat
      BY <1>1, <1>3
    <3> QED
      BY <3>1, <3>2, <3>3, FirstIsReported
  <2> QED
    BY <2>1, <2>3
<1>7. ASSUME \A j \in 1..m : ~first[j].fails, \A j \in 1..n : ~second[j].fails
      PROVE  FirstFailing(both, ok) = ok
  <2>1. ASSUME NEW j \in DOMAIN both PROVE ~both[j].fails
    <3>1. CASE j <= m
      BY <1>1, <1>3, <1>4, <1>7, <3>1
    <3>2. CASE j > m
      <4>1. j - m \in 1..n /\ m + (j - m) = j
        BY <1>1, <1>3, <3>2
      <4> QED
        BY <1>4, <1>7, <4>1
    <3> QED
      BY <1>1, <1>3, <3>1, <3>2
  <2> QED
    BY <2>1, NoneIsReported
<1>8. ASSUME \A j \in 1..m : ~first[j].fails
      PROVE  FirstFailing(both, ok) = FirstFailing(first, FirstFailing(second, ok))
  <2>1. FirstFailing(first, FirstFailing(second, ok)) = FirstFailing(second, ok)
    BY <1>1, <1>8, NoneIsReported
  <2>2. ASSUME \A j \in 1..n : ~second[j].fails
        PROVE  FirstFailing(both, ok) = FirstFailing(second, ok)
    <3>1. FirstFailing(both, ok) = ok
      BY <1>7, <1>8, <2>2
    <3>2. FirstFailing(second, ok) = ok
      BY <1>1, <2>2, NoneIsReported
    <3> QED
      BY <3>1, <3>2
  <2>3. ASSUME NEW k \in 1..n, second[k].fails, \A j \in 1..n : j < k => ~second[j].fails
        PROVE  FirstFailing(both, ok) = FirstFailing(second, ok)
    <3>1. FirstFailing(both, ok) = second[k].report
      BY <1>6, <1>8, <2>3
    <3>2. FirstFailing(second, ok) = second[k].report
      BY <1>1, <2>3, FirstIsReported
    <3> QED
      BY <3>1, <3>2
  <2>4. DOMAIN second \subseteq Nat
    BY <1>1
  <2> QED
    BY <1>1, <2>1, <2>2, <2>3, <2>4, SomeFirst
<1>9. ASSUME NEW k \in 1..m, first[k].fails, \A j \in 1..m : j < k => ~first[j].fails
      PROVE  FirstFailing(both, ok) = FirstFailing(first, FirstFailing(second, ok))
  BY <1>1, <1>5, <1>9, FirstIsReported
<1>10. DOMAIN first \subseteq Nat
  BY <1>1
<1>11. FirstFailing(both, ok) = FirstFailing(first, FirstFailing(second, ok))
  BY <1>1, <1>8, <1>9, <1>10, SomeFirst
<1> QED
  BY <1>11 DEF both

\* Chains written out, of the lengths the reads and the entrypoints have.
LEMMA OneInOrder ==
  ASSUME NEW checks, DOMAIN checks = 1..1, NEW ok
  PROVE  FirstFailing(checks, ok) =
            IF checks[1].fails THEN checks[1].report ELSE ok
  BY FirstIsReported, NoneIsReported

LEMMA TwoInOrder ==
  ASSUME NEW checks, DOMAIN checks = 1..2, NEW ok
  PROVE  FirstFailing(checks, ok) =
            IF checks[1].fails THEN checks[1].report ELSE
            IF checks[2].fails THEN checks[2].report ELSE ok
  BY FirstIsReported, NoneIsReported

LEMMA FiveInOrder ==
  ASSUME NEW checks, DOMAIN checks = 1..5, NEW ok
  PROVE  FirstFailing(checks, ok) =
            IF checks[1].fails THEN checks[1].report ELSE
            IF checks[2].fails THEN checks[2].report ELSE
            IF checks[3].fails THEN checks[3].report ELSE
            IF checks[4].fails THEN checks[4].report ELSE
            IF checks[5].fails THEN checks[5].report ELSE ok
  BY FirstIsReported, NoneIsReported, SMTT(120)

LEMMA SevenInOrder ==
  ASSUME NEW checks, DOMAIN checks = 1..7, NEW ok
  PROVE  FirstFailing(checks, ok) =
            IF checks[1].fails THEN checks[1].report ELSE
            IF checks[2].fails THEN checks[2].report ELSE
            IF checks[3].fails THEN checks[3].report ELSE
            IF checks[4].fails THEN checks[4].report ELSE
            IF checks[5].fails THEN checks[5].report ELSE
            IF checks[6].fails THEN checks[6].report ELSE
            IF checks[7].fails THEN checks[7].report ELSE ok
  BY FirstIsReported, NoneIsReported, SMTT(120)
-----------------------------------------------------------------------------
(* The batch pre-flight. *)

EntryVerdict(caller, updates, i) ==
    EvaluateFromStatus(caller, status[updates[i].user], updates[i].new_status)

EntryError(caller, updates, i) ==
    IF BatchHasDuplicateUser(updates, i) THEN "InvalidComplianceTransition"
    ELSE ErrorForGuard[EntryVerdict(caller, updates, i)]

EntryChecks(caller, updates) ==
    [i \in DOMAIN updates |-> Check(EntryError(caller, updates, i) # "Ok",
                                    EntryError(caller, updates, i))]

LEMMA GuardVerdicts ==
  ASSUME NEW caller, NEW current \in ComplianceStatus, NEW newStatus
  PROVE  LET verdict == EvaluateFromStatus(caller, current, newStatus)
         IN  /\ verdict = "Allowed" <=> ErrorForGuard[verdict] = "Ok"
             /\ paused => verdict = "ContractPaused"
  BY DEF EvaluateFromStatus, AuthorityGuard, ErrorForGuard

LEMMA BatchLength ==
  ASSUME NEW updates \in Batches \ {<<>>}
  PROVE  /\ \E n \in Nat : n >= 1 /\ DOMAIN updates = 1..n
         /\ \A i \in DOMAIN updates : updates[i] \in Update
<1>1. PICK n \in 0..MaxBatch : updates \in [1..n -> Update]
  BY DEF Batches
<1>2. n \in Nat
  BY <1>1, MaxBatchAssumption
<1>3. n # 0
  <2> SUFFICES ASSUME n = 0 PROVE FALSE
    OBVIOUS
  <2>1. 1..0 = {}
    OBVIOUS
  <2> QED
    BY <1>1, <2>1
<1> QED
  BY <1>1, <1>2, <1>3

\* A row says of its entry what the submission looks at, error code included.
LEMMA RowForetellsEntry ==
  ASSUME ComplianceTypeOK, NEW caller \in Address, NEW updates \in Batches \ {<<>>},
         NEW i \in DOMAIN updates
  PROVE  /\ CheckBatch(caller, updates)[i].error_code = EntryError(caller, updates, i)
         /\ CheckBatch(caller, updates)[i].allowed <=> EntryError(caller, updates, i) = "Ok"
<1>1. status[updates[i].user] \in ComplianceStatus
  BY BatchLength DEF ComplianceTypeOK, Update
<1> DEFINE verdict == EntryVerdict(caller, updates, i)
<1>2. \A reason : /\ Report(reason).error_code = ErrorForGuard[reason]
                  /\ Report(reason).allowed <=> reason = "Allowed"
  BY DEF Report
<1>3. verdict = "Allowed" <=> ErrorForGuard[verdict] = "Ok"
  BY <1>1, GuardVerdicts DEF EntryVerdict
<1> HIDE DEF verdict
<1>4. CASE BatchHasDuplicateUser(updates, i)
  <2>1. CheckBatch(caller, updates)[i] = Report("DuplicateUserInBatch")
    BY <1>4 DEF CheckBatch, BatchHasDuplicateUser
  <2>2. ErrorForGuard["DuplicateUserInBatch"] = "InvalidComplianceTransition"
    BY DEF ErrorForGuard
  <2>3. EntryError(caller, updates, i) = "InvalidComplianceTransition"
    BY <1>4 DEF EntryError
  <2> QED
    BY <1>2, <2>1, <2>2, <2>3
<1>5. CASE ~BatchHasDuplicateUser(updates, i)
  <2>1. CheckBatch(caller, updates)[i] = Report(verdict)
    BY <1>5 DEF CheckBatch, BatchHasDuplicateUser, CheckTransition, EntryVerdict, verdict
  <2>2. EntryError(caller, updates, i) = ErrorForGuard[verdict]
    BY <1>5 DEF EntryError, verdict
  <2> QED
    BY <1>2, <1>3, <2>1, <2>2
<1> QED
  BY <1>4, <1>5

LEMMA RowsAreEntries ==
  ASSUME ComplianceTypeOK, NEW caller \in Address, NEW updates \in Batches \ {<<>>}
  PROVE  LET rows == CheckBatch(caller, updates)
         IN  [i \in DOMAIN rows |-> Check(~rows[i].allowed, rows[i].error_code)]
                = EntryChecks(caller, updates)
<1> DEFINE rows == CheckBatch(caller, updates)
<1>1. DOMAIN rows = DOMAIN updates
  BY DEF CheckBatch
<1> HIDE DEF rows
<1>2. ASSUME NEW i \in DOMAIN updates
      PROVE  Check(~rows[i].allowed, rows[i].error_code)
                = Check(EntryError(caller, updates, i) # "Ok", EntryError(caller, updates, i))
  <2>1. /\ rows[i].error_code = EntryError(caller, updates, i)
        /\ ~rows[i].allowed <=> EntryError(caller, updates, i) # "Ok"
    BY RowForetellsEntry DEF rows
  <2>2. (~rows[i].allowed) = (EntryError(caller, updates, i) # "Ok")
    BY <2>1
  <2> QED
    BY <2>1, <2>2 DEF Check
<1> QED
  BY <1>1, <1>2 DEF EntryChecks, rows

LEMMA EntriesInOrder ==
  ASSUME ComplianceTypeOK, NEW caller \in Address, NEW updates \in Batches \ {<<>>}
  PROVE  LET entries == EntryChecks(caller, updates)
         IN  /\ FirstFailing(entries, "Ok") = "Ok"
                    <=> \A i \in DOMAIN updates : EntryError(caller, updates, i) = "Ok"
             /\ paused => FirstFailing(entries, "Ok") = "ContractPaused"
<1> DEFINE entries == EntryChecks(caller, updates)
<1>1. PICK n \in Nat : n >= 1 /\ DOMAIN updates = 1..n
  BY BatchLength
<1>2. /\ DOMAIN entries = 1..n
      /\ \A i \in 1..n : /\ entries[i].fails <=> EntryError(caller, updates, i) # "Ok"
                         /\ entries[i].report = EntryError(caller, updates, i)
  BY <1>1 DEF EntryChecks, Check
<1> HIDE DEF entries
<1>3. (\A i \in DOMAIN entries : ~entries[i].fails) => FirstFailing(entries, "Ok") = "Ok"
  BY NoneIsReported
<1>4. ASSUME NEW k \in DOMAIN entries, entries[k].fails,
             \A j \in DOMAIN entries : j < k => ~entries[j].fails
      PROVE  FirstFailing(entries, "Ok") # "Ok"
  BY <1>1, <1>2, <1>4, FirstIsReported
<1>5. FirstFailing(entries, "Ok") = "Ok"
            <=> \A i \in DOMAIN updates : EntryError(caller, updates, i) = "Ok"
  <2>1. DOMAIN entries \subseteq Nat
    BY <1>2
  <2>2. FirstFailing(entries, "Ok") = "Ok" <=> \A i \in DOMAIN entries : ~entries[i].fails
    BY <1>3, <1>4, <2>1, SomeFirst
  <2> QED
    BY <1>1, <1>2, <2>2
<1>6. ASSUME paused PROVE FirstFailing(entries, "Ok") = "ContractPaused"
  <2>1. 1 \in 1..n /\ updates[1].user \in Address
    BY <1>1, BatchLength DEF Update
  <2>2. ~BatchHasDuplicateUser(updates, 1)
    BY DEF BatchHasDuplicateUser
  <2>3. EntryError(caller, updates, 1) = "ContractPaused"
    BY <1>6, <2>1, <2>2, GuardVerdicts
       DEF EntryError, EntryVerdict, ErrorForGuard, ComplianceTypeOK
  <2> QED
    BY <1>2, <2>1, <2>3, FirstIsReported
<1> QED
  BY <1>5, <1>6 DEF entries

LEMMA BatchErrorInOrder ==
  ASSUME NEW caller \in Address, NEW updates \in Batches \ {<<>>}
  PROVE  BatchError(caller, updates) =
            IF paused THEN "ContractPaused"
            ELSE FirstFailing(EntryChecks(caller, updates), "Ok")
<1> DEFINE pause   == Check(paused, "ContractPaused")
           entries == EntryChecks(caller, updates)
           first   == <<pause>>
           S       == {pause} \cup {entries[i] : i \in DOMAIN updates}
<1>1. PICK n \in Nat : DOMAIN updates = 1..n
  BY BatchLength
<1>2. first \in Seq(S) /\ DOMAIN first = 1..1 /\ first[1] = pause
  OBVIOUS
<1>3. entries \in Seq(S)
  BY <1>1 DEF EntryChecks
<1>4. BatchError(caller, updates) = FirstFailing(first \o entries, "Ok")
  BY DEF BatchError, EntryChecks, EntryError, EntryVerdict
<1>5. pause.fails = paused /\ pause.report = "ContractPaused"
  BY DEF Check
<1> HIDE DEF pause, entries, first, S
<1>6. BatchError(caller, updates) = FirstFailing(first, FirstFailing(entries, "Ok"))
  BY <1>2, <1>3, <1>4, ChainContinues
<1>7. FirstFailing(first, FirstFailing(entries, "Ok"))
        = IF pause.fails THEN pause.report ELSE FirstFailing(entries, "Ok")
  BY <1>2, OneInOrder
<1> QED
  BY <1>5, <1>6, <1>7 DEF entries

LEMMA BatchForetold ==
  ASSUME ComplianceTypeOK, NEW caller \in Address, NEW updates \in Batches \ {<<>>}
  PROVE  LET rows  == CheckBatch(caller, updates)
             error == BatchError(caller, updates)
         IN  /\ CanBatchSet(caller, updates) <=> error = "Ok"
             /\ error = FirstFailing([i \in DOMAIN rows |->
                            Check(~rows[i].allowed, rows[i].error_code)], "Ok")
<1>1. ASSUME NEW i \in DOMAIN updates
      PROVE  EntryError(caller, updates, i) = "Ok"
                <=> /\ ~BatchHasDuplicateUser(updates, i)
                    /\ RequireTransition(caller, status[updates[i].user],
                                         updates[i].new_status)
  <2>1. status[updates[i].user] \in ComplianceStatus
    BY BatchLength DEF ComplianceTypeOK, Update
  <2> QED
    BY <2>1, GuardVerdicts DEF EntryError, EntryVerdict, RequireTransition
<1>2. CanBatchSet(caller, updates)
        <=> ~paused /\ \A i \in DOMAIN updates : EntryError(caller, updates, i) = "Ok"
  BY <1>1 DEF CanBatchSet, RequireNotPaused
<1> QED
  BY <1>2, RowsAreEntries, EntriesInOrder, BatchErrorInOrder

\* The rows of a batch pre-flight foretell the submission and the code it
\* reverts with, for batches of any length: a row fails exactly where its entry
\* does, with the same code, and a pause is what the first row says already.
THEOREM BatchPreflightIsExact == ComplianceSpec => []BatchPreflightExact
<1>1. ComplianceTypeOK => BatchPreflightExact
  BY BatchForetold DEF BatchPreflightExact
<1> QED
  BY <1>1, RegistryTypeCorrect, PTL
=============================================================================
