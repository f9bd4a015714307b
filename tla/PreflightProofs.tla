-------------------------- MODULE PreflightProofs ---------------------------
(***************************************************************************)
(* What a read foretells of a transfer or a mint is what the submission    *)
(* does, for any balances that can be reached and any amounts.             *)
(***************************************************************************)
EXTENDS ContractProofs, ChainProofs

-----------------------------------------------------------------------------
(* What the reads and the entrypoints look at, one check after another.    *)

LEMMA ThreeParts ==
  ASSUME NEW S, NEW a \in Seq(S), NEW b \in Seq(S), NEW c \in Seq(S), NEW ok
  PROVE  /\ a \o b \o c \in Seq(S)
         /\ FirstFailing(a \o b \o c, ok)
                = FirstFailing(a, FirstFailing(b, FirstFailing(c, ok)))
<1> DEFINE ab == a \o b
<1>1. ab \in Seq(S)
  OBVIOUS
<1>2. \A rest : FirstFailing(ab, rest) = FirstFailing(a, FirstFailing(b, rest))
  BY ChainContinues
<1> HIDE DEF ab
<1>3. ab \o c \in Seq(S) /\ FirstFailing(ab \o c, ok) = FirstFailing(ab, FirstFailing(c, ok))
  BY <1>1, ChainContinues
<1> QED
  BY <1>2, <1>3 DEF ab

LEMMA FourParts ==
  ASSUME NEW S, NEW a \in Seq(S), NEW b \in Seq(S), NEW c \in Seq(S), NEW d \in Seq(S), NEW ok
  PROVE  FirstFailing(a \o b \o c \o d, ok)
            = FirstFailing(a, FirstFailing(b, FirstFailing(c, FirstFailing(d, ok))))
<1> DEFINE abc == a \o b \o c
<1>1. abc \in Seq(S)
  BY ThreeParts
<1>2. \A rest : FirstFailing(abc, rest)
                    = FirstFailing(a, FirstFailing(b, FirstFailing(c, rest)))
  BY ThreeParts
<1> HIDE DEF abc
<1>3. FirstFailing(abc \o d, ok) = FirstFailing(abc, FirstFailing(d, ok))
  BY <1>1, ChainContinues
<1> QED
  BY <1>2, <1>3 DEF abc

\* Everything a read or an entrypoint can report.
Reports ==
    {"None", "Ok", "Trap", "NotInitialized", "ContractPaused", "Unauthorized",
     "UnauthorizedOperation", "IssuanceDutyConflict", "SelfIssuanceForbidden",
     "IssuanceApproverConflict", "InvalidAmount", "InsufficientBalance", "AssetBlocked",
     "AssetPaused", "AssetRetired", "AssetBlockedRestriction", "AssetPausedRestriction",
     "AssetRetiredRestriction", "SenderNotCompliant", "RecipientNotCompliant",
     "SenderNotWhitelisted", "SenderBlocked", "SenderCompliancePending",
     "ReceiverNotWhitelisted", "ReceiverBlocked", "ReceiverCompliancePending",
     "HoldingCapExceeded", "SupplyCapExceeded"}

Row == [fails : BOOLEAN, report : Reports]

LEMMA CheckIsRow ==
  ASSUME NEW fails \in BOOLEAN, NEW report \in Reports
  PROVE  /\ Check(fails, report) \in Row
         /\ Check(fails, report).fails = fails
         /\ Check(fails, report).report = report
  BY DEF Check, Row

LEMMA LiteralReports ==
  /\ "Trap" \in Reports /\ "NotInitialized" \in Reports /\ "ContractPaused" \in Reports
  /\ "Unauthorized" \in Reports /\ "UnauthorizedOperation" \in Reports
  /\ "InvalidAmount" \in Reports /\ "InsufficientBalance" \in Reports
  /\ "SenderNotCompliant" \in Reports /\ "RecipientNotCompliant" \in Reports
  /\ "HoldingCapExceeded" \in Reports /\ "SupplyCapExceeded" \in Reports
  BY DEF Reports

LEMMA ReadTypes ==
  ASSUME ContractInv, NEW a \in Address, NEW amount \in AmountArgs
  PROVE  /\ paused \in BOOLEAN /\ assetStatus \in AssetStatus /\ status[a] \in ComplianceStatus
         /\ amount \in Int /\ balance[a] \in 0..MaxAmount /\ totalSupply \in 0..MaxAmount
         /\ supplyCap \in 0..MaxAmount /\ holdingCap \in 0..MaxAmount /\ MaxAmount \in Nat
  BY AmountArgsAssumption, MaxAmountAssumption
     DEF ContractInv, AdminInv, AdminTypeOK, OtherTypesOK, LifecycleTypeOK, GovernanceInv,
         CapsTypeOK, LedgerInv, Balances, RegistryInv, ComplianceTypeOK

LEMMA TablesTell ==
  /\ \A s \in AssetStatus : AssetStatusReason[s] \in Reports /\ AssetError[s] \in Reports
  /\ \A s \in ComplianceStatus : SenderError[s] \in Reports /\ ReceiverError[s] \in Reports
  BY DEF AssetStatus, AssetStatusReason, AssetError, ComplianceStatus, SenderError,
         ReceiverError, Reports

Verdicts == {"Allowed", "NotInitialized", "MissingIssuanceDuty", "DualDutyConflict",
             "SelfIssuanceForbidden", "ApproverConflict"}

LEMMA IssuanceVerdictIsNamed ==
  ASSUME NEW caller, NEW to
  PROVE  /\ EvaluateIssuance(caller, to) \in Verdicts
         /\ IssuanceError[EvaluateIssuance(caller, to)] \in Reports
<1>1. EvaluateIssuance(caller, to) \in Verdicts
  BY DEF EvaluateIssuance, Verdicts
<1>2. \A v \in Verdicts : IssuanceError[v] \in Reports
  BY DEF Verdicts, IssuanceError, Reports
<1> QED
  BY <1>1, <1>2

LEMMA CapsInOrder ==
  ASSUME NEW cap \in Int, NEW held \in Int, NEW amount \in Int, NEW report \in Reports, NEW ok,
         MaxAmount \in Nat
  PROVE  /\ CapChecks(cap, held, amount, report) \in Seq(Row)
         /\ FirstFailing(CapChecks(cap, held, amount, report), ok) =
                IF cap > 0 /\ Overflows(held, amount) THEN "Trap" ELSE
                IF cap > 0 /\ held + amount > cap THEN report ELSE ok
<1> DEFINE overflow == cap > 0 /\ Overflows(held, amount)
           exceeds  == cap > 0 /\ held + amount > cap
           c1       == Check(overflow, "Trap")
           c2       == Check(exceeds, report)
           chain    == <<c1, c2>>
<1>1. overflow \in BOOLEAN /\ exceeds \in BOOLEAN
  BY DEF Overflows
<1>2. CapChecks(cap, held, amount, report) = chain
  BY DEF CapChecks
<1> HIDE DEF overflow, exceeds
<1>3. /\ c1 \in Row /\ c1.fails = overflow /\ c1.report = "Trap"
      /\ c2 \in Row /\ c2.fails = exceeds /\ c2.report = report
  BY <1>1, LiteralReports, CheckIsRow
<1> HIDE DEF c1, c2
<1>4. chain \in Seq(Row) /\ DOMAIN chain = 1..2 /\ chain[1] = c1 /\ chain[2] = c2
  BY <1>3
<1> HIDE DEF chain
<1>5. FirstFailing(chain, ok) = IF overflow THEN "Trap" ELSE IF exceeds THEN report ELSE ok
  BY <1>3, <1>4, TwoInOrder
<1> QED
  BY <1>2, <1>4, <1>5 DEF overflow, exceeds
-----------------------------------------------------------------------------
(* The transfer. *)

LEMMA TransferReadInOrder ==
  ASSUME ContractInv, NEW from \in Address, NEW to \in Address, NEW amount \in AmountArgs
  PROVE  EvaluateTransfer(from, to, amount) =
            IF paused THEN "ContractPaused" ELSE
            IF amount <= 0 THEN "InvalidAmount" ELSE
            IF assetStatus # "Active" THEN AssetStatusReason[assetStatus] ELSE
            IF status[from] # "Approved" THEN "SenderNotCompliant" ELSE
            IF status[to] # "Approved" THEN "RecipientNotCompliant" ELSE
            IF holdingCap > 0 /\ Overflows(balance[to], amount) THEN "Trap" ELSE
            IF holdingCap > 0 /\ balance[to] + amount > holdingCap
                THEN "HoldingCapExceeded" ELSE
            IF balance[from] < amount THEN "InsufficientBalance" ELSE
            "None"
<1> DEFINE worthless == amount <= 0
           closed == assetStatus # "Active"
           barred == status[from] # "Approved"
           refused == status[to] # "Approved"
           short == balance[from] < amount
           c1 == Check(paused, "ContractPaused")
           c2 == Check(worthless, "InvalidAmount")
           c3 == Check(closed, AssetStatusReason[assetStatus])
           c4 == Check(barred, "SenderNotCompliant")
           c5 == Check(refused, "RecipientNotCompliant")
           c6 == Check(short, "InsufficientBalance")
           parties == <<c1, c2, c3, c4, c5>>
           caps == CapChecks(holdingCap, balance[to], amount, "HoldingCapExceeded")
           funds == <<c6>>
           fromFunds ==
                IF short THEN "InsufficientBalance" ELSE
                "None"
           fromCaps ==
                IF holdingCap > 0 /\ Overflows(balance[to], amount) THEN "Trap" ELSE
                IF holdingCap > 0 /\ balance[to] + amount > holdingCap
                    THEN "HoldingCapExceeded" ELSE
                fromFunds
<1>1. EvaluateTransfer(from, to, amount) = FirstFailing(parties \o caps \o funds, "None")
  BY DEF EvaluateTransfer
<1>2. /\ paused \in BOOLEAN /\ worthless \in BOOLEAN /\ closed \in BOOLEAN /\ barred \in BOOLEAN
      /\ refused \in BOOLEAN /\ short \in BOOLEAN /\ AssetStatusReason[assetStatus] \in Reports
  BY ReadTypes, TablesTell
<1>3. /\ c1 \in Row /\ c1.fails = paused /\ c1.report = "ContractPaused"
      /\ c2 \in Row /\ c2.fails = worthless /\ c2.report = "InvalidAmount"
      /\ c3 \in Row /\ c3.fails = closed /\ c3.report = AssetStatusReason[assetStatus]
      /\ c4 \in Row /\ c4.fails = barred /\ c4.report = "SenderNotCompliant"
      /\ c5 \in Row /\ c5.fails = refused /\ c5.report = "RecipientNotCompliant"
      /\ c6 \in Row /\ c6.fails = short /\ c6.report = "InsufficientBalance"
  <2> HIDE DEF worthless, closed, barred, refused, short
  <2> QED
    BY <1>2, LiteralReports, CheckIsRow
<1> HIDE DEF c1, c2, c3, c4, c5, c6
<1>4. funds \in Seq(Row) /\ FirstFailing(funds, "None") = fromFunds
  <2>1. funds \in Seq(Row) /\ DOMAIN funds = 1..1
    BY <1>3
  <2>2. funds[1] = c6
    OBVIOUS
  <2> HIDE DEF funds, worthless, closed, barred, refused, short
  <2>3. FirstFailing(funds, "None") =
            IF short THEN "InsufficientBalance" ELSE
            "None"
    BY <1>3, <2>1, <2>2, OneInOrder
  <2> QED
    BY <2>1, <2>3 DEF fromFunds
<1>5. caps \in Seq(Row) /\ FirstFailing(caps, fromFunds) = fromCaps
  <2> HIDE DEF fromFunds
  <2>1. holdingCap \in Int /\ balance[to] \in Int /\ amount \in Int /\ MaxAmount \in Nat
    BY ReadTypes
  <2> QED
    BY <2>1, LiteralReports, CapsInOrder
<1>6. parties \in Seq(Row) /\ FirstFailing(parties, fromCaps) = 
            IF paused THEN "ContractPaused" ELSE
            IF worthless THEN "InvalidAmount" ELSE
            IF closed THEN AssetStatusReason[assetStatus] ELSE
            IF barred THEN "SenderNotCompliant" ELSE
            IF refused THEN "RecipientNotCompliant" ELSE
            fromCaps
  <2>1. parties \in Seq(Row) /\ DOMAIN parties = 1..5
    BY <1>3
  <2>2. /\ parties[1] = c1 /\ parties[2] = c2 /\ parties[3] = c3
        /\ parties[4] = c4 /\ parties[5] = c5
    OBVIOUS
  <2> HIDE DEF parties, worthless, closed, barred, refused, short, fromCaps
  <2>3. FirstFailing(parties, fromCaps) =
            IF paused THEN "ContractPaused" ELSE
            IF worthless THEN "InvalidAmount" ELSE
            IF closed THEN AssetStatusReason[assetStatus] ELSE
            IF barred THEN "SenderNotCompliant" ELSE
            IF refused THEN "RecipientNotCompliant" ELSE
            fromCaps
    BY <1>3, <2>1, <2>2, FiveInOrder
  <2> QED
    BY <2>1, <2>3
<1> HIDE DEF parties, caps, funds
<1>7. FirstFailing(parties \o caps \o funds, "None") = FirstFailing(parties, fromCaps)
  <2>1. parties \in Seq(Row) /\ caps \in Seq(Row) /\ funds \in Seq(Row)
    BY <1>4, <1>5, <1>6
  <2>2. FirstFailing(parties \o caps \o funds, "None")
            = FirstFailing(parties, FirstFailing(caps, FirstFailing(funds, "None")))
    BY <2>1, ThreeParts
  <2> HIDE DEF fromFunds, fromCaps
  <2> QED
    BY <2>2, <1>4, <1>5
<1> QED
  BY <1>1, <1>6, <1>7

LEMMA TransferRevertInOrder ==
  ASSUME ContractInv, NEW from \in Address, NEW to \in Address, NEW amount \in AmountArgs
  PROVE  TransferError(from, to, amount) =
            IF paused THEN "ContractPaused" ELSE
            IF amount <= 0 THEN "InvalidAmount" ELSE
            IF assetStatus # "Active" THEN AssetError[assetStatus] ELSE
            IF status[from] # "Approved" THEN SenderError[status[from]] ELSE
            IF status[to] # "Approved" THEN ReceiverError[status[to]] ELSE
            IF holdingCap > 0 /\ Overflows(balance[to], amount) THEN "Trap" ELSE
            IF holdingCap > 0 /\ balance[to] + amount > holdingCap
                THEN "HoldingCapExceeded" ELSE
            IF balance[from] < amount THEN "InsufficientBalance" ELSE
            IF Overflows(Debited(from, amount)[to], amount) THEN "Trap" ELSE
            "Ok"
<1> DEFINE worthless == amount <= 0
           closed == assetStatus # "Active"
           barred == status[from] # "Approved"
           refused == status[to] # "Approved"
           short == balance[from] < amount
           overflow == Overflows(Debited(from, amount)[to], amount)
           c1 == Check(paused, "ContractPaused")
           c2 == Check(worthless, "InvalidAmount")
           c3 == Check(closed, AssetError[assetStatus])
           c4 == Check(barred, SenderError[status[from]])
           c5 == Check(refused, ReceiverError[status[to]])
           c6 == Check(short, "InsufficientBalance")
           c7 == Check(overflow, "Trap")
           parties == <<c1, c2, c3, c4, c5>>
           caps == CapChecks(holdingCap, balance[to], amount, "HoldingCapExceeded")
           funds == <<c6, c7>>
           fromFunds ==
                IF short THEN "InsufficientBalance" ELSE
                IF overflow THEN "Trap" ELSE
                "Ok"
           fromCaps ==
                IF holdingCap > 0 /\ Overflows(balance[to], amount) THEN "Trap" ELSE
                IF holdingCap > 0 /\ balance[to] + amount > holdingCap
                    THEN "HoldingCapExceeded" ELSE
                fromFunds
<1>1. TransferError(from, to, amount) = FirstFailing(parties \o caps \o funds, "Ok")
  BY DEF TransferError
<1>2. /\ paused \in BOOLEAN /\ worthless \in BOOLEAN /\ closed \in BOOLEAN /\ barred \in BOOLEAN
      /\ refused \in BOOLEAN /\ short \in BOOLEAN /\ overflow \in BOOLEAN /\ AssetError[assetStatus] \in Reports
      /\ SenderError[status[from]] \in Reports /\ ReceiverError[status[to]] \in Reports
  BY ReadTypes, TablesTell DEF Overflows
<1>3. /\ c1 \in Row /\ c1.fails = paused /\ c1.report = "ContractPaused"
      /\ c2 \in Row /\ c2.fails = worthless /\ c2.report = "InvalidAmount"
      /\ c3 \in Row /\ c3.fails = closed /\ c3.report = AssetError[assetStatus]
      /\ c4 \in Row /\ c4.fails = barred /\ c4.report = SenderError[status[from]]
      /\ c5 \in Row /\ c5.fails = refused /\ c5.report = ReceiverError[status[to]]
      /\ c6 \in Row /\ c6.fails = short /\ c6.report = "InsufficientBalance"
      /\ c7 \in Row /\ c7.fails = overflow /\ c7.report = "Trap"
  <2> HIDE DEF worthless, closed, barred, refused, short, overflow
  <2> QED
    BY <1>2, LiteralReports, CheckIsRow
<1> HIDE DEF c1, c2, c3, c4, c5, c6, c7
<1>4. funds \in Seq(Row) /\ FirstFailing(funds, "Ok") = fromFunds
  <2>1. funds \in Seq(Row) /\ DOMAIN funds = 1..2
    BY <1>3
  <2>2. funds[1] = c6 /\ funds[2] = c7
    OBVIOUS
  <2> HIDE DEF funds, worthless, closed, barred, refused, short, overflow
  <2>3. FirstFailing(funds, "Ok") =
            IF short THEN "InsufficientBalance" ELSE
            IF overflow THEN "Trap" ELSE
            "Ok"
    BY <1>3, <2>1, <2>2, TwoInOrder
  <2> QED
    BY <2>1, <2>3 DEF fromFunds
<1>5. caps \in Seq(Row) /\ FirstFailing(caps, fromFunds) = fromCaps
  <2> HIDE DEF fromFunds
  <2>1. holdingCap \in Int /\ balance[to] \in Int /\ amount \in Int /\ MaxAmount \in Nat
    BY ReadTypes
  <2> QED
    BY <2>1, LiteralReports, CapsInOrder
<1>6. parties \in Seq(Row) /\ FirstFailing(parties, fromCaps) = 
            IF paused THEN "ContractPaused" ELSE
            IF worthless THEN "InvalidAmount" ELSE
            IF closed THEN AssetError[assetStatus] ELSE
            IF barred THEN SenderError[status[from]] ELSE
            IF refused THEN ReceiverError[status[to]] ELSE
            fromCaps
  <2>1. parties \in Seq(Row) /\ DOMAIN parties = 1..5
    BY <1>3
  <2>2. /\ parties[1] = c1 /\ parties[2] = c2 /\ parties[3] = c3
        /\ parties[4] = c4 /\ parties[5] = c5
    OBVIOUS
  <2> HIDE DEF parties, worthless, closed, barred, refused, short, overflow, fromCaps
  <2>3. FirstFailing(parties, fromCaps) =
            IF paused THEN "ContractPaused" ELSE
            IF worthless THEN "InvalidAmount" ELSE
            IF closed THEN AssetError[assetStatus] ELSE
            IF barred THEN SenderError[status[from]] ELSE
            IF refused THEN ReceiverError[status[to]] ELSE
            fromCaps
    BY <1>3, <2>1, <2>2, FiveInOrder
  <2> QED
    BY <2>1, <2>3
<1> HIDE DEF parties, caps, funds
<1>7. FirstFailing(parties \o caps \o funds, "Ok") = FirstFailing(parties, fromCaps)
  <2>1. parties \in Seq(Row) /\ caps \in Seq(Row) /\ funds \in Seq(Row)
    BY <1>4, <1>5, <1>6
  <2>2. FirstFailing(parties \o caps \o funds, "Ok")
            = FirstFailing(parties, FirstFailing(caps, FirstFailing(funds, "Ok")))
    BY <2>1, ThreeParts
  <2> HIDE DEF fromFunds, fromCaps
  <2> QED
    BY <2>2, <1>4, <1>5
<1> QED
  BY <1>1, <1>6, <1>7

LEMMA TransferVerdict ==
  ASSUME ContractInv, NEW from \in Address, NEW to \in Address, NEW amount \in AmountArgs
  PROVE  EvaluateTransfer(from, to, amount) = "None"
            <=> /\ ~paused /\ amount > 0 /\ assetStatus = "Active"
                /\ status[from] = "Approved" /\ status[to] = "Approved"
                /\ EnforceHoldingCap(balance[to], amount)
                /\ balance[from] >= amount
<1>1. assetStatus # "Active" => AssetStatusReason[assetStatus] # "None"
  BY ReadTypes DEF AssetStatusReason, AssetStatus
<1>2. EnforceHoldingCap(balance[to], amount)
        <=> /\ ~(holdingCap > 0 /\ Overflows(balance[to], amount))
            /\ ~(holdingCap > 0 /\ balance[to] + amount > holdingCap)
  BY ReadTypes DEF EnforceHoldingCap, Overflows
<1>3. /\ ~(amount <= 0) <=> amount > 0
      /\ ~(balance[from] < amount) <=> balance[from] >= amount
  BY ReadTypes
<1> QED
  BY <1>1, <1>2, <1>3, TransferReadInOrder

\* By conservation the credit of a transfer never overflows.
LEMMA CreditNeverOverflows ==
  ASSUME ContractInv, NEW from \in Address, NEW to \in Address, NEW amount \in Int,
         amount > 0, balance[from] >= amount
  PROVE  Debited(from, amount)[to] + amount <= MaxAmount
<1>1. balance \in [Address -> 0..MaxAmount] /\ balance[from] \in Int /\ balance[to] \in Int
  BY MaxAmountAssumption DEF ContractInv, LedgerInv, Balances
<1>2. CASE from = to
  <2>1. Debited(from, amount)[to] = balance[to] - amount
    BY <1>1, <1>2 DEF Debited
  <2> QED
    BY <1>1, <2>1, MaxAmountAssumption
<1>3. CASE from # to
  <2>1. Debited(from, amount)[to] = balance[to]
    BY <1>1, <1>3 DEF Debited
  <2>2. balance[from] + balance[to] <= MaxAmount
    BY <1>3, ConservationBoundsTwo DEF ContractInv
  <2> QED
    BY <1>1, <2>1, <2>2, MaxAmountAssumption
<1> QED
  BY <1>2, <1>3

\* The arithmetic of a transfer refuses nothing more: by conservation a credit
\* never overflows.
LEMMA TransferConditions ==
  ASSUME ContractInv, NEW from \in Address, NEW to \in Address, NEW amount \in Int
  PROVE  CanTransfer(from, to, amount)
            <=> /\ ~paused /\ amount > 0 /\ assetStatus = "Active"
                /\ status[from] = "Approved" /\ status[to] = "Approved"
                /\ EnforceHoldingCap(balance[to], amount)
                /\ balance[from] >= amount
<1> QED
  BY CreditNeverOverflows DEF CanTransfer, RequireNotPaused, RequireAssetMovable, RequireCanSend,
              RequireCanReceive

\* check_transfer_eligibility promises what the transfer does, in every
\* reachable state and for any amount.
THEOREM TransferPreflightIsExact == Spec => []TransferPreflightExact
<1>1. ContractInv => TransferPreflightExact
  <2>1. AmountArgs \subseteq Int
    BY AmountArgsAssumption, MaxAmountAssumption
  <2> QED
    BY <2>1, TransferVerdict, TransferConditions DEF TransferPreflightExact
<1> QED
  BY <1>1, ContractInvariant, PTL

LEMMA SnapshotsCompose ==
  ASSUME ContractInv, NEW from \in Address, NEW to \in Address
  PROVE  LET sender   == InvestorEligibility(from)
             receiver == InvestorEligibility(to)
             able     == sender.can_send /\ receiver.can_receive
         IN  /\ able <=> CanTransfer(from, to, 1)
             /\ \A amount \in AmountArgs :
                    CanTransfer(from, to, amount)
                        <=> /\ able /\ amount \in 1..sender.balance
                            /\ receiver.holding_cap > 0
                                    => amount <= receiver.remaining_capacity
<1> DEFINE mayMove == ~paused /\ assetStatus = "Active"
           sends   == status[from] = "Approved" /\ mayMove /\ balance[from] > 0
           takes   == status[to] = "Approved" /\ mayMove /\ HasHeadroom(to)
<1>1. /\ balance[from] \in 0..MaxAmount /\ balance[to] \in 0..MaxAmount
      /\ holdingCap \in 0..MaxAmount /\ AmountArgs \subseteq Int
  BY AmountArgsAssumption, MaxAmountAssumption
     DEF ContractInv, LedgerInv, Balances, GovernanceInv, CapsTypeOK
<1>2. /\ InvestorEligibility(from).can_send <=> sends
      /\ InvestorEligibility(to).can_receive <=> takes
      /\ InvestorEligibility(from).balance = balance[from]
      /\ InvestorEligibility(to).holding_cap = holdingCap
      /\ InvestorEligibility(to).remaining_capacity = RemainingCapacity(to)
  BY DEF InvestorEligibility
<1>3. sends /\ takes <=> CanTransfer(from, to, 1)
  BY <1>1, TransferConditions, MaxAmountAssumption DEF HasHeadroom, EnforceHoldingCap
<1>4. ASSUME NEW amount \in AmountArgs
      PROVE  CanTransfer(from, to, amount)
                <=> /\ sends /\ takes /\ amount \in 1..balance[from]
                    /\ holdingCap > 0 => amount <= RemainingCapacity(to)
  BY <1>1, <1>4, TransferConditions, MaxAmountAssumption
     DEF HasHeadroom, EnforceHoldingCap, RemainingCapacity
<1> QED
  BY <1>2, <1>3, <1>4

\* The snapshots of two investors, each taken on its own, foretell every
\* transfer between them, a transfer to oneself included.
THEOREM EligibilityAlwaysComposes == Spec => []EligibilityComposes
<1>1. ContractInv => EligibilityComposes
  BY SnapshotsCompose DEF EligibilityComposes
<1> QED
  BY <1>1, ContractInvariant, PTL
-----------------------------------------------------------------------------
(* The mint. *)

LEMMA MintReadInOrder ==
  ASSUME ContractInv, NEW caller \in Address, NEW to \in Address, NEW amount \in AmountArgs
  PROVE  EvaluateMint(caller, to, amount) =
            IF paused THEN "ContractPaused" ELSE
            IF ~MayMint(caller) THEN "UnauthorizedOperation" ELSE
            IF amount <= 0 THEN "InvalidAmount" ELSE
            IF assetStatus # "Active" THEN AssetStatusReason[assetStatus] ELSE
            IF status[to] # "Approved" THEN "RecipientNotCompliant" ELSE
            IF supplyCap > 0 /\ Overflows(totalSupply, amount) THEN "Trap" ELSE
            IF supplyCap > 0 /\ totalSupply + amount > supplyCap THEN "SupplyCapExceeded" ELSE
            IF holdingCap > 0 /\ Overflows(balance[to], amount) THEN "Trap" ELSE
            IF holdingCap > 0 /\ balance[to] + amount > holdingCap
                THEN "HoldingCapExceeded" ELSE
            "None"
<1> DEFINE unfit == ~MayMint(caller)
           worthless == amount <= 0
           closed == assetStatus # "Active"
           refused == status[to] # "Approved"
           c1 == Check(paused, "ContractPaused")
           c2 == Check(unfit, "UnauthorizedOperation")
           c3 == Check(worthless, "InvalidAmount")
           c4 == Check(closed, AssetStatusReason[assetStatus])
           c5 == Check(refused, "RecipientNotCompliant")
           parties == <<c1, c2, c3, c4, c5>>
           supplyCaps == CapChecks(supplyCap, totalSupply, amount, "SupplyCapExceeded")
           holdingCaps == CapChecks(holdingCap, balance[to], amount, "HoldingCapExceeded")
           fromHoldingCaps ==
                IF holdingCap > 0 /\ Overflows(balance[to], amount) THEN "Trap" ELSE
                IF holdingCap > 0 /\ balance[to] + amount > holdingCap
                    THEN "HoldingCapExceeded" ELSE
                "None"
           fromSupplyCaps ==
                IF supplyCap > 0 /\ Overflows(totalSupply, amount) THEN "Trap" ELSE
                IF supplyCap > 0 /\ totalSupply + amount > supplyCap
                    THEN "SupplyCapExceeded" ELSE
                fromHoldingCaps
<1>1. EvaluateMint(caller, to, amount) = FirstFailing(parties \o supplyCaps \o holdingCaps, "None")
  BY DEF EvaluateMint
<1>2. /\ paused \in BOOLEAN /\ unfit \in BOOLEAN /\ worthless \in BOOLEAN /\ closed \in BOOLEAN
      /\ refused \in BOOLEAN /\ AssetStatusReason[assetStatus] \in Reports
  BY ReadTypes, TablesTell DEF MayMint, RequireRole
<1>3. /\ c1 \in Row /\ c1.fails = paused /\ c1.report = "ContractPaused"
      /\ c2 \in Row /\ c2.fails = unfit /\ c2.report = "UnauthorizedOperation"
      /\ c3 \in Row /\ c3.fails = worthless /\ c3.report = "InvalidAmount"
      /\ c4 \in Row /\ c4.fails = closed /\ c4.report = AssetStatusReason[assetStatus]
      /\ c5 \in Row /\ c5.fails = refused /\ c5.report = "RecipientNotCompliant"
  <2> HIDE DEF unfit, worthless, closed, refused
  <2> QED
    BY <1>2, LiteralReports, CheckIsRow
<1> HIDE DEF c1, c2, c3, c4, c5
<1>4. holdingCaps \in Seq(Row) /\ FirstFailing(holdingCaps, "None") = fromHoldingCaps
  <2>1. holdingCap \in Int /\ balance[to] \in Int /\ amount \in Int /\ MaxAmount \in Nat
    BY ReadTypes
  <2> QED
    BY <2>1, LiteralReports, CapsInOrder
<1>5. supplyCaps \in Seq(Row) /\ FirstFailing(supplyCaps, fromHoldingCaps) = fromSupplyCaps
  <2> HIDE DEF fromHoldingCaps
  <2>1. supplyCap \in Int /\ totalSupply \in Int /\ amount \in Int /\ MaxAmount \in Nat
    BY ReadTypes
  <2> QED
    BY <2>1, LiteralReports, CapsInOrder
<1>6. parties \in Seq(Row) /\ FirstFailing(parties, fromSupplyCaps) = 
            IF paused THEN "ContractPaused" ELSE
            IF unfit THEN "UnauthorizedOperation" ELSE
            IF worthless THEN "InvalidAmount" ELSE
            IF closed THEN AssetStatusReason[assetStatus] ELSE
            IF refused THEN "RecipientNotCompliant" ELSE
            fromSupplyCaps
  <2>1. parties \in Seq(Row) /\ DOMAIN parties = 1..5
    BY <1>3
  <2>2. /\ parties[1] = c1 /\ parties[2] = c2 /\ parties[3] = c3
        /\ parties[4] = c4 /\ parties[5] = c5
    OBVIOUS
  <2> HIDE DEF parties, unfit, worthless, closed, refused, fromSupplyCaps
  <2>3. FirstFailing(parties, fromSupplyCaps) =
            IF paused THEN "ContractPaused" ELSE
            IF unfit THEN "UnauthorizedOperation" ELSE
            IF worthless THEN "InvalidAmount" ELSE
            IF closed THEN AssetStatusReason[assetStatus] ELSE
            IF refused THEN "RecipientNotCompliant" ELSE
            fromSupplyCaps
    BY <1>3, <2>1, <2>2, FiveInOrder
  <2> QED
    BY <2>1, <2>3
<1> HIDE DEF parties, supplyCaps, holdingCaps
<1>7. FirstFailing(parties \o supplyCaps \o holdingCaps, "None") = FirstFailing(parties, fromSupplyCaps)
  <2>1. parties \in Seq(Row) /\ supplyCaps \in Seq(Row) /\ holdingCaps \in Seq(Row)
    BY <1>4, <1>5, <1>6
  <2>2. FirstFailing(parties \o supplyCaps \o holdingCaps, "None")
            = FirstFailing(parties, FirstFailing(supplyCaps, FirstFailing(holdingCaps, "None")))
    BY <2>1, ThreeParts
  <2> HIDE DEF fromHoldingCaps, fromSupplyCaps
  <2> QED
    BY <2>2, <1>4, <1>5
<1> QED
  BY <1>1, <1>6, <1>7

LEMMA MintRevertInOrder ==
  ASSUME ContractInv, NEW caller \in Address, NEW to \in Address, NEW amount \in AmountArgs
  PROVE  MintError(caller, to, amount) =
            IF paused THEN "ContractPaused" ELSE
            IF admin = NoAddress THEN "NotInitialized" ELSE
            IF ~RequireRole(caller, "AssetManager") THEN "Unauthorized" ELSE
            IF ~RequireIssuanceAuthority(caller, to)
                THEN IssuanceError[EvaluateIssuance(caller, to)] ELSE
            IF amount <= 0 THEN "InvalidAmount" ELSE
            IF assetStatus # "Active" THEN AssetError[assetStatus] ELSE
            IF status[to] # "Approved" THEN ReceiverError[status[to]] ELSE
            IF supplyCap > 0 /\ Overflows(totalSupply, amount) THEN "Trap" ELSE
            IF supplyCap > 0 /\ totalSupply + amount > supplyCap THEN "SupplyCapExceeded" ELSE
            IF holdingCap > 0 /\ Overflows(balance[to], amount) THEN "Trap" ELSE
            IF holdingCap > 0 /\ balance[to] + amount > holdingCap
                THEN "HoldingCapExceeded" ELSE
            IF Overflows(balance[to], amount) \/ Overflows(totalSupply, amount) THEN "Trap" ELSE
            "Ok"
<1> DEFINE ownerless == admin = NoAddress
           unfit == ~RequireRole(caller, "AssetManager")
           conflicted == ~RequireIssuanceAuthority(caller, to)
           worthless == amount <= 0
           closed == assetStatus # "Active"
           refused == status[to] # "Approved"
           overflow == Overflows(balance[to], amount) \/ Overflows(totalSupply, amount)
           c1 == Check(paused, "ContractPaused")
           c2 == Check(ownerless, "NotInitialized")
           c3 == Check(unfit, "Unauthorized")
           c4 == Check(conflicted, IssuanceError[EvaluateIssuance(caller, to)])
           c5 == Check(worthless, "InvalidAmount")
           c6 == Check(closed, AssetError[assetStatus])
           c7 == Check(refused, ReceiverError[status[to]])
           c8 == Check(overflow, "Trap")
           parties == <<c1, c2, c3, c4, c5, c6, c7>>
           supplyCaps == CapChecks(supplyCap, totalSupply, amount, "SupplyCapExceeded")
           holdingCaps == CapChecks(holdingCap, balance[to], amount, "HoldingCapExceeded")
           sums == <<c8>>
           fromSums ==
                IF overflow THEN "Trap" ELSE
                "Ok"
           fromHoldingCaps ==
                IF holdingCap > 0 /\ Overflows(balance[to], amount) THEN "Trap" ELSE
                IF holdingCap > 0 /\ balance[to] + amount > holdingCap
                    THEN "HoldingCapExceeded" ELSE
                fromSums
           fromSupplyCaps ==
                IF supplyCap > 0 /\ Overflows(totalSupply, amount) THEN "Trap" ELSE
                IF supplyCap > 0 /\ totalSupply + amount > supplyCap
                    THEN "SupplyCapExceeded" ELSE
                fromHoldingCaps
<1>1. MintError(caller, to, amount) = FirstFailing(parties \o supplyCaps \o holdingCaps \o sums, "Ok")
  BY DEF MintError
<1>2. /\ paused \in BOOLEAN /\ ownerless \in BOOLEAN /\ unfit \in BOOLEAN /\ conflicted \in BOOLEAN
      /\ worthless \in BOOLEAN /\ closed \in BOOLEAN /\ refused \in BOOLEAN /\ overflow \in BOOLEAN
      /\ IssuanceError[EvaluateIssuance(caller, to)] \in Reports /\ AssetError[assetStatus] \in Reports /\ ReceiverError[status[to]] \in Reports
  BY ReadTypes, TablesTell, IssuanceVerdictIsNamed
     DEF RequireRole, RequireIssuanceAuthority, Overflows
<1>3. /\ c1 \in Row /\ c1.fails = paused /\ c1.report = "ContractPaused"
      /\ c2 \in Row /\ c2.fails = ownerless /\ c2.report = "NotInitialized"
      /\ c3 \in Row /\ c3.fails = unfit /\ c3.report = "Unauthorized"
      /\ c4 \in Row /\ c4.fails = conflicted /\ c4.report = IssuanceError[EvaluateIssuance(caller, to)]
      /\ c5 \in Row /\ c5.fails = worthless /\ c5.report = "InvalidAmount"
      /\ c6 \in Row /\ c6.fails = closed /\ c6.report = AssetError[assetStatus]
      /\ c7 \in Row /\ c7.fails = refused /\ c7.report = ReceiverError[status[to]]
      /\ c8 \in Row /\ c8.fails = overflow /\ c8.report = "Trap"
  <2> HIDE DEF ownerless, unfit, conflicted, worthless, closed, refused, overflow
  <2> QED
    BY <1>2, LiteralReports, CheckIsRow
<1> HIDE DEF c1, c2, c3, c4, c5, c6, c7, c8
<1>4. sums \in Seq(Row) /\ FirstFailing(sums, "Ok") = fromSums
  <2>1. sums \in Seq(Row) /\ DOMAIN sums = 1..1
    BY <1>3
  <2>2. sums[1] = c8
    OBVIOUS
  <2> HIDE DEF sums, ownerless, unfit, conflicted, worthless, closed, refused, overflow
  <2>3. FirstFailing(sums, "Ok") =
            IF overflow THEN "Trap" ELSE
            "Ok"
    BY <1>3, <2>1, <2>2, OneInOrder
  <2> QED
    BY <2>1, <2>3 DEF fromSums
<1>5. holdingCaps \in Seq(Row) /\ FirstFailing(holdingCaps, fromSums) = fromHoldingCaps
  <2> HIDE DEF fromSums
  <2>1. holdingCap \in Int /\ balance[to] \in Int /\ amount \in Int /\ MaxAmount \in Nat
    BY ReadTypes
  <2> QED
    BY <2>1, LiteralReports, CapsInOrder
<1>6. supplyCaps \in Seq(Row) /\ FirstFailing(supplyCaps, fromHoldingCaps) = fromSupplyCaps
  <2> HIDE DEF fromHoldingCaps
  <2>1. supplyCap \in Int /\ totalSupply \in Int /\ amount \in Int /\ MaxAmount \in Nat
    BY ReadTypes
  <2> QED
    BY <2>1, LiteralReports, CapsInOrder
<1>7. parties \in Seq(Row) /\ FirstFailing(parties, fromSupplyCaps) = 
            IF paused THEN "ContractPaused" ELSE
            IF ownerless THEN "NotInitialized" ELSE
            IF unfit THEN "Unauthorized" ELSE
            IF conflicted THEN IssuanceError[EvaluateIssuance(caller, to)] ELSE
            IF worthless THEN "InvalidAmount" ELSE
            IF closed THEN AssetError[assetStatus] ELSE
            IF refused THEN ReceiverError[status[to]] ELSE
            fromSupplyCaps
  <2>1. parties \in Seq(Row) /\ DOMAIN parties = 1..7
    BY <1>3
  <2>2. /\ parties[1] = c1 /\ parties[2] = c2 /\ parties[3] = c3
        /\ parties[4] = c4 /\ parties[5] = c5 /\ parties[6] = c6
        /\ parties[7] = c7
    OBVIOUS
  <2> HIDE DEF parties, ownerless, unfit, conflicted, worthless, closed, refused, overflow, fromSupplyCaps
  <2>3. FirstFailing(parties, fromSupplyCaps) =
            IF paused THEN "ContractPaused" ELSE
            IF ownerless THEN "NotInitialized" ELSE
            IF unfit THEN "Unauthorized" ELSE
            IF conflicted THEN IssuanceError[EvaluateIssuance(caller, to)] ELSE
            IF worthless THEN "InvalidAmount" ELSE
            IF closed THEN AssetError[assetStatus] ELSE
            IF refused THEN ReceiverError[status[to]] ELSE
            fromSupplyCaps
    BY <1>3, <2>1, <2>2, SevenInOrder
  <2> QED
    BY <2>1, <2>3
<1> HIDE DEF parties, supplyCaps, holdingCaps, sums
<1>8. FirstFailing(parties \o supplyCaps \o holdingCaps \o sums, "Ok") = FirstFailing(parties, fromSupplyCaps)
  <2>1. parties \in Seq(Row) /\ supplyCaps \in Seq(Row) /\ holdingCaps \in Seq(Row) /\ sums \in Seq(Row)
    BY <1>4, <1>5, <1>6, <1>7
  <2>2. FirstFailing(parties \o supplyCaps \o holdingCaps \o sums, "Ok")
            = FirstFailing(parties, FirstFailing(supplyCaps, FirstFailing(holdingCaps, FirstFailing(sums, "Ok"))))
    BY <2>1, FourParts
  <2> HIDE DEF fromSums, fromHoldingCaps, fromSupplyCaps
  <2> QED
    BY <2>2, <1>4, <1>5, <1>6
<1> QED
  BY <1>1, <1>7, <1>8

LEMMA MintVerdict ==
  ASSUME ContractInv, NEW caller \in Address, NEW to \in Address, NEW amount \in AmountArgs
  PROVE  EvaluateMint(caller, to, amount) = "None"
            <=> /\ ~paused /\ RequireRole(caller, "AssetManager")
                /\ amount > 0 /\ assetStatus = "Active" /\ status[to] = "Approved"
                /\ EnforceSupplyCap(totalSupply, amount)
                /\ EnforceHoldingCap(balance[to], amount)
<1>1. assetStatus # "Active" => AssetStatusReason[assetStatus] # "None"
  BY ReadTypes DEF AssetStatusReason, AssetStatus
<1>2. EnforceSupplyCap(totalSupply, amount)
        <=> /\ ~(supplyCap > 0 /\ Overflows(totalSupply, amount))
            /\ ~(supplyCap > 0 /\ totalSupply + amount > supplyCap)
  BY ReadTypes DEF EnforceSupplyCap, Overflows
<1>3. EnforceHoldingCap(balance[to], amount)
        <=> /\ ~(holdingCap > 0 /\ Overflows(balance[to], amount))
            /\ ~(holdingCap > 0 /\ balance[to] + amount > holdingCap)
  BY ReadTypes DEF EnforceHoldingCap, Overflows
<1>4. ~(amount <= 0) <=> amount > 0
  BY ReadTypes
<1>5. ~~MayMint(caller) <=> RequireRole(caller, "AssetManager")
  BY DEF MayMint
<1> QED
  BY <1>1, <1>2, <1>3, <1>4, <1>5, MintReadInOrder

\* What one holder has is part of the supply.
LEMMA ConservationBoundsOne ==
  ASSUME LedgerInv, NEW a \in Address
  PROVE  balance[a] <= totalSupply
<1> DEFINE held == Block(a, 1, balance[a])
<1>1. balance[a] \in 0..MaxAmount
  BY DEF LedgerInv, Balances
<1>2. IsFiniteSet(held) /\ Cardinality(held) = balance[a]
  BY <1>1, MaxAmountAssumption, BlockSize
<1>3. held \in SUBSET UnitsOf(balance)
  BY <1>1, MaxAmountAssumption DEF Block, UnitsOf
<1> HIDE DEF held
<1>4. Cardinality(held) <= Cardinality(UnitsOf(balance))
  BY <1>3, UnitsAreFinite, FS_Subset
<1> QED
  BY <1>2, <1>4 DEF LedgerInv, Conservation

LEMMA MintConditions ==
  ASSUME ContractInv, NEW caller \in Address, NEW to \in Address, NEW amount \in AmountArgs
  PROVE  (/\ EvaluateMint(caller, to, amount) = "None"
          /\ EvaluateIssuance(caller, to) = "Allowed"
          /\ ~Overflows(totalSupply, amount))
            <=> CanMint(caller, to, amount)
<1>1. /\ amount \in Int /\ totalSupply \in Int /\ balance[to] \in Int /\ MaxAmount \in Int
      /\ balance[to] <= totalSupply
  BY AmountArgsAssumption, MaxAmountAssumption, ConservationBoundsOne
     DEF ContractInv, LedgerInv, Balances
<1>2. ~Overflows(totalSupply, amount)
        <=> balance[to] + amount <= MaxAmount /\ totalSupply + amount <= MaxAmount
  BY <1>1 DEF Overflows
<1> QED
  BY <1>2, MintVerdict
     DEF CanMint, RequireNotPaused, RequireIssuanceAuthority, RequireAssetMovable,
         RequireCanReceive

\* The two reads a minter combines foretell the mint, up to the overflow of the
\* supply: that of the receiver's balance, which no read looks at either, is
\* already behind it.
THEOREM MintPreflightsAreExact == Spec => []MintPreflightsTogetherExact
<1>1. ContractInv => MintPreflightsTogetherExact
  BY MintConditions DEF MintPreflightsTogetherExact
<1> QED
  BY <1>1, ContractInvariant, PTL
-----------------------------------------------------------------------------
(* What a read says and what the submission reverts with. *)

LEMMA AssetReasons ==
  \A s \in AssetStatus : s # "Active" =>
      /\ AssetStatusReason[s] \notin {"None", "SenderNotCompliant", "RecipientNotCompliant"}
      /\ ErrorForReason[AssetStatusReason[s]] = AssetError[s]
      /\ ReasonForError(AssetError[s]) = AssetStatusReason[s]
  BY DEF AssetStatus, AssetStatusReason, AssetError, ErrorForReason, ReasonForError

LEMMA PartyReasons ==
  \A s \in ComplianceStatus : s # "Approved" =>
      /\ ReasonForError(SenderError[s]) \in {"NoReason", "SenderNotCompliant"}
      /\ ReasonForError(ReceiverError[s]) \in {"NoReason", "RecipientNotCompliant"}
  BY DEF ComplianceStatus, SenderError, ReceiverError, ReasonForError

LEMMA OtherReasons ==
  /\ \A reason \in {"ContractPaused", "InvalidAmount", "HoldingCapExceeded",
                     "SupplyCapExceeded", "InsufficientBalance"} :
        ErrorForReason[reason] = reason /\ ReasonForError(reason) = reason
  /\ ErrorForReason["Trap"] = "Trap" /\ ErrorForReason["None"] = "Ok"
  /\ ReasonForError("Trap") = "NoReason" /\ ReasonForError("Ok") = "NoReason"
  /\ ReasonForError("Unauthorized") = "UnauthorizedOperation"
  /\ ReasonForError("NotInitialized") = "NoReason"
  /\ \A v \in {"DualDutyConflict", "SelfIssuanceForbidden", "ApproverConflict"} :
        ReasonForError(IssuanceError[v]) = "NoReason"
  BY DEF ErrorForReason, ReasonForError, IssuanceError

\* Both look at the same things in the same order, and the one check the read
\* does not make never fails.
LEMMA TransferTold ==
  ASSUME ContractInv, NEW from \in Address, NEW to \in Address, NEW amount \in AmountArgs
  PROVE  LET reason == EvaluateTransfer(from, to, amount)
             error  == TransferError(from, to, amount)
         IN  \/ /\ reason = "SenderNotCompliant" /\ status[from] # "Approved"
                /\ error = SenderError[status[from]]
             \/ /\ reason = "RecipientNotCompliant" /\ status[to] # "Approved"
                /\ error = ReceiverError[status[to]]
             \/ /\ reason \notin {"SenderNotCompliant", "RecipientNotCompliant"}
                /\ error = ErrorForReason[reason]
                /\ ReasonForError(error) \in {"NoReason", reason}
<1>1. /\ amount \in Int /\ balance[from] \in Int /\ balance[to] \in Int /\ MaxAmount \in Int
      /\ assetStatus \in AssetStatus
  BY ReadTypes
<1>2. amount > 0 /\ balance[from] >= amount => ~Overflows(Debited(from, amount)[to], amount)
  <2> SUFFICES ASSUME amount > 0, balance[from] >= amount
               PROVE  ~(Debited(from, amount)[to] + amount > MaxAmount)
    BY DEF Overflows
  <2>1. Debited(from, amount) \in [Address -> Int]
    BY <1>1 DEF Debited, ContractInv, LedgerInv, Balances
  <2>2. Debited(from, amount)[to] + amount <= MaxAmount
    BY <1>1, CreditNeverOverflows
  <2> QED
    BY <1>1, <2>1, <2>2
<1>3. /\ ~(amount <= 0) => amount > 0
      /\ ~(balance[from] < amount) => balance[from] >= amount
  BY <1>1
<1> DEFINE closed == assetStatus # "Active"
           trapped == holdingCap > 0 /\ Overflows(balance[to], amount)
           exceeds == holdingCap > 0 /\ balance[to] + amount > holdingCap
           short == balance[from] < amount
<1>4. CASE paused \/ amount <= 0
  BY <1>4, TransferReadInOrder, TransferRevertInOrder, OtherReasons
<1>5. CASE ~paused /\ ~(amount <= 0) /\ closed
  BY <1>1, <1>5, TransferReadInOrder, TransferRevertInOrder, AssetReasons
<1>6. CASE ~paused /\ ~(amount <= 0) /\ ~closed
           /\ (status[from] # "Approved" \/ status[to] # "Approved")
  BY <1>6, TransferReadInOrder, TransferRevertInOrder
<1>7. CASE ~paused /\ ~(amount <= 0) /\ ~closed
           /\ ~(status[from] # "Approved") /\ ~(status[to] # "Approved")
  <2> HIDE DEF trapped, exceeds, short
  <2>1. EvaluateTransfer(from, to, amount) =
            IF trapped THEN "Trap" ELSE
            IF exceeds THEN "HoldingCapExceeded" ELSE
            IF short THEN "InsufficientBalance" ELSE "None"
    BY <1>7, TransferReadInOrder DEF trapped, exceeds, short
  <2>2. TransferError(from, to, amount) =
            IF trapped THEN "Trap" ELSE
            IF exceeds THEN "HoldingCapExceeded" ELSE
            IF short THEN "InsufficientBalance" ELSE "Ok"
    BY <1>2, <1>3, <1>7, TransferRevertInOrder DEF trapped, exceeds, short
  <2> QED
    BY <2>1, <2>2, OtherReasons
<1> QED
  BY <1>4, <1>5, <1>6, <1>7

\* The restriction of a transfer names the error the transfer reverts with, up
\* to the three an unapproved party can cause, in every reachable state.
THEOREM TransferReasonIsFollowed == Spec => []TransferReasonFollowsRevert
<1>1. ContractInv => TransferReasonFollowsRevert
  BY TransferTold DEF TransferReasonFollowsRevert
<1> QED
  BY <1>1, ContractInvariant, PTL

\* Whoever has the role and is refused the issuance is refused over the policy.
LEMMA RefusedOverPolicy ==
  ASSUME ContractInv, NEW caller \in Address, NEW to, admin # NoAddress,
         RequireRole(caller, "AssetManager"), ~RequireIssuanceAuthority(caller, to)
  PROVE  EvaluateIssuance(caller, to)
            \in {"DualDutyConflict", "SelfIssuanceForbidden", "ApproverConflict"}
<1>1. "Issuance" \in Duties[EffectiveRole(caller)]
  BY DutiesOf DEF ContractInv
<1> QED
  BY <1>1 DEF RequireIssuanceAuthority, EvaluateIssuance

LEMMA MintNotMisread ==
  ASSUME ContractInv, NEW caller \in Address, NEW to \in Address, NEW amount \in AmountArgs
  PROVE  ReasonForError(MintError(caller, to, amount))
            \in {"NoReason", EvaluateMint(caller, to, amount)}
<1> DEFINE unfit == ~RequireRole(caller, "AssetManager")
           conflicted == ~RequireIssuanceAuthority(caller, to)
           closed == assetStatus # "Active"
           refused == status[to] # "Approved"
           supplyTrap == supplyCap > 0 /\ Overflows(totalSupply, amount)
           supplyExceeds == supplyCap > 0 /\ totalSupply + amount > supplyCap
           holdingTrap == holdingCap > 0 /\ Overflows(balance[to], amount)
           holdingExceeds == holdingCap > 0 /\ balance[to] + amount > holdingCap
           overflow == Overflows(balance[to], amount) \/ Overflows(totalSupply, amount)
<1>1. /\ assetStatus \in AssetStatus /\ status[to] \in ComplianceStatus
      /\ ~MayMint(caller) <=> unfit
  BY ReadTypes DEF MayMint
<1>2. EvaluateMint(caller, to, amount) =
            IF paused THEN "ContractPaused" ELSE
            IF unfit THEN "UnauthorizedOperation" ELSE
            IF amount <= 0 THEN "InvalidAmount" ELSE
            IF closed THEN AssetStatusReason[assetStatus] ELSE
            IF refused THEN "RecipientNotCompliant" ELSE
            IF supplyTrap THEN "Trap" ELSE
            IF supplyExceeds THEN "SupplyCapExceeded" ELSE
            IF holdingTrap THEN "Trap" ELSE
            IF holdingExceeds THEN "HoldingCapExceeded" ELSE
            "None"
  BY <1>1, MintReadInOrder
<1>3. MintError(caller, to, amount) =
            IF paused THEN "ContractPaused" ELSE
            IF admin = NoAddress THEN "NotInitialized" ELSE
            IF unfit THEN "Unauthorized" ELSE
            IF conflicted THEN IssuanceError[EvaluateIssuance(caller, to)] ELSE
            IF amount <= 0 THEN "InvalidAmount" ELSE
            IF closed THEN AssetError[assetStatus] ELSE
            IF refused THEN ReceiverError[status[to]] ELSE
            IF supplyTrap THEN "Trap" ELSE
            IF supplyExceeds THEN "SupplyCapExceeded" ELSE
            IF holdingTrap THEN "Trap" ELSE
            IF holdingExceeds THEN "HoldingCapExceeded" ELSE
            IF overflow THEN "Trap" ELSE
            "Ok"
  BY MintRevertInOrder
<1>4. admin # NoAddress /\ ~unfit /\ conflicted
        => ReasonForError(IssuanceError[EvaluateIssuance(caller, to)]) = "NoReason"
  BY RefusedOverPolicy, OtherReasons
<1>5. closed => ReasonForError(AssetError[assetStatus]) = AssetStatusReason[assetStatus]
  BY <1>1, AssetReasons
<1>6. refused => ReasonForError(ReceiverError[status[to]]) \in {"NoReason", "RecipientNotCompliant"}
  BY <1>1, PartyReasons
<1> HIDE DEF unfit, conflicted, closed, refused, supplyTrap, supplyExceeds, holdingTrap,
             holdingExceeds, overflow
<1> QED
  BY <1>2, <1>3, <1>4, <1>5, <1>6, OtherReasons, SMTT(60)

\* No error of a transfer or a mint is read back as a restriction the read
\* would not have given, in every reachable state and for any amount.
THEOREM RevertsAreNeverMisread == Spec => []RevertNeverMisread
<1>1. ContractInv => RevertNeverMisread
  <2> SUFFICES ASSUME ContractInv, NEW from \in Address, NEW to \in Address,
                      NEW amount \in AmountArgs
               PROVE  ReasonForError(TransferError(from, to, amount))
                        \in {"NoReason", EvaluateTransfer(from, to, amount)}
    BY MintNotMisread DEF RevertNeverMisread
  <2>1. status[from] \in ComplianceStatus /\ status[to] \in ComplianceStatus
    BY ReadTypes
  <2> QED
    BY <2>1, TransferTold, PartyReasons
<1> QED
  BY <1>1, ContractInvariant, PTL

LEMMA RefusalsTold ==
  ASSUME ContractInv, NEW caller \in Address, NEW to \in Address, NEW amount \in AmountArgs
  PROVE  LET report == CheckIssuance(caller, to)
             error  == MintError(caller, to, amount)
             refusals == {IssuanceError[reason] : reason \in DOMAIN IssuanceError \ {"Allowed"}}
         IN  IF paused THEN error = "ContractPaused"
             ELSE IF report.allowed THEN error \notin refusals
             ELSE error = report.error_code
<1> DEFINE verdict == EvaluateIssuance(caller, to)
           refusals == {"NotInitialized", "Unauthorized", "IssuanceDutyConflict",
                        "SelfIssuanceForbidden", "IssuanceApproverConflict"}
<1>1. {IssuanceError[reason] : reason \in DOMAIN IssuanceError \ {"Allowed"}} = refusals
  BY DEF IssuanceError
<1>2. /\ CheckIssuance(caller, to).allowed <=> verdict = "Allowed"
      /\ CheckIssuance(caller, to).error_code = IssuanceError[verdict]
  BY DEF CheckIssuance
<1>3. CASE paused
  BY <1>3, MintRevertInOrder
<1>4. CASE ~paused /\ verdict # "Allowed"
  <2>1. MintError(caller, to, amount) = IssuanceError[verdict]
    <3>1. CASE admin = NoAddress
      BY <1>4, <3>1, MintRevertInOrder DEF EvaluateIssuance, IssuanceError
    <3>2. CASE admin # NoAddress /\ ~RequireRole(caller, "AssetManager")
      <4>1. "Issuance" \notin Duties[EffectiveRole(caller)]
        BY <3>2, DutiesOf DEF ContractInv
      <4>2. verdict = "MissingIssuanceDuty"
        BY <3>2, <4>1 DEF EvaluateIssuance
      <4> QED
        BY <1>4, <3>2, <4>2, MintRevertInOrder DEF IssuanceError
    <3>3. CASE admin # NoAddress /\ RequireRole(caller, "AssetManager")
      BY <1>4, <3>3, MintRevertInOrder DEF RequireIssuanceAuthority
    <3> QED
      BY <3>1, <3>2, <3>3
  <2> QED
    BY <1>2, <1>4, <2>1
<1>5. CASE ~paused /\ verdict = "Allowed"
  <2>1. admin # NoAddress /\ RequireIssuanceAuthority(caller, to)
    BY <1>5 DEF EvaluateIssuance, RequireIssuanceAuthority
  <2>2. RequireRole(caller, "AssetManager")
    <3>1. "Issuance" \in Duties[EffectiveRole(caller)]
      BY <1>5 DEF EvaluateIssuance
    <3> QED
      BY <3>1, DutiesOf DEF ContractInv
  <2>3. MintError(caller, to, amount) \notin refusals
    <3>1. /\ AssetError[assetStatus] \notin refusals
          /\ ReceiverError[status[to]] \notin refusals
      BY ReadTypes DEF AssetStatus, AssetError, ComplianceStatus, ReceiverError
    <3> HIDE DEF verdict
    <3> QED
      BY <1>5, <2>1, <2>2, <3>1, MintRevertInOrder, SMTT(60)
  <2> QED
    BY <1>1, <1>2, <1>5, <2>3
<1> QED
  BY <1>3, <1>4, <1>5

LEMMA ConflictsExplained ==
  ASSUME NEW caller \in Address, NEW to \in Address
  PROVE  LET report == CheckIssuance(caller, to)
         IN  /\ report.reason = "ApproverConflict" => report.recipient_approver = caller
             /\ report.reason = "DualDutyConflict" =>
                    {"Compliance", "Issuance"} \subseteq report.caller_duties
  BY DEF CheckIssuance, EvaluateIssuance

\* The separation report gives the code a mint is refused with, whatever the
\* amount, and what it lets pass is not refused over authority.
THEOREM IssuanceReportIsExact == Spec => []IssuanceReportExact
<1>1. ContractInv => IssuanceReportExact
  BY RefusalsTold, ConflictsExplained DEF IssuanceReportExact
<1> QED
  BY <1>1, ContractInvariant, PTL
-----------------------------------------------------------------------------
(* What the switches of the descriptor say of the submissions. *)

AssetErrors == {"AssetPausedRestriction", "AssetRetiredRestriction", "AssetBlockedRestriction"}

PolicyErrors == {"IssuanceDutyConflict", "SelfIssuanceForbidden", "IssuanceApproverConflict"}

\* The errors that the switches speak of.
SwitchErrors ==
    AssetErrors \cup PolicyErrors
        \cup {"Ok", "ContractPaused", "NotInitialized", "SupplyCapExceeded", "HoldingCapExceeded"}

\* Each table reports the errors of its own control, and none it passes over.
LEMMA TablesKeepApart ==
  /\ \A s \in AssetStatus : s # "Active" => AssetError[s] \in AssetErrors
  /\ \A s \in ComplianceStatus :
        s # "Approved" => SenderError[s] \notin SwitchErrors /\ ReceiverError[s] \notin SwitchErrors
  /\ \A v \in Verdicts :
        /\ v # "Allowed" => IssuanceError[v] # "Ok"
        /\ IssuanceError[v] \notin AssetErrors
                \cup {"ContractPaused", "SupplyCapExceeded", "HoldingCapExceeded"}
        /\ v # "NotInitialized" => IssuanceError[v] # "NotInitialized"
        /\ v \in {"NotInitialized", "MissingIssuanceDuty"} => IssuanceError[v] \notin PolicyErrors
  BY DEF AssetStatus, AssetError, ComplianceStatus, SenderError, ReceiverError, Verdicts,
         IssuanceError, AssetErrors, PolicyErrors, SwitchErrors

LEMMA TransferSwitches ==
  ASSUME ContractInv, NEW from \in Address, NEW to \in Address, NEW amount \in AmountArgs
  PROVE  LET error == TransferError(from, to, amount)
         IN  /\ error = "ContractPaused" <=> paused
             /\ assetStatus = "Active" => error \notin AssetErrors
             /\ assetStatus # "Active" => error # "Ok"
             /\ ~(holdingCap > 0) => error # "HoldingCapExceeded"
             /\ holdingCap > 0 /\ balance[to] + amount > holdingCap => error # "Ok"
<1> DEFINE closed == assetStatus # "Active"
           barred == status[from] # "Approved"
           refused == status[to] # "Approved"
           overflow == Overflows(Debited(from, amount)[to], amount)
           capped == holdingCap > 0
           trapped == capped /\ Overflows(balance[to], amount)
           exceeds == capped /\ balance[to] + amount > holdingCap
           short == balance[from] < amount
<1>1. TransferError(from, to, amount) =
            IF paused THEN "ContractPaused" ELSE
            IF amount <= 0 THEN "InvalidAmount" ELSE
            IF closed THEN AssetError[assetStatus] ELSE
            IF barred THEN SenderError[status[from]] ELSE
            IF refused THEN ReceiverError[status[to]] ELSE
            IF trapped THEN "Trap" ELSE
            IF exceeds THEN "HoldingCapExceeded" ELSE
            IF short THEN "InsufficientBalance" ELSE
            IF overflow THEN "Trap" ELSE
            "Ok"
  BY TransferRevertInOrder
<1>2. /\ closed => AssetError[assetStatus] \in AssetErrors
      /\ barred => SenderError[status[from]] \notin SwitchErrors
      /\ refused => ReceiverError[status[to]] \notin SwitchErrors
  BY ReadTypes, TablesKeepApart
<1>3. ~capped => ~exceeds
  OBVIOUS
<1> DEFINE error == TransferError(from, to, amount)
<1>4. /\ error = "ContractPaused" <=> paused
      /\ ~closed => error \notin AssetErrors
      /\ closed => error # "Ok"
      /\ ~capped => error # "HoldingCapExceeded"
      /\ exceeds => error # "Ok"
  <2> HIDE DEF closed, barred, refused, overflow, capped, trapped, exceeds, short
  <2> QED
    BY <1>1, <1>2, <1>3, SMTT(60) DEF AssetErrors, SwitchErrors, PolicyErrors
<1> QED
  BY <1>4

\* Whom an enforced policy forbids to issue, the issuance guard refuses; that
\* a clearing officer has the duty the guard asks about rests on the duty table.
LEMMA ForbiddenIsRefused ==
  ASSUME ContractInv, NEW caller \in Address, NEW to \in Address,
         policy.enforced, ForbiddenByPolicy(caller, to)
  PROVE  EvaluateIssuance(caller, to) # "Allowed"
<1> SUFFICES ASSUME EvaluateIssuance(caller, to) = "Allowed"
             PROVE  FALSE
  OBVIOUS
<1>1. to # NoAddress
  BY NoAddressAssumption
<1>2. /\ policy.allow_dual_duty_issuance \/ "Compliance" \notin Duties[EffectiveRole(caller)]
      /\ policy.allow_self_issuance \/ caller # to
      /\ ~policy.require_independent_approver \/ approver[to] # caller
  BY <1>1 DEF EvaluateIssuance
<1>3. "Compliance" \in Duties[EffectiveRole(caller)] <=> AuthorityGuard(caller, "Unknown") = "Allowed"
  BY DutiesOf DEF ContractInv
<1> QED
  BY <1>2, <1>3 DEF ForbiddenByPolicy

LEMMA MintSwitches ==
  ASSUME ContractInv, NEW caller \in Address, NEW to \in Address, NEW amount \in AmountArgs
  PROVE  LET error == MintError(caller, to, amount)
         IN  /\ error = "ContractPaused" <=> paused
             /\ assetStatus = "Active" => error \notin AssetErrors
             /\ assetStatus # "Active" => error # "Ok"
             /\ ~(supplyCap > 0) => error # "SupplyCapExceeded"
             /\ supplyCap > 0 /\ totalSupply + amount > supplyCap => error # "Ok"
             /\ ~(holdingCap > 0) => error # "HoldingCapExceeded"
             /\ holdingCap > 0 /\ balance[to] + amount > holdingCap => error # "Ok"
             /\ ~policy.enforced => error \notin PolicyErrors
             /\ policy.enforced /\ ForbiddenByPolicy(caller, to) => error # "Ok"
             /\ error = "NotInitialized" <=> admin = NoAddress
<1> DEFINE verdict == EvaluateIssuance(caller, to)
           conflicted == verdict # "Allowed"
           forbidden == policy.enforced /\ ForbiddenByPolicy(caller, to)
           unfit == ~RequireRole(caller, "AssetManager")
           closed == assetStatus # "Active"
           refused == status[to] # "Approved"
           supplyCapped == supplyCap > 0
           supplyTrap == supplyCapped /\ Overflows(totalSupply, amount)
           supplyExceeds == supplyCapped /\ totalSupply + amount > supplyCap
           holdingCapped == holdingCap > 0
           holdingTrap == holdingCapped /\ Overflows(balance[to], amount)
           holdingExceeds == holdingCapped /\ balance[to] + amount > holdingCap
           overflow == Overflows(balance[to], amount) \/ Overflows(totalSupply, amount)
<1>1. MintError(caller, to, amount) =
            IF paused THEN "ContractPaused" ELSE
            IF admin = NoAddress THEN "NotInitialized" ELSE
            IF unfit THEN "Unauthorized" ELSE
            IF conflicted THEN IssuanceError[verdict] ELSE
            IF amount <= 0 THEN "InvalidAmount" ELSE
            IF closed THEN AssetError[assetStatus] ELSE
            IF refused THEN ReceiverError[status[to]] ELSE
            IF supplyTrap THEN "Trap" ELSE
            IF supplyExceeds THEN "SupplyCapExceeded" ELSE
            IF holdingTrap THEN "Trap" ELSE
            IF holdingExceeds THEN "HoldingCapExceeded" ELSE
            IF overflow THEN "Trap" ELSE
            "Ok"
  BY MintRevertInOrder DEF RequireIssuanceAuthority
<1>2. /\ closed => AssetError[assetStatus] \in AssetErrors
      /\ refused => ReceiverError[status[to]] \notin SwitchErrors
  BY ReadTypes, TablesKeepApart
<1>3. /\ conflicted => IssuanceError[verdict] # "Ok"
      /\ IssuanceError[verdict] \notin AssetErrors
                \cup {"ContractPaused", "SupplyCapExceeded", "HoldingCapExceeded"}
      /\ admin # NoAddress => IssuanceError[verdict] # "NotInitialized"
      /\ ~policy.enforced => IssuanceError[verdict] \notin PolicyErrors
  <2>1. verdict \in Verdicts
    BY IssuanceVerdictIsNamed
  <2>2. admin # NoAddress => verdict # "NotInitialized"
    BY DEF EvaluateIssuance
  <2>3. ~policy.enforced => verdict \in {"NotInitialized", "MissingIssuanceDuty", "Allowed"}
    BY DEF EvaluateIssuance
  <2>4. IssuanceError["Allowed"] \notin PolicyErrors
    BY DEF IssuanceError, PolicyErrors
  <2> HIDE DEF verdict
  <2> QED
    BY <2>1, <2>2, <2>3, <2>4, TablesKeepApart
<1>4. paused => admin # NoAddress
  BY DEF ContractInv, AdminInv, PausedHasAdmin
<1>5. forbidden => conflicted
  BY ForbiddenIsRefused
<1>6. (~supplyCapped => ~supplyExceeds) /\ (~holdingCapped => ~holdingExceeds)
  OBVIOUS
<1> DEFINE error == MintError(caller, to, amount)
<1> HIDE DEF verdict, conflicted, forbidden, unfit, closed, refused, supplyCapped, supplyTrap,
             supplyExceeds, holdingCapped, holdingTrap, holdingExceeds, overflow
<1>7. error = "ContractPaused" <=> paused
  BY <1>1, <1>2, <1>3, SMTT(60) DEF AssetErrors, SwitchErrors
<1>8. /\ ~closed => error \notin AssetErrors
      /\ closed => error # "Ok"
  BY <1>1, <1>2, <1>3, SMTT(60) DEF AssetErrors, SwitchErrors
<1>9. /\ ~supplyCapped => error # "SupplyCapExceeded"
      /\ ~holdingCapped => error # "HoldingCapExceeded"
  BY <1>1, <1>2, <1>3, <1>6, SMTT(60) DEF AssetErrors, SwitchErrors
<1>10. supplyExceeds \/ holdingExceeds \/ conflicted => error # "Ok"
  BY <1>1, <1>2, <1>3, SMTT(60) DEF AssetErrors, SwitchErrors
<1>11. ~policy.enforced => error \notin PolicyErrors
  BY <1>1, <1>2, <1>3, SMTT(60) DEF AssetErrors, SwitchErrors, PolicyErrors
<1>12. error = "NotInitialized" <=> admin = NoAddress
  BY <1>1, <1>2, <1>3, <1>4, SMTT(60) DEF AssetErrors, SwitchErrors
<1> QED
  BY <1>5, <1>7, <1>8, <1>9, <1>10, <1>11, <1>12
     DEF forbidden, closed, supplyCapped, supplyExceeds, holdingCapped, holdingExceeds

\* Both ways, in every reachable state and for any amount: while a switch reads
\* off nobody is refused by its control, and while it reads on nobody gets past
\* it.
THEOREM SwitchesAlwaysMatch == Spec => []SwitchesMatchEnforcement
<1>1. ContractInv => SwitchesMatchEnforcement
  <2> SUFFICES ASSUME ContractInv, NEW a \in Address, NEW b \in Address,
                      NEW amount \in AmountArgs
               PROVE  LET switch == RuntimeSwitches
                          mint   == MintError(a, b, amount)
                          errors == {mint, TransferError(a, b, amount)}
                      IN  /\ IF switch.paused THEN errors = {"ContractPaused"}
                             ELSE "ContractPaused" \notin errors
                          /\ IF switch.asset_active THEN errors \cap AssetErrors = {}
                             ELSE "Ok" \notin errors
                          /\ IF switch.operations_enabled
                             THEN ~switch.paused /\ switch.asset_active
                             ELSE /\ "Ok" \notin errors
                                  /\ ~InvestorEligibility(a).can_send
                                  /\ ~InvestorEligibility(a).can_receive
                          /\ IF switch.supply_cap_enforced
                             THEN totalSupply + amount > supplyCap => mint # "Ok"
                             ELSE mint # "SupplyCapExceeded"
                          /\ IF switch.holding_cap_enforced
                             THEN balance[b] + amount > holdingCap => "Ok" \notin errors
                             ELSE "HoldingCapExceeded" \notin errors
                          /\ IF switch.issuer_separation_enforced
                             THEN ForbiddenByPolicy(a, b) => mint # "Ok"
                             ELSE mint \notin PolicyErrors
                          /\ mint = "NotInitialized" <=> ~switch.initialized
    BY DEF SwitchesMatchEnforcement, AssetErrors, PolicyErrors
  <2>1. /\ RuntimeSwitches.paused = paused
        /\ RuntimeSwitches.asset_active <=> assetStatus = "Active"
        /\ RuntimeSwitches.operations_enabled <=> ~paused /\ assetStatus = "Active"
        /\ RuntimeSwitches.supply_cap_enforced <=> supplyCap > 0
        /\ RuntimeSwitches.holding_cap_enforced <=> holdingCap > 0
        /\ RuntimeSwitches.issuer_separation_enforced <=> policy.enforced
        /\ RuntimeSwitches.initialized <=> admin # NoAddress
    BY DEF RuntimeSwitches, OperationsEnabled, CapEnforced
  <2>2. ~(~paused /\ assetStatus = "Active")
            => ~InvestorEligibility(a).can_send /\ ~InvestorEligibility(a).can_receive
    BY DEF InvestorEligibility
  <2> QED
    BY <2>1, <2>2, TransferSwitches, MintSwitches
<1> QED
  BY <1>1, ContractInvariant, PTL
=============================================================================
