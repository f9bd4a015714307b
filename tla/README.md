# Formal models of the Aegis contract

TLA+ specifications of the Soroban contract in `src/` (Rust, `soroban-sdk`): a
permissioned asset token with a compliance registry, role-based administration
with an emergency pause, governed caps, and pre-flight reads for clients. TLC
checks the specifications on small instances; TLAPS proves the theorems listed
below for every value of the constants.

## 1. The system

All components are `impl AegisContract` blocks over one storage, so they
interact by reading in a guard what another component wrote in an earlier
invocation. Every invocation is authorised by the address it names
(`require_auth`) and either commits or reverts as a whole.

| Component | Source | State | State-changing operations | What makes it correct |
| --- | --- | --- | --- | --- |
| Access control, hand-over, pause | `admin.rs`, `lib.rs` | admin, nominated candidate, role per address, paused | `initialize`, `set_role`, `remove_role`, `transfer_admin`, `accept_admin`, `renounce_admin`, `pause`, `unpause` | a former admin keeps nothing, a pause can be lifted, the events account for the roles |
| Compliance registry | `compliance.rs`, `compliance_guards.rs` | status, legacy whitelist key and recorded approver per investor | `set_compliance_status`, `batch_set_compliance_status`, `whitelist_user`, `revoke_whitelist` | the three records agree, no path bypasses the matrix, only the admin lifts a freeze |
| Issuer separation | `issuer.rs` | policy | `set_issuer_separation_policy` | nobody gets around an enforced policy |
| Asset lifecycle | `lifecycle.rs` | asset status | `set_asset_status` | retirement is final, no trading starts while paused |
| Caps | `supply_cap.rs`, `holding.rs` | two caps, two proposals | propose, accept, cancel, each twice | a value takes effect once, after it was proposed; no credit breaks a cap |
| Configuration | `config.rs` | configuration, proposal | propose, accept, cancel | as the caps; only usable values |
| Ledger | `asset.rs` | balances, total supply, metadata | `mint_asset`, `transfer`, `distribute_yield`, `update_asset_metadata` | conservation, no overflow, only approved holders |
| Pre-flight reads | `restrictions.rs`, `eligibility.rs`, parts of `issuer.rs` and `compliance_guards.rs` | none | none | what the read says is what the submission does |
| Capability descriptor | `capabilities.rs` | none | none | while a switch reads off nobody is refused by its control, while it reads on nobody gets past it |
| Event stream | the `...Event` structs of every module | none (published by the writes above) | none | an index that applies the events follows the storage |

What is hard here is not concurrency inside an invocation, which the host rules
out, but long sequences of legal invocations by several officers: hand-overs
that nominate the admin itself, renunciation followed by a second
initialization, roles that change between a clearance and a mint, caps lowered
under existing balances, batches that name one address twice, the pause and the
admin check that each entrypoint has to make for itself, events that have to be
read on the right side of a write, and reads and tables that repeat the checks
of an entrypoint in code of their own. `PROJECT.json` lists these as hazards, each
at its line.

## 2. Modules

```
Admin ── Compliance ── Issuer ─┐
  ├───── Lifecycle ────────────┼─ Asset ──┐
  ├───── Caps ─────────────────┘          ├─ Aegis ─┬─ Preflight ── Capabilities
  └───── Config ──────────────────────────┘         └─ EventIndex
Caps, Config ── Governance            TwoStep         (abstract, refined by Caps and Config)
                                      RegulatedToken  (abstract, refined by Aegis)
Admin ── AdminProofs                  MC*             (instances for TLC)
Compliance ── RegistryProofs ── ChainProofs
Governance, AdminProofs ── GovernanceProofs
Aegis ── LedgerProofs
Capabilities, RegistryProofs, GovernanceProofs, LedgerProofs ── ContractProofs
ContractProofs, ChainProofs ── PreflightProofs
EventIndex, ContractProofs, ChainProofs ── IndexProofs
```

| Module | Models |
| --- | --- |
| `Admin` | `admin.rs` and `initialize`. One action per entrypoint; the guards `RequireNotPaused`, `IsAdmin`, `RequireRole` are shared by every other module. |
| `Compliance` | the registry. `WriteStatuses` is `write_status` with `apply_transition` and `record_compliance_approver`; `EvaluateFromStatus` is the guard that enforcement and pre-flight share; `CanWhitelist` and `CanRevoke` are the checks the legacy aliases make on their own; `CheckTransition` and `CheckBatch` are the reports of the two reads, `BatchError` is what a batch reverts with. |
| `Issuer` | duties, effective role, policy, `evaluate_issuance` and the report of `check_issuance_authority`. |
| `Lifecycle` | `set_asset_status` and its matrix. |
| `Caps`, `Config`, `Governance` | the governed parameters; `Governance` puts them under one admin. |
| `Asset` | the ledger. `CanMint` and `CanTransfer` are the checks, including the arithmetic that traps; `MintAsset` and `Transfer` the writes. |
| `Aegis` | the whole contract: all entrypoints over all the state. |
| `Preflight` | the reads, as lists of checks in the order of the code, next to the errors the entrypoints revert with, in their order; the two tables between reasons and errors; the eligibility snapshot. |
| `Capabilities` | the runtime switches of `get_capabilities`, all but `metadata_configured`. |
| `EventIndex` | an index outside the contract: `ReplayEvent` is what one event of any topic makes of its view, `Continues` what the event says of the value it replaces. It is ours, written from the payloads; the events it reads are the contract's. |
| `TwoStep` | abstract: one governed parameter that changes only by accepting what was proposed. |
| `RegulatedToken` | abstract: units issued and moved only among cleared holders while trading is open. |

Conventions.

* An action is one committed invocation. A revert writes nothing and publishes
  nothing, so it is a stuttering step; only `Preflight`, which is about what a
  revert reports, and the reports of the registry and the issuer name the
  errors, by name and not by number.
* The first argument of an action is the address that authorised it.
* A storage key that is absent is modelled by what reading it yields: no admin
  is `NoAddress`, no role is `"None"`, no status is `"Unknown"`, no amount 0.
* `events` holds what the last invocation published. Properties about the audit
  trail and about who did something read it; two states that differ only in it
  have the same future, and the instances say so with a `VIEW`.
* Amounts are integers with `MaxAmount` for `i128::MAX`. The release profile
  traps on overflow (`overflow-checks`), so a sum beyond it is a failed guard.
* Metadata values are opaque (the code bounds nothing about them). The empty
  strings may be among those callers pass and read like the absent keys.
* Definitions marked "Slip" are mutated copies of a definition that follows.
  No specification uses them: they exist to confirm that each property can fail.

## 3. Runs

`tlc -config <cfg> <module>`. Every property of a passing run is violated when
the definition named in the definition named in `PROJECT.json` is replaced by its slip.

| Run | Configuration | Question |
| --- | --- | --- |
| `admin` | `MCAdmin.cfg` | Does authority move cleanly through any hand-over, renunciation, re-initialization and pause? |
| `compliance` | `MCCompliance.cfg` | Do the records of an investor agree, are freezes and approver records safe, do the events account for every change, does the batch pre-flight foretell the submission and its error, do the legacy aliases keep to the guard? |
| `governance` | `MCGovernance.cfg` | Do caps and configuration each implement `TwoStep`, whatever the others and the pause do? |
| `ledger` | `MCAegisLedger.cfg` | Are units conserved, do credits fit and respect the caps in force, does the contract implement `RegulatedToken`? |
| `issuance` | `MCPreflightIssuance.cfg` | Can the separation policy be circumvented by changing roles, the admin or approvals between a clearance and a mint? Are the two reads for minters sufficient together, and is the report of the second exact? Do the duty table and the capability switches, whether they read on or off, say what the entrypoints enforce? |
| `pause` | `MCAegisPause.cfg` | With every entrypoint enabled, what can change while paused, after retirement, and without an admin? Can an index follow the whole storage by the events, and does it notice a gap? |
| `preflight_transfer` | `MCPreflightTransfer.cfg` | Do the transfer reads say exactly what `transfer` does, and for the right reason? Is an error read back as the reason it had? Do two eligibility snapshots decide a transfer of any amount? |

Bounds and why they suffice.

* Two addresses (three in `admin`, where a former admin, the admin and a nominee
  are distinct parties). An invocation names at most a caller and one or two
  others, every guard compares addresses only for equality, and with two
  addresses the caller can be the subject, the recipient, the admin, the
  nominee and the approver, or none of these. Addresses are symmetric.
* `MaxAmount` 3 (`ledger`, `preflight_transfer`), so that two holders can both
  hold something, a cap of 2 can be reached by equality, exceeded, and lowered
  under a balance, and both the balance and the supply can overflow. Amounts
  below and at zero are among the arguments. 2 or 1 where the question is not
  about amounts.
* Batches of up to two entries in `compliance` and `pause`: enough to name one
  address twice, to have one entry refused after one that is not, and to have
  an invocation publish several events that an index applies in order. Other
  runs allow no batch but the empty one.
* Four separation policies in `issuance`: all restrictions at once, the approver
  restriction alone, the dual duty and self-issuance restrictions without it,
  and all of them written down but not enforced. A restriction that is checked
  earlier can hide a later one, hence the approver restriction on its own.
* Each run opens the inputs its question is about and keeps the others to the
  values that reach the interesting states. `pause` opens every entrypoint,
  nominations and hand-overs included, so that a contract is also found without
  an admin and with a nominee, and its index follows hand-overs; of the asset
  statuses it takes the one that trades and the two in which the metadata is
  closed. `ledger` has the paused asset, `preflight_transfer` all of them.

Deadlock is checked in every run. No fairness is assumed and no liveness is
claimed: the contract schedules nothing, every step is an invocation somebody
chooses to submit, and no code in the repository justifies that anybody will.
What remains of "eventually" is that the way out stays open, which is stated as
safety (`PausedHasAdmin`).

## 4. Where the repository says something else

These runs are expected to end in a violation; each checks one sentence of the
repository.

| Run | The sentence | What the code does |
| --- | --- | --- |
| `admin_fresh` | `src/src/lib.rs:122`, initialize "can only be called once" | it can be called again after `renounce_admin`, and finds the roles and the nomination the last admin left |
| `legacy_index` | `src/docs/compliance-registry-reads.md:34`, the two legacy events are the canonical projection of the whitelist | the lifecycle entrypoints change the whitelist without them |
| `min_transfer` | `src/src/config.rs:12`, "the minimum token amount allowed in a single transfer" | no entrypoint reads the configuration |
| `reason_is_revert` | `src/src/restrictions.rs:303`, the reason is the one the revert reports | a pending or a blocked party gets an error of its own from `transfer`, one folded reason from the read; `TransferReasonFollowsRevert` states what does hold |
| `mint_reason` | `src/src/restrictions.rs:317`, `None` if the mint would succeed | the separation policy is not evaluated; `MintPreflightsTogetherExact` states what does hold |

Smaller disagreements met on the way, without a run of their own:

* `compliance.rs:465` and `docs/compliance-status-transitions.md:60,70` have the
  revocation of an address that is not approved, a pending one included, be a
  no-op. `revoke_whitelist` (`compliance.rs:486`) makes every move into `Revoked`
  that the matrix has, and `Pending` to `Revoked` is one: the review ends, and
  `compliance_status_changed` is published before `whitelist_revoked`.
  `AliasesFollowGuard` states what does hold.
* `docs/storage-audit-map.md:123` has the active admin's role entry be `Admin`;
  the admin may change or remove its own entry, and keeps its authority.
* `docs/emergency-pause.md:88` has a pause stop every state change;
  `set_asset_status` (`lifecycle.rs:146`) works while paused unless it activates,
  as its comment says. `PauseFreezesContract` states what does hold.
* `restrictions.rs:19` says the evaluators never panic; with a holding cap in
  force and an amount near `i128::MAX` the sum `balance + amount` traps. The
  models report it as `"Trap"`.
* `issuer.rs:481` promises the error of the mint; on a paused contract the mint
  reports the pause first.
* `errors.rs` numbers the two cap errors 5002 and 5003, `docs/transfer-restrictions.md`
  and `holding.rs:51` 7004 and 7003; `docs/events.md:130` and
  `capabilities.rs:224` list the numbers a blocked transfer can have and miss
  4002 to 4005.
* `restrictions.rs:14` calls the mapping of reasons total and lossless; four
  errors of a transfer (4002 to 4005) have no reason (`reason_for_error`).
  `RevertNeverMisread` states what does hold.
* `compliance_guards.rs:297` makes `require_transition` the only path of a
  state-changing call to a verdict; the legacy aliases ask for the authority
  and look at the matrix themselves. `AliasesFollowGuard` shows that they come
  to the same.
* `compliance_guards.rs:219` lists initialization before the pause, the code
  checks the pause first; by `PausedHasAdmin` nobody can tell.
* `compliance_guards.rs:428` has an empty batch match the entrypoint; on a
  paused contract the read returns an empty vector and the entrypoint reverts.
* `capabilities.rs:255` has `initialized` tell whether `initialize` has been
  called; it turns false again when the admin renounces. While it is false
  `accept_admin` reverts with 2001, not with 2000, when there is no candidate.
* `capabilities.rs:556` returns every key a lookup understands, without
  `compliance_transition_guards`, which `capabilities.rs:467` understands.
* `docs/events.md:42` has `renounce_admin` publish `admin_transferred` too, with
  equal addresses; the code publishes `admin_renounced` alone (`admin.rs:278`),
  as line 43 of the same table says. `AdminAuditTrail` follows the code.
* `docs/events.md:220` has `contract_initialized` published exactly once, and
  `admin.rs:264` a renunciation irreversible; see the run `admin_fresh`.
* `docs/events.md:231` correlates a proposal with its acceptance by the admin
  address; another admin may accept after a hand-over.
* `lib.rs:55` gives the emergency officer the asset privileges; `mint_asset`
  does not let it in, and the duty table says so (`DutiesAreEnforced`).
* `lifecycle.rs:131` lists `Draft` among the statuses that can be set; no
  transition leads there.
* `require_any_role` (`admin.rs`), `transition_is_valid` (`asset.rs`) and
  `require_asset_operable` (`lifecycle.rs`) have no caller.

## 5. Proofs

`tlapm <module>` on each of the eight modules whose name ends in `Proofs`.

**AdminProofs**, for any set of addresses, any roles passed to `set_role` and any
nominees. Assumptions: `NoAddress` is not an address, `RoleArgs` are roles,
`Nominees` are addresses. The inductive invariant is `AdminTypeOK /\
SoleAdminRole /\ PausedHasAdmin`. None of the three is inductive without the
types, and the action properties need it too: that a pause freezes the roles
rests on `PausedHasAdmin`, because `initialize` makes no pause check and is only
kept out by there being an admin. Proved: `AdminTypeCorrect`,
`OnlyTheAdminIsAdmin`, `PauseCanBeLifted`, `PauseFreezesTheRoles`,
`HandoverIsComplete`, `OutgoingAdminHasNoRole`, `AdminTopicsAreComplete`.
`AdminInvStep` is stated over `[AdminNext]_adminVars`, so that it also serves
proofs about the whole contract, whose other components leave these variables
alone; the step lemmas of the other components are stated in the same way.

**LedgerProofs**, for any finite set of addresses and any `MaxAmount`, over the
whole contract. A sum over all balances would need a recursive definition;
conservation is stated by counting instead: `UnitsOf(balance)` is the set of
pairs of a holder and a number up to its balance, and its cardinality is the sum.
`BlockSize` and `CreditAddsUnits` show that crediting `n` adds `n` units, and a
transfer is a credit undone on one side and made on the other. The inductive
invariant is conservation with the types of balances and supply. Proved:
`SupplyIsConserved`; `CreditsAlwaysFit`, because the units of two holders are
disjoint and all within the supply; and `TokenIsImplemented`, by mapping a mint
to `Issue`, a transfer to `Move` and every other step to `Supervise` or a
stutter.

**RegistryProofs**, for any investors, officers and statuses and batches of any
length. Everything rests on `StepIsSound`: whatever entrypoint runs, it hands the
writer updates that name nobody twice and that the matrix and the authority guard
passed one by one (`Sound`), with at most one legacy event after theirs. An
investor that no update names is kept (`UnnamedIsKept`), one that is named is
moved by the one update that names it (`NamedIsMoved`, by `OneNamingIsLast`), its
three records together. Proved: `RegistryTypeCorrect` and `RecordsAlwaysAgree`, by
the inductive invariant `ComplianceTypeOK /\ RegistryAgrees`; from it
`ApproverIsSetOnClearance` and `FreezeIsLiftedByAdmin`; and
`AliasesAlwaysFollowGuard`, by cases on the guard. `AuditTrailIsComplete` compares
positions: the events that speak of an investor stand exactly where the updates
that name it do (`PublishedInOrder`, `TrailIsNaming`), so there is one or none.

**GovernanceProofs**, for any proposals and any `MaxAmount`. `GovernanceTypeCorrect`
and `ProposalsStayChanges` are one invariant: that a proposal is a change needs
the types, because an empty slot must differ from any cap. The three refinements
of `TwoStep` (`SupplyCapImplementsTwoStep`, `HoldingCapImplementsTwoStep`,
`ConfigImplementsTwoStep`) need no invariant: each entrypoint makes one abstract
step of its own parameter and none of the others.

**ContractProofs**, over the whole contract. `ContractInv` puts the inductive
invariants of the components side by side. It is inductive as it stands, since
no component writes what another's invariant rests on (`NextByComponent`: a step
of the contract is for each component one of its own or none). From it:

* `StorageTypeCorrect`.
* `PauseFreezesEverything`, from one lemma per component that its steps check the
  pause; `PauseFreezesTheRegistry` is the registry's own statement.
  `RetirementLasts`, from the matrix and the ledger's status checks.
* `DutyTableIsEnforced`, which needs that nobody but the admin is found as `Admin`
  in the role table; `IssuersNeverClear` and `IssuesTakeFourEyes`, the second from
  the registry's record of who cleared the receiver, which is there because a
  receiver is approved.
* `CapsBoundCredits`, from the checks of a mint and of a transfer, a transfer to
  oneself included.
* `OnlyHoldersActWithoutAdmin`, from one lemma per component that its privileged
  steps find an admin.
* What the components promise beside the access control alone, now with all the
  others stepping in between: `ContractIsConsistent` (their invariants),
  `ContractHandsOver`, `ContractKeepsTheRegistry`, `ContractAuditTrail` (which
  also needs that no other component's event speaks of an investor's status) and
  `ContractGovernsInTwoSteps` (the refinements of `TwoStep`).

**ChainProofs**, for chains of checks of any length. A read or an entrypoint is a
chain that reports the first check that fails (`FirstFailing`). `FirstIsReported`
says so of any chain; that there is a first one is well-foundedness of the
naturals (`LeastElement`). `ChainContinues` takes a concatenation apart, and
`OneInOrder` to `SevenInOrder` write a chain of known length out as a conditional.
`BatchPreflightIsExact` follows for batches of any length: row by row the
pre-flight looks at what the submission looks at (`RowsAreEntries`), and a pause,
which the submission checks before the batch, is what the first row says already.

**PreflightProofs**, in every reachable state and for any set of amounts. Each of
the four chains of a transfer and a mint is first written out in order
(`TransferReadInOrder`, `TransferRevertInOrder`, `MintReadInOrder`,
`MintRevertInOrder`); then they are compared case by case. They agree up to
arithmetic: `TransferPreflightIsExact` and `TransferReasonIsFollowed` need that no
credit of a transfer overflows, which rests on conservation
(`CreditNeverOverflows`); `MintPreflightsAreExact` needs that a balance stays
within the supply; `EligibilityAlwaysComposes` needs the types, for a balance
above a cap that was lowered since. `RevertsAreNeverMisread` and
`IssuanceReportIsExact` also need that the duty table agrees with the role guard
(`DutiesOf`), so that a mint refused over the policy is not taken for one refused
over the role. `SwitchesAlwaysMatch` has a direction for each reading of a switch.
That a switch which reads off has no part in a refusal needs that each table of
errors keeps to its own control (`TablesKeepApart`), and that a paused contract
has an admin, so that a missing admin is not hidden behind a pause. That nobody
gets past one which reads on is said of amounts and parties and not of the errors:
for the policy (`ForbiddenIsRefused`) it takes the duty table again, because the
policy is about who could clear an investor and the guard asks about duties.

**IndexProofs**, for any addresses and amounts and batches of any length. What the
index goes through is defined by recursion over the events, and an induction over
it is not needed: a sequence of views that starts with the storage before and
gets each view from the one before it by the event in between is the only one
(`HistoryIsUnique`: two of them would have a least place where they differ, and
they agree on the one before that). So it is enough to write the views down and
check each against the next. An invocation with one event has two
(`OneEventStep`), one without an event a single one (`SilentStep`). For a batch
they are the storage with the records of the first `k` named investors as they
are after the batch, and of the others as before (`RecordsAt`): no update names
an investor whose records are already done, so its event still finds the status
from before the batch, and takes `RecordsAt` from `k - 1` to `k`
(`BatchAdvances`); a legacy event changes nothing (`LegacyIsIgnored`).
`EventsAreEnough` and `EventsLeaveNoGap` follow by component (`NextFollows`).

Constant assumptions are the named `ASSUME`s of the modules: the inputs are of
the type the entrypoints take, the values that stand for an absent key are not
values of the key, `MaxAmount` and `MaxBatch` are natural numbers, and (for
counting) the set of addresses is finite. TLC evaluates them in every run.

Every property of a passing run is stated by a theorem. Only model-checked are the
five counterexamples of section 4, which are runs of the program and nothing to
prove, and the confirmation by slips that each property can fail. Liveness is
neither checked nor proved, for the reason given in section 3; nothing here is
about `ENABLED`.

## 6. Not modelled

* The constants of `capabilities.rs`: the table that describes the build, the
  lookup of an entry by its key and the list of keys. They read no storage and
  nothing follows from them in the contract. `metadata_configured` is left out
  too: it compares strings with the empty one, and metadata is opaque here.
* `errors.rs` numbers the errors; the models name them.
* Expiry of persistent storage entries: the code neither extends nor relies on
  it.
* The host: authorization, rollback and event delivery are taken as Soroban
  provides them. There is no crash to recover from and no message to lose
  between two invocations.
* Liveness: see section 3.

## 7. Plan

What is left is abstraction: a specification of what the registry promises about
one investor, and one of an authority that is handed over, each implemented by
its component and by the whole contract as the regulated token is.
