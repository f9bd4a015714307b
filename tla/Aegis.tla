------------------------------- MODULE Aegis --------------------------------
(***************************************************************************)
(* The whole contract (src/lib.rs): the entrypoints of every component     *)
(* over one storage.  An invocation runs to completion or reverts, so a    *)
(* step is one committed invocation of one component; the components meet  *)
(* in the guards, where one reads what another wrote earlier.              *)
(***************************************************************************)
EXTENDS Asset, Config, FiniteSets

ASSUME FiniteAddressAssumption == IsFiniteSet(Address)

registryVars == <<complianceVars, policy>>
governedVars == <<assetStatus, capVars, configVars>>
vars == <<adminVars, events, registryVars, governedVars, assetVars>>

Init ==
    /\ AdminInit
    /\ ComplianceInit
    /\ IssuerInit
    /\ LifecycleInit
    /\ CapsInit
    /\ ConfigInit
    /\ AssetInit

Next ==
    \/ AdminNext /\ UNCHANGED <<registryVars, governedVars, assetVars>>
    \/ ComplianceStep /\ UNCHANGED <<adminVars, policy, governedVars, assetVars>>
    \/ IssuerStep /\ UNCHANGED <<adminVars, complianceVars, governedVars, assetVars>>
    \/ LifecycleStep /\ UNCHANGED <<adminVars, registryVars, capVars, configVars, assetVars>>
    \/ CapsStep /\ UNCHANGED <<adminVars, registryVars, assetStatus, configVars, assetVars>>
    \/ ConfigStep /\ UNCHANGED <<adminVars, registryVars, assetStatus, capVars, assetVars>>
    \/ AssetStep /\ UNCHANGED <<adminVars, registryVars, governedVars>>

Spec == Init /\ [][Next]_vars

AegisTypeOK ==
    /\ AdminTypeOK
    /\ ComplianceTypeOK
    /\ IssuerTypeOK
    /\ LifecycleTypeOK
    /\ CapsTypeOK
    /\ ConfigTypeOK
    /\ AssetTypeOK
-----------------------------------------------------------------------------
(* The ledger. *)

\* The units held under given balances, each named by its holder and its place
\* there, so that counting them adds the balances up.
UnitsOf(held) == {unit \in Address \X (1..MaxAmount) : unit[2] <= held[unit[1]]}

\* The recorded total supply is what the holders have together, through every
\* mint and transfer, a transfer to oneself included.
Conservation == Cardinality(UnitsOf(balance)) = totalSupply

\* No two holders together have more than an amount can hold: the credit of a
\* transfer never traps, whatever was minted with or without caps.
CreditFits ==
    \A from, to \in Address : from # to => balance[from] + balance[to] <= MaxAmount

Token ==
    INSTANCE RegulatedToken WITH
        Holder <- Address, Amount <- 1..MaxAmount,
        holdings <- balance, supply <- totalSupply,
        cleared <- {u \in Address : status[u] = "Approved"},
        trading <- IF assetStatus = "Retired" THEN "ended"
                   ELSE IF assetStatus = "Active" /\ ~paused THEN "open" ELSE "suspended"

\* The contract implements the regulated token: units are issued and moved only
\* among approved investors while the asset is active and the contract is not
\* paused, and no officer's or admin's call moves a unit besides.
ImplementsRegulatedToken == Token!Spec

\* A credit never carries an investor or the supply past a cap in force: caps
\* are overshot only by lowering them, and then nothing is credited.
CreditsRespectCaps ==
    [][/\ \A a \in Address : balance'[a] > balance[a] /\ holdingCap > 0
                                => balance'[a] <= holdingCap
       /\ totalSupply' > totalSupply /\ supplyCap > 0 => totalSupply' <= supplyCap
      ]_vars
-----------------------------------------------------------------------------
(* Pause and retirement. *)

\* While the contract is paused nothing in the storage changes but the pause
\* itself and the asset status, and that only away from trading: every one of
\* the state-changing entrypoints has to make the check.
PauseFreezesContract ==
    [][paused => /\ UNCHANGED <<admin, adminCandidate, role, registryVars, capVars,
                                configVars, assetVars>>
                 /\ assetStatus' # assetStatus => assetStatus' # "Active"]_vars

\* Retirement is for good: the supply, every balance and the metadata stay as
\* they were, whatever the admin does afterwards.
RetirementIsFinal ==
    [][assetStatus = "Retired" => assetStatus' = "Retired" /\ UNCHANGED assetVars]_vars
-----------------------------------------------------------------------------
(* Separation of duties, across the role table, the registry and the ledger. *)

Minted(e) == e.topic = "asset_minted"

\* Under a policy that forbids dual duty nobody who could clear an investor at
\* that moment issues to one, whatever entry the role table has for the admin:
\* the duty table of the issuance guard agrees with the authority guard of the
\* registry.
IssuerCannotClear ==
    [][policy.enforced /\ ~policy.allow_dual_duty_issuance
        => \A i \in DOMAIN events' : Minted(events'[i])
            => AuthorityGuard(events'[i].caller, "Unknown") # "Allowed"]_vars

\* Under a policy that asks for an independent approver, whoever last cleared
\* the receiver does not issue to it, though it changed roles in between.
FourEyes ==
    [][policy.enforced /\ policy.require_independent_approver
        => \A i \in DOMAIN events' : Minted(events'[i])
            => approver[events'[i].to] \in Address \ {events'[i].caller}]_vars
-----------------------------------------------------------------------------
(* What the repository says of the contract and the code does not keep.    *)

\* "The minimum token amount allowed in a single transfer": the field
\* min_transfer_amount in src/config.rs, which no entrypoint reads.
TransfersRespectMinimum ==
    [][\A i \in DOMAIN events' : events'[i].topic = "transfer"
        => events'[i].amount >= config.min_transfer_amount]_vars
=============================================================================
