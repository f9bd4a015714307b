------------------------------- MODULE Config -------------------------------
(***************************************************************************)
(* The protocol configuration and its two-step amendment (src/config.rs).  *)
(* Unlike the caps, a proposal equal to the active configuration is taken. *)
(***************************************************************************)
EXTENDS Admin, Integers

CONSTANTS
    ConfigArgs,   \* the configurations callers propose
    NoConfig      \* an empty candidate slot

ProtocolConfig == [min_transfer_amount : Int, max_batch_size : Nat]

ASSUME ConfigArgsAssumption == ConfigArgs \subseteq ProtocolConfig
ASSUME NoConfigAssumption == NoConfig \notin ProtocolConfig

VARIABLES
    config,           \* DataKey::ProtocolConfig, the default when absent
    configCandidate   \* DataKey::ProtocolConfigCandidate

configVars == <<config, configCandidate>>

DefaultConfig == [min_transfer_amount |-> 0, max_batch_size |-> 100]

\* The configurations that do not brick the protocol.
UsableConfig == [min_transfer_amount : Nat, max_batch_size : Nat \ {0}]

ConfigTypeOK ==
    /\ config \in UsableConfig
    /\ configCandidate \in UsableConfig \cup {NoConfig}

ConfigInit == config = DefaultConfig /\ configCandidate = NoConfig

\* Slip: a batch size of zero is taken.
ProposeConfigUnchecked(caller, proposedConfig) ==
    /\ RequireNotPaused
    /\ IsAdmin(caller)
    /\ proposedConfig.min_transfer_amount >= 0
    /\ configCandidate' = proposedConfig
    /\ UNCHANGED config
    /\ Publish(<<[topic |-> "config_proposed", admin |-> caller,
                  proposed_config |-> proposedConfig]>>)

ProposeConfig(caller, proposedConfig) ==
    /\ RequireNotPaused
    /\ IsAdmin(caller)
    /\ proposedConfig.min_transfer_amount >= 0
    /\ proposedConfig.max_batch_size # 0
    /\ configCandidate' = proposedConfig
    /\ UNCHANGED config
    /\ Publish(<<[topic |-> "config_proposed", admin |-> caller,
                  proposed_config |-> proposedConfig]>>)

\* Slip: the candidate stays to be accepted again.
AcceptConfigKeepsProposal(caller) ==
    /\ RequireNotPaused
    /\ IsAdmin(caller)
    /\ configCandidate # NoConfig
    /\ config' = configCandidate
    /\ UNCHANGED configCandidate
    /\ Publish(<<[topic |-> "config_amended", admin |-> caller,
                  new_config |-> configCandidate]>>)

AcceptConfig(caller) ==
    /\ RequireNotPaused
    /\ IsAdmin(caller)
    /\ configCandidate # NoConfig
    /\ config' = configCandidate
    /\ configCandidate' = NoConfig
    /\ Publish(<<[topic |-> "config_amended", admin |-> caller,
                  new_config |-> configCandidate]>>)

CancelConfigProposal(caller) ==
    /\ RequireNotPaused
    /\ IsAdmin(caller)
    /\ configCandidate # NoConfig
    /\ configCandidate' = NoConfig
    /\ UNCHANGED config
    /\ Publish(<<>>)

ConfigStep ==
    \E caller \in Address :
        \/ \E proposedConfig \in ConfigArgs : ProposeConfig(caller, proposedConfig)
        \/ AcceptConfig(caller)
        \/ CancelConfigProposal(caller)
-----------------------------------------------------------------------------
(* Properties. *)

ConfigGovernance ==
    INSTANCE TwoStep WITH Value <- UsableConfig, Default <- DefaultConfig,
                          NoProposal <- NoConfig,
                          active <- config, proposed <- configCandidate

\* The configuration in force is the default or one that was put up before and
\* accepted once, and it is usable in every state: no path installs a value
\* that the proposal checks would have refused.
ConfigIsTwoStep == ConfigGovernance!Spec
=============================================================================
