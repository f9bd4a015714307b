SPECIFICATION Spec
CONSTANTS
    a1 = a1
    a2 = a2
    NoAddress = NoAddress
    NoProposal = NoProposal
    NoConfig = NoConfig
    NoMetadata = NoMetadata
    MaxAmount = 3
    MaxBatch = 0
    Address <- MCAddress
    Nominees = {}
    RoleArgs = {}
    StatusArgs = {"Pending", "Blocked"}
    PolicyArgs = {}
    AssetStatusArgs = {"Active", "Paused", "Retired", "Blocked"}
    CapArgs = {0, 2}
    ConfigArgs = {}
    AmountArgs <- MCAmountArgs
    MetadataArgs = {}
SYMMETRY MCSymmetry
VIEW MCView
INVARIANTS
    TransferPreflightExact
    TransferReasonFollowsRevert
    EligibilityComposes
    RevertNeverMisread
