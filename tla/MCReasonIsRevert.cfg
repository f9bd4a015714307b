SPECIFICATION Spec
CONSTANTS
    a1 = a1
    a2 = a2
    NoAddress = NoAddress
    NoProposal = NoProposal
    NoConfig = NoConfig
    NoMetadata = NoMetadata
    MaxAmount = 2
    MaxBatch = 0
    Address <- MCAddress
    Nominees = {}
    RoleArgs = {"AssetManager"}
    StatusArgs = {"Pending", "Blocked"}
    PolicyArgs <- MCStrictPolicies
    AssetStatusArgs = {"Active", "Paused", "Retired"}
    CapArgs = {1}
    ConfigArgs = {}
    AmountArgs <- MCAmountArgs
    MetadataArgs = {}
SYMMETRY MCSymmetry
VIEW MCView
INVARIANTS
    TransferReasonIsTheRevert
