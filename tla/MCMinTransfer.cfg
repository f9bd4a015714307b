SPECIFICATION Spec
CONSTANTS
    a1 = a1
    a2 = a2
    m1 = m1
    NoAddress = NoAddress
    NoProposal = NoProposal
    NoConfig = NoConfig
    NoMetadata = NoMetadata
    MaxAmount = 1
    MaxBatch = 0
    Address <- MCAddress
    Nominees = {}
    RoleArgs = {"EmergencyOfficer"}
    StatusArgs = {"Approved"}
    PolicyArgs <- MCStrictPolicies
    AssetStatusArgs = {"Draft", "Active", "Paused", "Retired", "Blocked"}
    CapArgs = {1}
    ConfigArgs <- MCRaisedMinimum
    AmountArgs = {1}
    MetadataArgs = {m1}
SYMMETRY MCSymmetry
VIEW MCView
PROPERTY TransfersRespectMinimum
