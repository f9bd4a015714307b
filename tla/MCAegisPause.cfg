SPECIFICATION Spec
CONSTANTS
    a1 = a1
    a2 = a2
    m1 = m1
    NoAddress = NoAddress
    NoProposal = NoProposal
    NoConfig = NoConfig
    NoMetadata = NoMetadata
    MaxAmount = 1
    MaxBatch = 2
    Address <- MCAddress
    Nominees <- MCAddress
    RoleArgs = {"EmergencyOfficer"}
    StatusArgs = {"Approved"}
    PolicyArgs <- MCStrictPolicies
    AssetStatusArgs = {"Active", "Blocked", "Retired"}
    CapArgs = {1}
    ConfigArgs <- MCUsableConfigs
    AmountArgs = {1}
    MetadataArgs = {m1, NoMetadata}
SYMMETRY MCSymmetry
VIEW MCView
PROPERTIES
    PauseFreezesContract
    RetirementIsFinal
    OnlyTradesWithoutAdmin
    EventsRebuildStorage
    EventsContinueTheIndex
