SPECIFICATION Spec
CONSTANTS
    a1 = a1
    a2 = a2
    NoAddress = NoAddress
    NoProposal = NoProposal
    NoConfig = NoConfig
    NoMetadata = NoMetadata
    MaxAmount = 2
    MaxBatch = 0
    Address <- MCAddress
    Nominees <- MCAddress
    RoleArgs = {"None", "AssetManager", "ComplianceOfficer"}
    StatusArgs = {"Approved"}
    PolicyArgs <- MCSeparationPolicies
    AssetStatusArgs = {"Active"}
    CapArgs = {1}
    ConfigArgs = {}
    AmountArgs <- MCIssuedAmounts
    MetadataArgs = {}
SYMMETRY MCSymmetry
VIEW MCView
INVARIANTS
    MintPreflightsTogetherExact
    IssuanceReportExact
    DutiesAreEnforced
    SwitchesMatchEnforcement
PROPERTIES
    IssuerCannotClear
    FourEyes
