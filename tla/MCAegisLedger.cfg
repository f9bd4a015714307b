SPECIFICATION Spec
CONSTANTS
    a1 = a1
    a2 = a2
    m1 = m1
    NoAddress = NoAddress
    NoProposal = NoProposal
    NoConfig = NoConfig
    NoMetadata = NoMetadata
    MaxAmount = 3
    MaxBatch = 0
    Address <- MCAddress
    Nominees = {}
    RoleArgs = {"None", "AssetManager"}
    StatusArgs = {}
    PolicyArgs = {}
    AssetStatusArgs = {"Active", "Paused", "Retired"}
    CapArgs = {0, 2}
    ConfigArgs = {}
    AmountArgs <- MCAmountArgs
    MetadataArgs = {}
SYMMETRY MCSymmetry
VIEW MCView
INVARIANTS
    AegisTypeOK
    Conservation
    CreditFits
PROPERTIES
    CreditsRespectCaps
    ImplementsRegulatedToken
