SPECIFICATION GovernanceSpec
CONSTANTS
    a1 = a1
    a2 = a2
    NoAddress = NoAddress
    NoProposal = NoProposal
    NoConfig = NoConfig
    MaxAmount = 2
    Address <- MCAddress
    Nominees <- MCAddress
    RoleArgs = {"None", "EmergencyOfficer"}
    CapArgs <- MCCapArgs
    ConfigArgs <- MCConfigArgs
SYMMETRY MCSymmetry
VIEW MCView
INVARIANTS
    GovernanceTypeOK
    ProposalIsAChange
PROPERTIES
    SupplyCapIsTwoStep
    HoldingCapIsTwoStep
    ConfigIsTwoStep
