SPECIFICATION AdminSpec
CONSTANTS
    a1 = a1
    a2 = a2
    a3 = a3
    NoAddress = NoAddress
    Address <- MCAddress
    Nominees <- MCAddress
    RoleArgs = {"None", "Admin", "ComplianceOfficer", "AssetManager", "EmergencyOfficer"}
SYMMETRY MCSymmetry
PROPERTY InitializeFindsFreshContract
