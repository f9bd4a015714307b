SPECIFICATION ComplianceSpec
CONSTANTS
    a1 = a1
    a2 = a2
    NoAddress = NoAddress
    Address <- MCAddress
    Nominees <- MCAddress
    RoleArgs = {"None", "ComplianceOfficer", "AssetManager", "EmergencyOfficer"}
    StatusArgs = {"Unknown", "Pending", "Approved", "Revoked", "Blocked"}
    MaxBatch = 2
SYMMETRY MCSymmetry
VIEW MCView
PROPERTY LegacyEventsProjectWhitelist
