SPECIFICATION Spec
CONSTANTS
    h1 = h1
    h2 = h2
    None = None
    KeyOrder <- MCKeyOrder
    Address <- MCAddress
    Refused <- MCRefused
    Hosted <- MCHosted
    Backups <- MCBackups
    Task <- MCTask
    MaxEdits = 2
    MaxFaults = 1
INVARIANTS
    TypeOK
    ManagedIsPublished
    NotRecreated
PROPERTIES
    TogglesAdd
    Settles
CHECK_DEADLOCK FALSE
