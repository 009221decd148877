CHECK_DEADLOCK FALSE
SPECIFICATION Spec
CONSTANTS
    g1 = g1
    g2 = g2
    g3 = g3
    t1 = t1
    t2 = t2
    GroupId <- MCGroupId
    Port <- MCPort
    Task <- MCTask
    NewGroups <- MCNewGroups
    PatchBodies <- MCPatchBodies
    Backups <- MCBackups
    InitialGroups <- MCInitialGroups
    Occupied <- MCOccupied
    MaxRequests = 2
    MaxRestarts = 1
INVARIANT
    PortsDistinct
