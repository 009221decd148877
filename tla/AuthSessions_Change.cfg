CHECK_DEADLOCK FALSE
SPECIFICATION Spec
CONSTANTS
    b1 = b1
    b2 = b2
    t1 = t1
    t2 = t2
    Name <- MCName
    Password <- MCPassword
    Browser <- MCBrowser
    Task <- MCTask
    InitialTables <- MCInitialTables
    MaxRequests = 4
INVARIANTS
    ChangeInvalidatesAll
