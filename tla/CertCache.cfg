CHECK_DEADLOCK FALSE
SPECIFICATION FairSpec
CONSTANTS
    r1 = r1
    r2 = r2
    t1 = t1
    main = main
    RuleId <- MCRuleId
    Host <- MCHost
    CertName <- MCCertName
    Task <- MCTask
    Main = main
    InitialDb <- MCInitialDb
    InitialBackup <- MCBackup
    MaxStamp = 3
    MaxRequests = 2
    NewRules <- MCNewRules
    PatchBodies <- MCPatchBodies
    MaxFaults = 1
INVARIANTS
    TypeOK
    PresentedIsJustified
    SettledCovered
    SettledFresh
PROPERTIES
    NoHandshakeGap
    EventuallyCovered
