CHECK_DEADLOCK FALSE
SPECIFICATION Spec
CONSTANTS
    j1 = j1
    j2 = j2
    None = None
    r1 = r1
    Provider <- OneProvider
    Renewer <- MCRenewer
    Button <- MCRenewer
    Worker = Worker
    Name <- MCName
    Base <- MCBase
    Zone <- MCZone
    Order <- OneOrder
    Job <- MCJob
INVARIANTS
    TypeOK
    CompletedIsStored
    NoLeftovers
    FewAccounts
    NoneForgotten
PROPERTIES
    KeepsPromise
    JobsSettle
