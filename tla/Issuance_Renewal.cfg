CHECK_DEADLOCK FALSE
SYMMETRY Symmetric
SPECIFICATION Spec
CONSTANTS
    j1 = j1
    j2 = j2
    None = None
    r1 = r1
    Provider <- BothProviders
    Renewer <- MCRenewer
    Button <- MCRenewer
    Worker = Worker
    Name <- MCName
    Base <- MCBase
    Zone <- MCZone
    Order <- TwoOrders
    Job <- MCJob
PROPERTY
    RenewalPreserves
