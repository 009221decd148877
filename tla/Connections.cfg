SPECIFICATION Spec
CONSTANTS
    c1 = c1
    c2 = c2
    s1 = s1
    s2 = s2
    None = None
    Conn <- MCConn
    Stream <- MCStream
    RuleId = {"r1", "r2"}
    Group = {"g1", "g2"}
    Domain = {"a"}
    Target = {"t1", "t2"}
    Rows <- MCRows
    InitialRules <- MCInitialRules
    MaxInHandling = 2
    MaxEdits = 1
    MaxFaults = 1
INVARIANTS
    TypeOK
    CounterExact
    OwnGroupOnly
PROPERTIES
    WindsDown
    WithdrawnRulesEnd
