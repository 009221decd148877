SPECIFICATION Spec
CONSTANTS
    p1 = p1
    p2 = p2
    p3 = p3
    Call <- MCCall
    Verified <- MCVerified
    MaxTokens = 3
PROPERTIES
    EveryCallSettles
CHECK_DEADLOCK FALSE
