SPECIFICATION FairSpec
CONSTANTS
    r1 = r1
    r2 = r2
    j1 = j1
    j2 = j2
    j3 = j3
    Claims <- MCClaims
    Priority <- MCPriority
    Limit = 2
INVARIANT SlotsConserved
PROPERTY InOrder
PROPERTY ImplementsGate
PROPERTY ResumesServed
