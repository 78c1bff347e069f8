SPECIFICATION FairSpec
CONSTANTS
    PoolSize = 2
    HandoffSize = 2
    MaxEntries = 2
    MaxKeys = 1
    Lead = 1
    Stride = 1
    Policies <- MCPolicies
    MaxFrames = 3
    MaxNow = 2
INVARIANTS
    NothingLost
    FifoHoldsFrame
PROPERTIES
    Contract
    QueueEmpties
