\* A node that keeps its keys while the hub restarts its streams.
SPECIFICATION Spec
CONSTANTS
    ping = ping
    test = test
    PingStreams <- None
    TestStreams <- Test
    RestartTests = TRUE
    BlockSizes <- Two
    FcntLimit = 8
    RxWindow = 3
    MaxLogins = 1
    MaxEpoch = 4
    MaxNodeKeys = 2
    MaxUplinks = 1
    MaxBoots = 0
    RestoreMargin = 1
INVARIANTS KeystreamUnique
