\* One ping and one test stream, a hub restart, the 2^24 counter scaled down, fair timers.
SPECIFICATION FairSpec
CONSTANTS
    ping = ping
    test = test
    PingStreams <- Ping
    TestStreams <- Test
    RestartTests = FALSE
    BlockSizes <- Two
    FcntLimit = 4
    RxWindow = 3
    MaxLogins = 2
    MaxEpoch = 3
    MaxNodeKeys = 1
    MaxUplinks = 1
    MaxBoots = 1
    RestoreMargin = 1
INVARIANTS SealSound KeysAreLive
PROPERTIES AcceptedOnce BufferOwnership StopCompletes
