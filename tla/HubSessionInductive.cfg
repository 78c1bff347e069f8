\* One ping and one test stream, every invariant of the proofs, fair timers.
SPECIFICATION FairSpec
CONSTANTS
    ping = ping
    test = test
    PingStreams <- Ping
    TestStreams <- Test
    RestartTests = FALSE
    BlockSizes <- Two
    FcntLimit = 5
    RxWindow = 3
    MaxLogins = 1
    MaxEpoch = 2
    MaxNodeKeys = 1
    MaxUplinks = 1
    MaxBoots = 0
    RestoreMargin = 1
INVARIANTS TypeOK FcntInSpace IInv LiveInv
PROPERTIES StopCompletes
