\* One test stream, two logins, the 2^24 counter scaled down.
SPECIFICATION Spec
CONSTANTS
    ping = ping
    test = test
    PingStreams <- None
    TestStreams <- Test
    RestartTests = FALSE
    BlockSizes <- Two
    FcntLimit = 5
    RxWindow = 3
    MaxLogins = 2
    MaxEpoch = 3
    MaxNodeKeys = 2
    MaxUplinks = 1
    MaxBoots = 1
    RestoreMargin = 1

INVARIANTS KeystreamUnique CopyMatchesSeal ConfirmedHasKeys StoredFrameIsLive KeysMatchSessionId
PROPERTIES AcceptedOnce BufferOwnership
