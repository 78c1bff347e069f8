\* No stream at all: only the command path against the session.
SPECIFICATION Spec
CONSTANTS
    ping = ping
    test = test
    PingStreams <- None
    TestStreams <- None
    RestartTests = FALSE
    BlockSizes <- Two
    FcntLimit = 5
    RxWindow = 3
    MaxLogins = 1
    MaxEpoch = 3
    MaxNodeKeys = 2
    MaxUplinks = 1
    MaxBoots = 0
    RestoreMargin = 1
INVARIANTS NoPlaintextCommandInSession
