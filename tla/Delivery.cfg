\* One retry, two commands of any kind, and one fault: a node reboot, a frame that
\* cannot be built, a frame of another channel or a status report.
SPECIFICATION FairSpec
CONSTANTS
    MaxRetries = 1
    QueueDepth = 1
    AckCap = 2
    ReplayWindow = 4
    CacheEntries = 2
    MaxReAcks = 1
    Optimistic = FALSE
    UserKinds = {"cover", "sleep", "ota"}
    MaxCommands = 2
    MaxFaults = 1
    MaxUp = 1

INVARIANTS AcksAreTrue RunsNoMoreOften NothingSentToSleeper
PROPERTIES Contract EveryCommandEnds
CHECK_DEADLOCK FALSE
