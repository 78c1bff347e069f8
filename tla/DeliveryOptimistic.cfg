\* The optimistic acknowledgement of an update command.
SPECIFICATION Spec
CONSTANTS
    MaxRetries = 1
    QueueDepth = 1
    AckCap = 2
    ReplayWindow = 4
    CacheEntries = 2
    MaxReAcks = 1
    Optimistic = TRUE
    UserKinds = {"ota"}
    MaxCommands = 1
    MaxFaults = 1
    MaxUp = 1

INVARIANTS OtaAtMostOnce
CHECK_DEADLOCK FALSE
