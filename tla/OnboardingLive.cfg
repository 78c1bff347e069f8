\* Two nodes that are there, two faults: everybody is onboarded in the end.
SPECIFICATION FairSpec
CONSTANTS
    Nodes = {a, b}
    Absent = {}
    Legacy = {}
    InSync = {b}
    Talking = {a}
    MaxWaiters = 2
    MaxLoginRetries = 3
    SettlePolls = 1
    SilentPolls = 1
    HoldPolls = 2
    MaxFaults = 2
PROPERTIES
    EveryNodeOnboarded
CHECK_DEADLOCK FALSE
