\* One node of older firmware whose configuration is not in sync.
SPECIFICATION FairSpec
CONSTANTS
    Nodes = {a}
    Absent = {}
    Legacy = {a}
    InSync = {}
    Talking = {}
    MaxWaiters = 1
    MaxLoginRetries = 2
    SettlePolls = 1
    SilentPolls = 1
    HoldPolls = 2
    MaxFaults = 0
PROPERTIES ConfigReloginsEnd
CHECK_DEADLOCK FALSE
