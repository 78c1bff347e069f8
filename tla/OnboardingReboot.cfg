\* One node and a hub that stays up.
SPECIFICATION Spec
CONSTANTS
    Nodes = {a}
    Absent = {}
    Legacy = {}
    InSync = {a}
    Talking = {}
    MaxWaiters = 1
    MaxLoginRetries = 2
    SettlePolls = 1
    SilentPolls = 1
    HoldPolls = 2
    MaxFaults = 1
PROPERTIES HubRebootedOnlyOnce
CHECK_DEADLOCK FALSE
