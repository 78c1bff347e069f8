\* Three nodes, one of older firmware, one in sync and one that never answers, and one fault:
\* nobody keeps another out, and everybody who is there is onboarded.
SPECIFICATION FairSpec
CONSTANTS
    Nodes = {a, b, c}
    Absent = {c}
    Legacy = {a}
    InSync = {b}
    Talking = {}
    MaxWaiters = 3
    MaxLoginRetries = 2
    SettlePolls = 1
    SilentPolls = 1
    HoldPolls = 2
    MaxFaults = 1
INVARIANTS OnboardingAgrees
PROPERTIES OneOnboarding EveryNodeOnboarded
CHECK_DEADLOCK FALSE
