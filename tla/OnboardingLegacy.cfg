\* A node of older firmware, brought up again and again, and one whose configuration is in
\* sync, two faults: neither keeps the other out.
SPECIFICATION FairSpec
CONSTANTS
    Nodes = {a, b}
    Absent = {}
    Legacy = {a}
    InSync = {b}
    Talking = {}
    MaxWaiters = 3
    MaxLoginRetries = 3
    SettlePolls = 1
    SilentPolls = 1
    HoldPolls = 2
    MaxFaults = 2
INVARIANTS OnboardingAgrees
PROPERTIES OneOnboarding EveryNodeOnboarded
CHECK_DEADLOCK FALSE
