CONSTANTS
    Channels = {"config"}
    MaxRetries = 3
    Optimistic = FALSE
    MaxBoots = 0
    MaxUp = 2
SPECIFICATION Spec
INVARIANT BoundedExposure
CHECK_DEADLOCK FALSE
