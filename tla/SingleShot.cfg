CONSTANTS
    Channels = {"control"}
    MaxRetries = 2
    Optimistic = TRUE
    MaxBoots = 1
    MaxUp = 2
SPECIFICATION Spec
INVARIANT BoundedExposure
PROPERTY MissIsRetriedAsBurst
PROPERTY OldSessionProvesNothing
CHECK_DEADLOCK FALSE
