SPECIFICATION FairSpec
CONSTANTS
  Tables = {"t1", "t2"}
  Seed <- SeedSchedule
  MaxRetries = 1
  AckCap = 2
  Override = TRUE
  MaxEdits = 2
  MaxFaults = 2
  MaxEvents = 3
  MaxUp = 2
INVARIANTS PendingIsTrue
PROPERTIES IntentIsKept ScheduleArrives
CHECK_DEADLOCK FALSE
