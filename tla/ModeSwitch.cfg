SPECIFICATION FairSpec
CONSTANTS
  Tables = {"t1", "t2"}
  Seed <- SeedSchedule
  MaxRetries = 1
  AckCap = 2
  Override = FALSE
  MaxEdits = 2
  MaxFaults = 0
  MaxEvents = 2
  MaxUp = 2
PROPERTIES AskedReachesNode
CHECK_DEADLOCK FALSE
