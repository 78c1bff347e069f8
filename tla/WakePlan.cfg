SPECIFICATION PlanSpec
CONSTANTS
  DayLen = 6
  Weekdays = 2
  Tz = 2
  SearchDays = 3
  MaxEntries = 2
  SleepFor = 5
  CheckIn = 5
  Lead = 1
  Interactive = 2
  ClassA = 1
  Margin = 1
  Grace = 3
  Net = 4
  Stay = 2
  SeedTables <- MCSeedTables
  Texts <- MCTexts
  Minutes = {2}
  DaySets <- MCDaySets
  MaxChanges = 1
  MaxMishaps = 1
  MaxBoots = 1
  MaxNow = 12
CHECK_DEADLOCK FALSE
INVARIANTS ScheduleSearchIsExact SensorEndsOnTime BeliefIsTrue
