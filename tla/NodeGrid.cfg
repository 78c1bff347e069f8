SPECIFICATION NodeSpec
CONSTANTS
  SlotCount = 3
  Pitch = 16
  Preamble = 2
  Guard = 4
  RateDen = 1000
  RateMax = 100
  MinSpan = 90
  Every = 2
  BeaconSlot = 2
  Window = 6
  Lead = 1
  UlOffset = 5
  MaxWait = 20
  MinSamples = 2
  MinFrames = 2
  Drifts <- MCDrifts
  Slots = {0, 1}
  SyncRounds = {0, 3}
  CopyOffsets = {29}
  ClearsBits = TRUE
  MaxLost = 1
  MaxNow = 360
CHECK_DEADLOCK FALSE
INVARIANTS SearchesAreExact OnTheGridOnceLearned
PROPERTIES NoMarkTwiceOrMissed NothingWaitsBehindASkip
