SPECIFICATION AirSpec
CONSTANTS
    Nodes = {0, 1}
    Round = 8
    Pitch = 2
    Guard = 1
    Lead = 1
    ToT0 = 1
    BeaconSlot = 3
    BeaconEvery = 2
    Stride = 2
    BurstCopies = 4
    FrameTime = 1
    ResponseWindow = 2
    PoolSize = 3
    MaxReservations = 4
    MaxSearchRounds = 8
    Placers = {"loop"}
    Waker = 2
    Rx1 = 4
    Rx2 = 8
    ReplyAfter = 2
    MaxStart = 1
    MaxSends = 3
    MaxNow = 16
INVARIANTS
    PlanSound
    MarksAreOwn
    ReplyOnTime
CHECK_DEADLOCK FALSE
