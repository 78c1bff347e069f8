\* A short queue that overflows between a read and its delete.
SPECIFICATION Spec
CONSTANTS
  MaxQueue = 2
  MaxLines = 2
  Coldest = 17
  Warmest = 30
  Targets = {20, 24}
  MaxOrders = 3
  MaxTimeouts = 1
CHECK_DEADLOCK FALSE
INVARIANT OnlyReadIsDeleted
