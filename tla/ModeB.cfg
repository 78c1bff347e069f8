SPECIFICATION Spec
CONSTANTS
  None = None
  Nodes = {n1, n2}
  Cap = 2
  Settle = 1
  Jitter = 1
  Warmup = 1
  Manual = 1
  Lease = 3
  Verify = 1
  YieldRetry = 1
  HoldOff = 1
  Rearm = 2
  Backoff <- MBackoff
  MaxEvents = 2
INVARIANTS WarmupAlone TokenSound
PROPERTIES ManualUndisturbed EveryoneGetsATurn
