SPECIFICATION FairSpec
CONSTANTS
  Nobody = Nobody
  Instance = {i1, i2}
  Suspending = {i1}
  Crashing = {}
  Resigning = {}
  MaxDisturbances = 1
  MaxLoop = 1
PROPERTY EventuallyLed
CHECK_DEADLOCK FALSE
