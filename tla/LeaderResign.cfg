SPECIFICATION FairSpec
CONSTANTS
  Nobody = Nobody
  Instance = {i1, i2}
  Suspending = {}
  Crashing = {i1}
  Resigning = {i1}
  MaxDisturbances = 2
  MaxLoop = 1
PROPERTIES NoClaimAfterStepDown EventuallyLed
CHECK_DEADLOCK FALSE
