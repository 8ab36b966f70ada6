SPECIFICATION FairSpec
CONSTANTS
  Nobody = Nobody
  Instance = {i1, i2}
  Suspending = {i1, i2}
  Crashing = {i1, i2}
  Resigning = {}
  MaxDisturbances = 1
  MaxLoop = 2
INVARIANTS ClaimsDistinct LeaderHoldsNode
PROPERTY AnnouncementsSettle
