SPECIFICATION FairSpec
CONSTANTS
  Items = {i1, i2}
  Present = {i1}
  MaxChecks = 2
  MaxEdits = 2
  MaxVersion = 1
  MaxScheduled = 1
  MaxSubscribes = 1
  MaxBreaks = 1
INVARIANTS DigestIsKnown
PROPERTIES Learns
CHECK_DEADLOCK FALSE
