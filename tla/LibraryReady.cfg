SPECIFICATION FairSpec
CONSTANTS
  Providers = {p1, p2}
  Top = p1
  Lists = {"one item"}
  Nothing = "no item"
  Tasks = {t1, t2}
  MaxBreaks = 1
  MaxEdits = 1
INVARIANTS ReadinessAnnounced
PROPERTIES Converges
CHECK_DEADLOCK FALSE
