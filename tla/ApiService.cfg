SPECIFICATION ApiSpec
CONSTANTS
  NoWorker = NoWorker
  NoPath = NoPath
  Path = {p1}
  Worker = {w1, w2}
  MaxData = 3
  MaxJobs = 2
  MaxRounds = 2
  MaxDisturbances = 2
  Item = {n1, n2}
  MaxChanges = 2
  MaxSuspends = 2
  MaxFailures = 1
  Ticks = TRUE
INVARIANTS SettledAgrees
PROPERTIES NeverOlder MirroredInTheEnd
