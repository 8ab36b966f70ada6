SPECIFICATION RuntimeSpec
CONSTANTS
  Task = {t1, t2, t3}
  NoTask = NoTask
  Cancelling = {t1, t2}
  Finalizing = TRUE
  Callback = {c1, c2, c3}
  MaxSubs = 3
  MaxDepth = 2
  Module = {m1, m2}
  Service = {s1, s2}
  NoItem = NoItem
  Constructed = {m1, s1}
  AtExit = {m2, s2}
  Code = {0, 1}
  RestartCode = RestartCode
  TicksPerTen = 2
  Stopping = {"init", "run", "exit"}
  HookRaises = TRUE
  Job = {j1, j2, j3}
  NoJob = NoJob
  Day = 8
  Hours = {2, 4, 6}
  MaxDays = 3
  MaxCalls = 5
  MaxAlerts = 3
  MaxMetrics = 2
  Key = {k1}
  Kind = {"gauge", "counter", "eps", "duty", "dynCounter", "dynAggregation", "dynHistogram"}
  Name = {"a"}
  DynTags = {d1}
  NoTags = NoTags
  Expiration = 1
  MaxTime = 2
  MaxUpdates = 2
  Thread = {main, t1}
  MainThread = main
  MaxRecords = 4
  MaxSendErrors = 1
  Stream = {w1, w2}
  Room = 2
  MaxStreamed = 3
  File = {m, a, b}
  MainFile = m
  Globs = {{m}, {a}, {a, b}}
  Defaults = Defaults
  Node = Node
INVARIANTS RunningHeld FinalizedIsFinal MissedAreShifted FinalizedInReverse NothingSlips OncePerInterval
PROPERTIES ScheduledRuns DoneReported OnlySubscribed StopEnds RestartHappens RegisteredInitialized LoopsGoOn
CHECK_DEADLOCK FALSE
