SPECIFICATION WebSpec
CONSTANTS
  Services = {s1, s2}
  Early = {s2}
  Lifetime = 2
  Leeway = 1
  MaxTodo = 2
  MaxKeys = 6
  MaxDeletes = 1
  MaxBreaks = 1
  MaxRaises = 1
  Caller = {a, b}
  TenantId = {t1}
  Configured = {}
  NoList = NoList
  MaxMoves = 1
  MaxRefusals = 1
  Boot = a
  MaxKey = 2
  TokenLifetime = 1
  TokenLeeway = 1
  MaxClock = 2
  NoTenant = NoTenant
  Resource = {r1}
  Superuser = superuser
  Stranger = stranger
  Unset = Unset
  None = None
  Instance = {i1, i2}
  Service = Service
  NoToken = NoToken
INVARIANTS OneKey ServedAreEntitled EntitledAreServed ToldIsTrue
PROPERTIES KeysConverge
CHECK_DEADLOCK FALSE
