SPECIFICATION StorageSpec
CONSTANTS
  Clients = {c1, c2}
  Ids = {i1, i2}
  Flawed = {i1}
  Guarded = {i2}
  Types = {"mongodb", "inmemory", "elasticsearch"}
  MaxWrites = 4
  MaxDeletes = 2
  MaxBulks = 1
  MaxFaults = 1
  MaxDecrypts = 1
PROPERTIES SoftLocked
CHECK_DEADLOCK FALSE
