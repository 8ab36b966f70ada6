SPECIFICATION StorageSpec
CONSTANTS
  Clients = {c1, c2}
  Ids = {i1}
  Flawed = {}
  Guarded = {i1}
  Types = {"inmemory", "elasticsearch"}
  MaxWrites = 3
  MaxDeletes = 0
  MaxBulks = 0
  MaxFaults = 0
  MaxDecrypts = 0
PROPERTIES OthersLocked
CHECK_DEADLOCK FALSE
