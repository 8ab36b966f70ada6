SPECIFICATION ProvidersSpec
CONSTANTS
  Paths = {p1, p2}
  Inits = {j1, j2}
  MaxCommits = 2
  MaxGitErrors = 1
  MaxCrashes = 1
  Mirrors = {m1, m2}
  MaxVersions = 3
  Few = {1}
  MaxDownloadErrors = 2
  Names = {"d"}
  MaxDepth = 2
  Layered = FALSE
  MaxFileEdits = 3
  MaxListFails = 1
  Reads = {r1, r2}
  MaxBlob = 3
  MaxBroken = 1
  Owner = Owner
  Everybody = Everybody
  Person = Person
  None = None
  Readings = {d1, d2}
  MaxEntries = 1
  Tenant = {Owner}
  MaxTargetEdits = 3
  MaxAsks = 2
INVARIANTS SubscribersKnow ServedWhole ListedIsOpened DisabledKnown
PROPERTIES ChangesArrive
CHECK_DEADLOCK FALSE
