SPECIFICATION MCSpec
CONSTANTS
  c1 = c1
  c2 = c2
  k1 = k1
  k2 = k2
  Clients = {c1, c2}
  Keys = {k1, k2}
  Byte <- MCBytes
  Backends <- AllBackends
  Jobs <- MCJobs
  Stores <- MCStores
  NoRecord = NoRecord
  Directory = Directory
  NoQuestion = NoQuestion
  Subjects = {"plan", "bytes", "keys"}
CHECK_DEADLOCK FALSE
INVARIANTS NoLostUpdate ListIsComplete ClearIsComplete PlanIsHonest PartsAndRangesExact TreeExact
PROPERTY DeclaredReplacement
