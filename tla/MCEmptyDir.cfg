SPECIFICATION MCSpec
CONSTANTS
  c1 = c1
  c2 = c2
  k1 = k1
  k2 = k2
  Clients = {c1, c2}
  Keys = {k1, k2}
  Byte <- MCBytes
  Backends <- AllBackends
  Jobs <- EmptyJobs
  Stores <- FullStores
  NoRecord = NoRecord
  Directory = Directory
  NoQuestion = NoQuestion
  Subjects = {}
CHECK_DEADLOCK FALSE
INVARIANT EmptiesAll
