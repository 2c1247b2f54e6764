SPECIFICATION ObjectFairSpec
CONSTANTS
  Clients = {c1, c2}
  Absent = Absent
  NoRequest = NoRequest
  Slots <- MCSlots
  MaxTries = 2
  MaxChunks = 3
  Concurrency = 2
  Setups <- ManySetups
CHECK_DEADLOCK FALSE
INVARIANTS WrittenWholeOnce ReturnedHasLanded UploadsReleased
PROPERTIES AppendExtends EveryWriteReturns
