SPECIFICATION FairSpec
CONSTANTS
  Writers = {w1, w2}
  Readers = {}
  Absent = Absent
  Parts <- TwoParts
  MinAge = 1
  MaxDeletes = 1
  MaxWrite = 0
  MaxCommit = 0
  MaxRead = 1
  MaxTime = 2
  Batched = FALSE
  LostReplies = TRUE
  Aborts = FALSE
  Crashes = FALSE
INVARIANT AcknowledgedBodyComplete
PROPERTY GarbageIsReclaimed
