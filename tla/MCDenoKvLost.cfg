SPECIFICATION Spec
CONSTANTS
  Writers = {w1, w2}
  Readers = {r1}
  Absent = Absent
  Parts <- TwoParts
  MinAge = 2
  MaxDeletes = 1
  MaxWrite = 1
  MaxCommit = 0
  MaxRead = 1
  MaxTime = 3
  Batched = FALSE
  LostReplies = TRUE
  Aborts = FALSE
  Crashes = FALSE
SYMMETRY Symmetry
INVARIANT VisibleBodyComplete
