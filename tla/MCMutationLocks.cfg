SPECIFICATION LockFairSpec
CONSTANTS
  Ops = {p1, p2, p3}
  Paths = {f1, f2}
  Tree = Tree
INVARIANTS OperationsExclude NothingLeaked
PROPERTIES TreeNotOvertaken EveryAcquireEnds
