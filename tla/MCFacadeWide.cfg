SPECIFICATION FacadeFairSpec
CONSTANTS
  Ops = {p1, p2}
  Tree = Tree
  NoCall = NoCall
  Paths <- WidePaths
  Calls <- WideCalls
  InitialTrees <- WideTrees
  Concurrency = 2
  MayFail = TRUE
INVARIANTS CopyIsExact NoStragglers
PROPERTY EveryCallReturns
