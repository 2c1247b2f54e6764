SPECIFICATION FacadeSpec
CONSTANTS
  Ops = {p1, p2}
  Tree = Tree
  NoCall = NoCall
  Paths <- MCPaths
  Calls <- AllCalls
  InitialTrees <- AllTrees
  Concurrency = 1
  MayFail = TRUE
INVARIANTS ParentIsDirectory WriteTakesEffect RemoveIsComplete
PROPERTY CopySourceIsStable
SYMMETRY Symmetry
