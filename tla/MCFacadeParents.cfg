SPECIFICATION FacadeSpec
CONSTANTS
  Ops = {p1, p2}
  Tree = Tree
  NoCall = NoCall
  Paths <- MCPaths
  Calls <- ParentsCalls
  InitialTrees <- EmptyTree
  Concurrency = 1
  MayFail = FALSE
INVARIANT ParentIsDirectory
