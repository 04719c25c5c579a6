SPECIFICATION Spec
CONSTANTS
  Site <- VmSite
  Main = "main"
  Code <- VmCode
  Calls <- VmCalls
  Raises <- ConsoleRaises
  Clause <- VmClause
  Saves <- VmSaves
  MaxDepth = 5
  MaxRoots = 2
  MaxLinks = 6
INVARIANTS
  NeverJumpsWild
