SPECIFICATION Spec
CONSTANTS
  Site <- VmSite
  Main = "main"
  Code <- VmCode
  Calls <- VmCalls
  Raises <- FileRaises
  Clause <- VmClause
  Saves <- VmSaves
  MaxDepth = 5
  MaxRoots = 3
  MaxLinks = 6
INVARIANTS
  TypeOK
  ChainIsNesting
  LiveLinksAreNesting
  WildOnlyAfterSwallow
  StaleRootsOnlyInRetry
PROPERTIES
  RaiseEnds
