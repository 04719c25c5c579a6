SPECIFICATION FairNSpec
CONSTANTS
  Nil = Nil
  NovSize = 2
  OldSize = 4
  PoolSize = 2
  NewAgeMax = 1
  NSlots = 1
  NRoots = 2
  NGlobals = 1
  MajorAllowed = TRUE
  MaxAllocs = 2
INVARIANTS
  DanglingOnlyInStale
PROPERTIES
  StepsAsMutatorHeap
  CollectionEnds
  AllocEnds
