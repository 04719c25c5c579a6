SPECIFICATION NSpec
CONSTANTS
  Nil = Nil
  NovSize = 3
  OldSize = 6
  PoolSize = 2
  NewAgeMax = 1
  NSlots = 1
  NRoots = 2
  NGlobals = 1
  MajorAllowed = FALSE
  MaxAllocs = 2
INVARIANTS
  NoDangling
  NoStaleHolder
  OldToYoungRemembered
  PoolAssertsHold
  PoolInBounds
PROPERTIES
  ImplementsMutatorHeap
