SPECIFICATION Spec
CONSTANTS
  Nil = Nil
  NovSize = 3
  OldSize = 6
  PoolSize = 3
  NewAgeMax = 1
  NSlots = 1
  NRoots = 2
  NGlobals = 1
  MajorAllowed = TRUE
  MaxAllocs = 2
INVARIANTS
  NoDangling
