SPECIFICATION ListSpec
CONSTANTS
  Nil = Nil
  NovSize = 3
  OldSize = 6
  PoolSize = 3
  NewAgeMax = 1
  NSlots = 1
  NRoots = 1
  NGlobals = 1
  MajorAllowed = TRUE
  MaxAllocs = 9
INVARIANTS
  TypeOK
PROPERTIES
  PromotionsFit
  MajorIsPrecise
