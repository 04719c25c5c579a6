SPECIFICATION Spec
CONSTANTS
  Names = {"a", "b", "car", "quote"}
  Specials = {"quote"}
  Builtins = {"car"}
  Values = {v1, v2}
  Undef = Undef
  HashOf <- NameCode
  Rows = 2
  First = 1
  Limit = 4
  Twins = 2
  MaxPtr = 5
  Scalars = {"one", "two", "string"}
  Objects = {"string"}
  Data = {v1, v2}
  Absent = Absent
  CodeOf <- KeyCode
  MaxRows = 2
  Units = {"a", "high", "low"}
  Chars <- OneOrTwoUnits
  NoHash = NoHash
  Initial = 1
  MaxText = 10
INVARIANTS
  TypeOK
  OneSymbolPerName
  WildOnlyAfterRefusal
  HashIsOfText
  SpillsOneUnit
PROPERTIES
  GlobalsAreBindings
  TableIsBindings
\* The process ends where code leaves the table of globals (ExecuteWild) and
\* where an operation on a table breaks it (Break).
CHECK_DEADLOCK FALSE
