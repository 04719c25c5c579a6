SPECIFICATION FairSpec
CONSTANTS
  Inputs <- MCInputs
  Longest = 4
  LongestList = 5
INVARIANTS
  TypeOK
  LexemesAgree
  DataAgree
PROPERTIES
  ReadingEnds
CHECK_DEADLOCK FALSE
