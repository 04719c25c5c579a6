SPECIFICATION FairSpec
CONSTANTS
  Count <- MCCount
  Image <- MCImage
  FixBits = 8
  BinargsSize = 5
INVARIANTS
  TypeOK
  SyntaxAgrees
  CheckedFormsTransform
  ResultsAgree
  FramesLinked
  WildOnlyAfterCapture
  UnfinishedOnlyAtConsole
  TailLoopsBounded
PROPERTIES
  CallerLocalsKept
  SessionEnds
CHECK_DEADLOCK FALSE
