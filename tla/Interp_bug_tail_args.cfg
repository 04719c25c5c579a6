SPECIFICATION FairSpec
CONSTANTS
  Count <- MCCount
  Image <- MCImage
  FixBits = 8
  BinargsSize = 5
INVARIANT LoopsAgree
CHECK_DEADLOCK FALSE
