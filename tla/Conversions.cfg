SPECIFICATION Spec
CONSTANTS
  Period = 7
  MaxGap = 3
  MaxWraps = 3
  Ten = 2
  Thousand = 8
  Word = 2048
  SystemCoreClock = 768
  CORE_CLOCK_SCALE = 4
  Slices <- MCSlices
  MaxTime = 18000
  Bits = 1
INVARIANTS
  TypeOK
  NeverBehind
  RunTimeExact
  ChargedElapsed
  MinimumIsOne
  DelayInCounts
  OctetStream
  WordArrives
CHECK_DEADLOCK FALSE
