SPECIFICATION TimerSpec
CONSTANTS
  Period = 7
  MaxGap = 3
  MaxWraps = 3
INVARIANTS
  DeltaIsElapsed
CHECK_DEADLOCK FALSE
