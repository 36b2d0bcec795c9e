SPECIFICATION FairSpec
CONSTANTS
  heap_start = 1
  MaxHeapEnd = 30
  Align = 2
  Size <- MCSize
INVARIANTS
  TypeOK
  BlocksInHeap
  BlocksDisjoint
  PromptHasPort
  LitByATask
PROPERTIES
  ShellGetsReady
  ListsAgain
  Blinks
CHECK_DEADLOCK FALSE
