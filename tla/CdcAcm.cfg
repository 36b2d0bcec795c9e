SPECIFICATION FairSpec
CONSTANTS
  QueueLength = 2
  MaxPacket = 2
  MaxBytes = 4
INVARIANTS
  TypeOK
  InterruptToken
  NoLostWakeup
  QueueBeforeUse
PROPERTIES
  ImplementsSerialIn
  StatusServed
  InputReachesShell
