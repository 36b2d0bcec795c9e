SPECIFICATION Spec
CONSTANTS
  BUFFER_SIZE = 4
  MaxChars = 12
  Texts <- ShellTexts
INVARIANTS
  TypeOK
  HostInOrder
PROPERTIES
  PortUntilFull
CHECK_DEADLOCK FALSE
