SPECIFICATION Spec
CONSTANTS
  BUFFER_SIZE = 4
  MaxChars = 12
  Texts <- ShellTexts
PROPERTIES
  ImplementsSerialOut
CHECK_DEADLOCK FALSE
