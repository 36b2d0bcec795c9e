SPECIFICATION FairSpec
CONSTANTS
  BUFFER_SIZE = 4
  MaxChars = 12
  Texts <- ShellTexts
PROPERTIES
  FinalPartialWrite
CHECK_DEADLOCK FALSE
