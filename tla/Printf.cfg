SPECIFICATION Spec
CONSTANTS
  Word = 256
  PRINT_BUF_LEN = 5
  NULL = NULL
  Formats <- AllFormats
  Ints <- SomeInts
  Strings <- SomeStrings
  Chars = {"a", "NUL"}
INVARIANTS
  TypeOK
  BufferIsEnough
  NumberReadsBack
  FieldAligned
PROPERTIES
  InterruptsComeBack
CHECK_DEADLOCK FALSE
