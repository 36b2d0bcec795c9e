SPECIFICATION MCSpec
CONSTANTS
  COMMAND_SIZE = 5
  MAXARGS = 2
  Chars <- AllChars
  Lines <- ShortLines
  LineSize = 6
  Width = 16
  Printable = {"a", "SP"}
  Delimiters = {"SP"}
  Rubouts = {"BS", "DEL"}
INVARIANTS
  TypeOK
  ArgsFit
  CutsDelimiters
  ArgsAreWords
  AnswerFitsLine
  ShellTypeOK
  StoresInside
  EnteredIsLine
  ReturnedIsParsed
