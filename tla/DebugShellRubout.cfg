SPECIFICATION ShellSpec
CONSTANTS
  LineSize = 6
  Width = 16
  Printable = {"a", "SP"}
  Delimiters = {"SP"}
  Rubouts = {"BS", "DEL"}
INVARIANTS
  ParsedIsTyped
