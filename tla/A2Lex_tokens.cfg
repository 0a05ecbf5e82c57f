\* Texts are read as the tokens that they consist of.
SPECIFICATION Spec
CONSTANTS
  Size = 5
  Nul = "nul"
  Unknown = "unknown"
  Strings <- MCStrings
  Files <- MCFiles
CHECK_DEADLOCK FALSE
INVARIANTS
  Lexed
PROPERTIES
  LexEnds
