\* Tokens are read as the statements that the grammar says they are.
SPECIFICATION Spec
CONSTANTS
  Parse <- MCParse
  Describes <- MCDescribes
  Texts <- MCTexts
  Inputs <- MCInputs
  Programs <- MCPrograms
CHECK_DEADLOCK FALSE
INVARIANTS
  Faithful
  RoundTrip
PROPERTIES
  Advances
