\* Scripts are compiled and run; what they leave behind is what they mean.
SPECIFICATION Spec
CONSTANTS
  ArgMax = 14
  BMax = 3
  BxMax = 18
  MaxCalls = 8
  Compile <- Exec
  Intent <- MCIntent
  Programs <- MCPrograms
  Globals <- MCGlobals
CHECK_DEADLOCK FALSE
INVARIANTS
  Balanced
  OperandsEncodable
  CodeFits
  NoJunkRead
  Means
PROPERTIES
  Terminates
