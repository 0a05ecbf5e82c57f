\* What blocks make of a text.
SPECIFICATION Spec
CONSTANTS
  Size = 5
  Nul = "nul"
  Unknown = "unknown"
  Bytes <- MCBytes
  Texts <- MCTexts
  MaxLook = 2
INVARIANTS
  Window
PROPERTIES
  ReadsText
