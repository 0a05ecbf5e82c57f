\* Host, C functions and scripts share one stack through calls and errors.
SPECIFICATION Spec
CONSTANTS
  Values = {v1}
  Keys = {k1, k2}
  Nil = Nil
  Msg = Msg
  None = None
  DefSize = 2
  MaxTop = 4
  MaxRuns = 2
  MaxCount = 2
  MaxWant = 1
  Perils <- MCNoPerils
SYMMETRY MCSymmetry
INVARIANTS
  WindowsNest
  RegistryTrue
PROPERTIES
  RefinesStacks
