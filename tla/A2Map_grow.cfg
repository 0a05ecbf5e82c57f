\* A table that only grows: globals, registry, symbol tables; and foreach
\* loops over it.
SPECIFICATION GrowSpec
CONSTANTS
  Keys <- MCKeys
  Values = {v1, v2}
  NoKey = NoKey
  NoValue = NoValue
  CalcHash <- MCHashGrow
  InitSize = 1
  MaxSize = 4
SYMMETRY MCValueSymmetry
INVARIANTS
  GrowInv
  QueriesEnd
  IterationComplete
  IterationFresh
PROPERTIES
  RefinesDict
