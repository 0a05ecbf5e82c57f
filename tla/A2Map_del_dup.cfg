\* Deletions under collisions break an assertion of the code.
SPECIFICATION Spec
CONSTANTS
  Keys <- MCKeys
  Values = {v1}
  NoKey = NoKey
  NoValue = NoValue
  CalcHash <- MCHashDel
  InitSize = 2
  MaxSize = 4
INVARIANTS
  NoDuplicateKeys
