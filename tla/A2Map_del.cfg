\* The table of a script map, with deletions, under collisions.
SPECIFICATION DelSpec
CONSTANTS
  Keys <- MCKeys
  Values = {v1}
  NoKey = NoKey
  NoValue = NoValue
  CalcHash <- MCHashDel
  InitSize = 2
  MaxSize = 4
INVARIANTS
  TypeOK
  CapIsOccupancy
