\* Strings, meta tables, globals, chunks; a fourth object is added to long paths.
SPECIFICATION Spec
CONSTANTS
  Objs = {o1, o2, o3, o4}
  NoObj = NoObj
  Regs = {r1, r2}
  NoReg = NoReg
  Globals = {g1}
  Strings = {s1}
  Containers <- MCContainers
  DefThreshold = 1
  MaxEntries = 1
SYMMETRY MCSymmetry
CONSTRAINT Followed
INVARIANTS
  TypeOK
  CountIsChain
  
  MarksClean
  
  InternSound
  MetaIsMap
PROPERTIES
  FreesExactlyGarbage
  GrowthBounded
