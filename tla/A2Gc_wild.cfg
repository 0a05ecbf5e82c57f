\* A collection meets a register that a call has not written yet.
SPECIFICATION RegisterSpec
CONSTANTS
  Objs = {o1, o2, o3, o4}
  NoObj = NoObj
  Regs = {r1, r2}
  NoReg = NoReg
  Globals = {g1}
  Strings = {}
  Containers <- MCContainers
  DefThreshold = 1
  MaxEntries = 1
SYMMETRY MCSymmetry
INVARIANTS
  MarksInHeap
