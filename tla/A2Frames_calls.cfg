\* Calls, C functions, protected calls and errors, one variable per call.
SPECIFICATION Spec
CONSTANTS
  Closures = {c1, c2, c3, c4}
  NoClosure = NoClosure
  UvObjs = {u1, u2}
  NoUvObj = NoUvObj
  Activations = {a1, a2, a3}
  NoActivation = NoActivation
  NoCell = NoCell
  Values = {v1, v2}
  NoValue = NoValue
  Regs = 3
  Locals = 1
  MaxFrames = 4
SYMMETRY MCSymmetry
CONSTRAINT Sound
INVARIANTS
  TypeOK
  FramesFit
  JumpTargets
  ClosesInFrame
  OpenUpvaluesNoted
  SharedAlike
PROPERTIES
  RefinesCells
