\* A function that has captured is entered again before it returns.
SPECIFICATION RecursionSpec
CONSTANTS
  Closures = {c1, c2, c3}
  NoClosure = NoClosure
  UvObjs = {u1}
  NoUvObj = NoUvObj
  Activations = {a1, a2, a3}
  NoActivation = NoActivation
  NoCell = NoCell
  Values = {v1}
  NoValue = NoValue
  Regs = 3
  Locals = 1
  MaxFrames = 3
SYMMETRY MCSymmetry
INVARIANTS
  ClosedOnReturn
