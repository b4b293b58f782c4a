SPECIFICATION Spec
CONSTANTS
  Threads = {t1, t2}
  Sandboxes = {s1, s2}
  Boxes = {b1, b2}
  Contexts <- Ctxs
  Null = Null
  Capacity = 2
  MaxNest = 4
  MaxParams = 1
  StackTop = 1024
  ParamTypes <- Types
  Signatures <- Sigs
  IntRegs = 6
  FloatRegs = 8
  CalleeSizes = {24}
SYMMETRY Symmetric
INVARIANTS
  TypeOK
  OwnContext
  CapacityKept
  StackBalanced
  PartsApart
