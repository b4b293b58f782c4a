SPECIFICATION SharedSpec
CONSTANTS
  Threads = {t1, t2}
  NumPages = 4
  Lengths = {1, 2}
  Candidates <- Searched
  MaxOther = 1
  Files = {f1, f2, f3, f4}
  NumHostFds = 3
  DirectMax = 1
  NumSandboxFds = 3
  Relaxed = {}
  UINT8 = UINT8
  DOUBLE = DOUBLE
  IntTypes = {UINT8}
  FloatTypes = {DOUBLE}
  Size <- SizeOfType
  MaxArgs = 10
  IntRegs = 6
  FloatRegs = 8
  StackSlots = 4
  ArgStorage = 80
SYMMETRY Symmetry
INVARIANTS
  TypeOK
  SameAddress
  NothingLeft
  FdTypeOK
  FdIsSameFile
  CacheSound
  MarshalTypeOK
  NoOverrun
  ArgsArrive
PROPERTIES
  OthersKept
