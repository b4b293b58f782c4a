SPECIFICATION CallsSpec
CONSTANTS
  Threads = {t1, t2}
  Processes = {p1}
  Passthroughs = {q1}
  Names = {f}
  PageCells = 2
  Cells = 3
  MaxWork = 3
  Null = Null
  a = a
  b = b
  HostVars = {a, b}
  SizeOf <- Size
  Vals = {v0, v1}
  Initial = v0
  ArenaSize = 8
  Align = 2
  Word = 64
  MaxContexts = 1
  Functions = {f, g}
  MaxCallbacks = 3
SYMMETRY Symmetric
INVARIANTS
  TypeOK
  CallsBackUndisturbed
  CopyExact
  ArenaTypeOK
  ParamsApart
  FunctionSeesInputs
  ArenaReclaimed
  CallbackTypeOK
  StubRunsOwnFunction
  PublishedIsFilled
  AcceptedFindsStub
PROPERTIES
  FirstCallDelivers
