SPECIFICATION Spec
CONSTANTS
  Threads = {t1}
  Processes = {p1, p2}
  Passthroughs = {}
  Names = {f}
  PageCells = 2
  Cells = 3
  MaxWork = 3
  Null = Null
INVARIANTS
  CallbackKnowsSandbox
