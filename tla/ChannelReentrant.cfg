SPECIFICATION SpecReentrant
CONSTANTS
  Calls = {c1, c2}
  Lookups = {sym}
  Closures = {clo}
  CbArgs = {a1}
  MaxCallbacks = 1
  MaxDepth = 1
INVARIANTS
  NestedCallGetsOwnResult
CHECK_DEADLOCK FALSE
