SPECIFICATION ArenaSpec
CONSTANTS
  a = a
  b = b
  HostVars = {a, b}
  SizeOf <- Size
  Vals = {v0, v1}
  Initial = v0
  ArenaSize = 8
  Align = 2
  Word = 64
  MaxContexts = 1
INVARIANTS
  OutsDelivered
