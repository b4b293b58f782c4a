SPECIFICATION CallbackSpec
CONSTANTS
  Threads = {t1, t2}
  Functions = {f, g}
  MaxCallbacks = 3
INVARIANTS
  PointerRunsItsFunction
