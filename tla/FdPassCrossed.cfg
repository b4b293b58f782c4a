SPECIFICATION FdSpec
CONSTANTS
  Threads = {t1, t2}
  Files = {f1, f2, f3, f4}
  NumHostFds = 3
  DirectMax = 1
  NumSandboxFds = 3
  Relaxed = {"raw"}
SYMMETRY Symmetry
INVARIANTS
  RawFdIsSameFile
