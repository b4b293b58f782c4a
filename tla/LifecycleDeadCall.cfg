SPECIFICATION FairSpec
CONSTANTS
  Threads = {main, t1}
  Main = main
  NumSymbols = 2
PROPERTIES
  CallReturnsWhenSandboxDies
