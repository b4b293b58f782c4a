SPECIFICATION FairSpec
CONSTANTS
  Threads = {main, t1, t2}
  Main = main
  NumSymbols = 2
INVARIANTS
  TypeOK
  ChannelsListed
  NoUseAfterFree
  ControlReplyIsMine
PROPERTIES
  OperationsEnd
  DestroyFinishes
  WorkerLeavesWithThread
