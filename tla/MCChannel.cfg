SPECIFICATION FairSpec
CONSTANTS
  Calls = {c1, c2}
  Lookups = {sym}
  Closures = {clo}
  CbArgs = {a1, a2}
  MaxCallbacks = 2
INVARIANTS
  TypeOK
  NoDataRace
  NoLostWakeup
  OwnResult
PROPERTIES
  ImplementsRpc
  EveryCallReturns
