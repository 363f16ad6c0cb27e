\* Seven blocks: every carry into ctr[1], none out of it.
CONSTANTS
  ByteMod = 2
  CtrLen = 4
  ULen = 2
  Iterations = {0, 1, 2, 3}
  OutLengths = {0, 1, 2, 3, 8, 13}
  MaxCalls = 2
  MaxFaults = 1
SPECIFICATION FairSpec
INVARIANTS
  TypeOK
  OutputIsDerivedKey
  CounterIsBlockNumber
PROPERTIES
  CallReturns
  CallShrinks
CHECK_DEADLOCK FALSE
