\* One block more than the three low bytes of the counter can number.
CONSTANTS
  ByteMod = 2
  CtrLen = 4
  ULen = 2
  Iterations = {1}
  OutLengths = {16}
  MaxCalls = 1
  MaxFaults = 0
SPECIFICATION Spec
INVARIANT
  CounterIsBlockNumber
CHECK_DEADLOCK FALSE
