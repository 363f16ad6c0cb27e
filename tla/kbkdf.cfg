\* Every position of the counter and every ending of the key.
SPECIFICATION Spec
CONSTANTS
  ByteBits  = 3
  HmacSize  = 2
  Fixed    <- MCFixed
  Requests <- MCRequests
  MaxCalls  = 2
  MaxFaults = 1
INVARIANTS TypeOK OutputIsDerivedKey BlocksDiffer
CHECK_DEADLOCK FALSE
