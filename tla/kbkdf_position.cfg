\* The position of the counter in bits, compared with a length in bytes.
SPECIFICATION Spec
CONSTANTS
  ByteBits  = 3
  HmacSize  = 2
  Fixed    <- MCFixed
  Requests <- PositionRequests
  MaxCalls  = 1
  MaxFaults = 0
INVARIANTS OutputIsDerivedKey
CHECK_DEADLOCK FALSE
