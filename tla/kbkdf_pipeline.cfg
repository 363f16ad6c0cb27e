\* The double pipeline returns before its last block.
SPECIFICATION Spec
CONSTANTS
  ByteBits  = 3
  HmacSize  = 2
  Fixed    <- MCFixed
  Requests <- PipelineRequests
  MaxCalls  = 1
  MaxFaults = 0
INVARIANTS OutputIsDerivedKey
CHECK_DEADLOCK FALSE
