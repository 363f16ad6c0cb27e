\* A heap of three bytes in a memory of 16: three requests of 3, 12 and 1 byte.
CONSTANTS
  HEAP_SIZE = 3
  HeaderSize = 1
  SizeMod = 8
  Sizes = {1, 3, 12}
  Data = {zero}
SPECIFICATION HeapSpec
INVARIANT BlocksNeverOverlap
