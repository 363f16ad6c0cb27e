\* Two stacks and one more block in a heap that they can overrun.  A block of
\* one word is no stack, and one of 20 words fits only when the bound has wrapped.
CONSTANTS
  zero = zero
  v = v
  guard = guard
  magic = magic
  thread = thread
  HEAP_SIZE = 13
  HeaderSize = 1
  SizeMod = 16
  Sizes = {0, 1, 6, 20}
  Data <- MCData
  Align = 2
  ThreadSize = 1
  GuardSize = 1
  HalfFrame = 1
  Values <- MCValues
  ZERO = zero
  GUARD_MAGIC_BYTE = guard
  STACK_MAGIC_BYTE = magic
  THREAD = thread
  BASE_THREAD_ID = 16
  MaxThreads = 2
  MaxBlocks = 3
SPECIFICATION MCSpec
INVARIANTS
  HeapTypeOK
  BlocksAreApart
  HeadersTell
  CountIsLive
  StacksAreIntact
PROPERTIES
  ImplementsAllocator
  ImplementsThreads
CHECK_DEADLOCK FALSE
