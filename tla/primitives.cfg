CONSTANTS
  ROUNDS = 256
  BitXor <- MCXor
  Messages <- MCMessages
  s_box <- MCSBox
  inv_s_box <- MCInvSBox
  Jobs <- MCJobs
  BLOCK_SIZE = 3
  ByteValues = 4
  EncryptBlock <- MCEncryptBlock
  XorByte <- MCXor
  Calls <- MCCalls
  Capacity = 10
  BASE_SEED_SIZE = 5
  UINT8 = 2
  Callers = {t1, t2}
  Bits <- MCBits
  Plus <- MCPlus
  RotL <- MCRotL
  SUB <- MCSUB
  K <- MCK
  Uninitialized = Uninitialized
  BlockValues <- MCBlockValues
  ChainingValues <- MCChainingValues
  MaxCalls = 2
SPECIFICATION MCSpec
INVARIANTS
  SIsPermutation
  MatchesVectors
  SecondPassDecrypts
  MatchesFips197
  DecryptionRetraces
  ModeIsStandard
  OnlyOutputIsWritten
  ScheduleIsFreed
  SeedsAreFresh
  ScheduleIsKept
PROPERTIES
  OnlySeedIsWritten
  ImplementsFips
CHECK_DEADLOCK FALSE
