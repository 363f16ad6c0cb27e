\* SHA-512: two 32-bit words per half of the length field.
CONSTANTS
  ByteMod = 128
  WordBytes = 1
  Place <- MCPlace
  WordMod = 128
  BlockSize = 8
  Wide = TRUE
  MaxLen = 20
  MaxFinals = 2
  Message <- MCMessage
  ChunkSizes = {0, 1, 3, 8, 13}
SPECIFICATION FairSpec
INVARIANTS
  ShortDigestIsComplete
PROPERTIES
  CallsReturn
  CallsAdvance
