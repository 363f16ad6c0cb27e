\* SHA-512, the length field: two 32-bit words per half of the length field.
CONSTANTS
  ByteMod = 32
  WordBytes = 1
  Place <- MCPlace
  WordMod = 32
  BlockSize = 8
  Wide = TRUE
  MaxLen = 20
  MaxFinals = 2
  Message <- MCMessage
  ChunkSizes = {0, 1, 3, 8, 13}
SPECIFICATION Spec
INVARIANT LengthIsEncoded
