\* SHA-1 and SHA-256: one 32-bit word per half of the length field.  The bits
\* of a word's bytes take two words, to both of which either word adds.
CONSTANTS
  ByteMod = 32
  WordBytes = 1
  Place <- MCPlace
  WordMod = 32
  BlockSize = 4
  Wide = FALSE
  MaxLen = 90
  MaxFinals = 2
  Message <- MCMessage
  ChunkSizes = {0, 1, 3, 31}
SPECIFICATION Spec
INVARIANTS
  TypeOK
  StreamIsKept
  BlockDiscipline
  CounterIsExact
  LengthIsEncoded
PROPERTY
  ImplementsHash
