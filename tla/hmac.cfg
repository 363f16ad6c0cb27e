CONSTANTS
  t256 = t256
  t512 = t512
  k64 = k64
  k65 = k65
  Contexts = {c1, c2}
  Tables = {t256, t512}
  HashType <- MCHashType
  Keys = {k64, k65}
  KeyLen <- MCKeyLen
  Chunks = {d1}
  Usages <- MCUsages
SYMMETRY MCSymmetry
SPECIFICATION Spec
INVARIANTS
  TypeOK
  MacIsCorrect
  FailedMacIsWiped
PROPERTIES
  ImplementsMac
CHECK_DEADLOCK FALSE
