---------------------------- MODULE HashPadding -----------------------------
(***************************************************************************)
(* The sizes of the hashes of mbedCL and the padding they must apply, as   *)
(* FIPS 180-4 section 5.1 states it.  HashFunction and HashStream share    *)
(* this module.  The real values are in parentheses: SHA-1 and SHA-256,    *)
(* then SHA-512 where it differs.                                          *)
(***************************************************************************)
EXTENDS Integers, Sequences

CONSTANTS
  ByteMod,    \* values of a byte                               (256)
  WordBytes,  \* bytes of a uint32_t                            (4)
  Place,      \* Place[k] is the weight of byte k of a word     (256^k)
  WordMod,    \* values of a uint32_t                           (2^32)
  BlockSize,  \* bytes of a block                               (64, 128)
  Wide        \* TRUE if the length field has two 64-bit words  (FALSE, TRUE)

Byte == 0..(ByteMod - 1)

\* The factor by which the length field outgrows two 32-bit words.
WordsPerHalf == IF Wide THEN 2 ELSE 1

LenSize == 2 * WordsPerHalf * WordBytes

ASSUME ByteAssumption ==
  /\ ByteMod \in Nat \ {0, 1}
  /\ WordBytes \in Nat \ {0}

ASSUME PlaceAssumption ==
  /\ Place \in [0..(WordBytes - 1) -> Nat \ {0}]
  /\ Place[0] = 1
  /\ \A k \in 1..(WordBytes - 1) : Place[k] = ByteMod * Place[k - 1]
  /\ WordMod = ByteMod * Place[WordBytes - 1]

\* A word counts whole blocks and holds a multiple of the 8 bits of a byte.
ASSUME WordAssumption ==
  /\ WordMod \in Nat \ {0}
  /\ \E k \in 1..WordMod : WordMod = BlockSize * k
  /\ \E k \in 1..WordMod : WordMod = 8 * k

ASSUME BlockAssumption ==
  /\ BlockSize \in Nat
  /\ BlockSize > LenSize
  /\ Wide \in BOOLEAN
-----------------------------------------------------------------------------
(***************************************************************************)
(* The padding of FIPS 180-4: a byte with the top bit set, the fewest zero *)
(* bytes that make room for the length field, and the length in bits, most *)
(* significant word and byte first, modulo what the field can hold.        *)
(***************************************************************************)
PadByte == ByteMod \div 2

\* A word, most significant byte first (macros.h PUT_UINT32_BE).
PutUint32BE(n) == [i \in 1..WordBytes |-> (n \div Place[WordBytes - i]) % ByteMod]

\* Bytes between the end of a message of n bytes and the length field.
PadLength(n) == CHOOSE p \in 1..BlockSize : (n + p + LenSize) % BlockSize = 0

Padding(n) == [i \in 1..n |-> IF i = 1 THEN PadByte ELSE 0]

\* The two low 32-bit words of the bit count of n bytes.
LowWord(n)  == (8 * n) % WordMod
HighWord(n) == ((8 * n) \div WordMod) % WordMod

\* Bit counts of up to two 32-bit words: what uint32_t total[2] can count.
LengthField(n) ==
  IF Wide
  THEN    PutUint32BE(0) \o PutUint32BE(0)
       \o PutUint32BE(HighWord(n)) \o PutUint32BE(LowWord(n))
  ELSE PutUint32BE(HighWord(n)) \o PutUint32BE(LowWord(n))

Padded(m) == (m \o Padding(PadLength(Len(m)))) \o LengthField(Len(m))
=============================================================================
