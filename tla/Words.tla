------------------------------- MODULE Words -------------------------------
(***************************************************************************)
(* The words that the compression functions of SHA-1, SHA-256 and SHA-512  *)
(* compute with.  A word is a vector of bits; what acts on each bit alone  *)
(* is defined, and what moves bits or carries (sums, rotations, the sigma  *)
(* functions, the tables of constants) is free but for the laws assumed.   *)
(***************************************************************************)
EXTENDS Integers, Sequences

CONSTANTS
  Bits,           \* positions of the bits of a word
  Plus(_, _),     \* x + y, modulo 2^32 or 2^64
  RotL(_, _),     \* RotL(x, n): SHIFT_LEFT of sha1.c
  SUB(_, _, _),   \* SUB(a, k, x): the macro SUBk of algorithm a
  K(_, _)         \* K(a, t): the constant of round t

Algorithms == {"SHA1", "SHA256", "SHA512"}

\* Rounds of a block, and words of the chaining value.
Rounds(a)    == IF a = "SHA256" THEN 64 ELSE 80
Registers(a) == IF a = "SHA1" THEN 5 ELSE 8

Word == [Bits -> BOOLEAN]

Xor(x, y) == [i \in Bits |-> x[i] # y[i]]

ASSUME WordAssumption ==
  /\ \A x, y \in Word : Plus(x, y) \in Word /\ Plus(x, y) = Plus(y, x)
  /\ \A x, y, z \in Word : Plus(Plus(x, y), z) = Plus(x, Plus(y, z))
  /\ \A x \in Word, n \in {1, 5, 30} : RotL(x, n) \in Word
  /\ \A a \in Algorithms, k \in 0..3, x \in Word : SUB(a, k, x) \in Word
  /\ \A a \in Algorithms : \A t \in 0..(Rounds(a) - 1) : K(a, t) \in Word
=============================================================================
