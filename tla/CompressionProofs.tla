------------------------- MODULE CompressionProofs -------------------------
(***************************************************************************)
(* Proofs about Compression for words of any width and any sums,           *)
(* rotations, sigma functions and constants that obey WordAssumption.      *)
(***************************************************************************)
EXTENDS Compression, SequenceTheorems, TLAPS

-----------------------------------------------------------------------------
(* Functions of single bits, and of words.                                 *)

LEMMA ChooseBit ==
  \A a, b, c \in BOOLEAN : (c # (a /\ (b # c))) = ((a /\ b) # (~a /\ c))
BY Zenon

LEMMA MajorityBit ==
  \A a, b, c \in BOOLEAN :
    ((a /\ b) \/ (c /\ (a \/ b))) = (((a /\ b) # (a /\ c)) # (b /\ c))
BY Zenon

LEMMA WordFunctions ==
  ASSUME NEW x \in Word, NEW y \in Word, NEW z \in Word
  PROVE  /\ F1(x, y, z) = Fips!Ch(x, y, z) /\ F1(x, y, z) \in Word
         /\ F0(x, y, z) = Fips!Maj(x, y, z) /\ F0(x, y, z) \in Word
         /\ FX(x, y, z) = Fips!Parity(x, y, z) /\ FX(x, y, z) \in Word
         /\ Xor(x, y) \in Word
<1>1. \A i \in Bits : x[i] \in BOOLEAN /\ y[i] \in BOOLEAN /\ z[i] \in BOOLEAN
  BY DEF Word
<1>2. \A i \in Bits : (z[i] # (x[i] /\ (y[i] # z[i]))) = ((x[i] /\ y[i]) # (~x[i] /\ z[i]))
  BY <1>1, ChooseBit, Zenon
<1>3. F1(x, y, z) = Fips!Ch(x, y, z)
  BY <1>2, Zenon DEF F1, Fips!Ch
<1>4. \A i \in Bits : ((x[i] /\ y[i]) \/ (z[i] /\ (x[i] \/ y[i])))
                        = (((x[i] /\ y[i]) # (x[i] /\ z[i])) # (y[i] /\ z[i]))
  BY <1>1, MajorityBit, Zenon
<1>5. F0(x, y, z) = Fips!Maj(x, y, z)
  BY <1>4, Zenon DEF F0, Fips!Maj
<1>6. FX(x, y, z) = Fips!Parity(x, y, z)
  BY Zenon DEF FX, Xor, Fips!Parity
<1>7. F1(x, y, z) \in Word
  BY Zenon DEF F1, Word
<1>8. F0(x, y, z) \in Word
  BY Zenon DEF F0, Word
<1>9. FX(x, y, z) \in Word /\ Xor(x, y) \in Word
  BY Zenon DEF FX, Xor, Word
<1> QED
  BY <1>3, <1>5, <1>6, <1>7, <1>8, <1>9

-----------------------------------------------------------------------------
(* The names of the registers, and the calls of the macro.                 *)

LEMMA LetterNames ==
  /\ Names("SHA1") = {"A", "B", "C", "D", "E"}
  /\ \A a \in {"SHA256", "SHA512"} : Names(a) = {"A", "B", "C", "D", "E", "F", "G", "H"}
<1>1. Names("SHA1") = {Letters[j] : j \in {1, 2, 3, 4, 5}}
  <2>1. 1..5 = {1, 2, 3, 4, 5}
    OBVIOUS
  <2> QED
    BY <2>1 DEF Names, Registers
<1>2. ASSUME NEW a \in {"SHA256", "SHA512"}
      PROVE  Names(a) = {Letters[j] : j \in {1, 2, 3, 4, 5, 6, 7, 8}}
  <2>1. 1..8 = {1, 2, 3, 4, 5, 6, 7, 8}
    OBVIOUS
  <2>2. Registers(a) = 8
    BY DEF Registers
  <2> QED
    BY <2>1, <2>2 DEF Names
<1> QED
  BY <1>1, <1>2 DEF Letters

LEMMA Sizes ==
  /\ Rounds("SHA1") = 80 /\ Rounds("SHA256") = 64 /\ Rounds("SHA512") = 80
  /\ Registers("SHA1") = 5 /\ Registers("SHA256") = 8 /\ Registers("SHA512") = 8
  /\ Slots("SHA1") = 0..15 /\ Slots("SHA256") = 0..63 /\ Slots("SHA512") = 0..79
BY DEF Rounds, Registers, Slots

\* Two tuples of registers are equal when their members are.
LEMMA Sha1Tuple ==
  ASSUME NEW g \in [1..5 -> Word],
         NEW a, NEW b, NEW c, NEW d, NEW e,
         g[1] = a, g[2] = b, g[3] = c, g[4] = d, g[5] = e
  PROVE  g = <<a, b, c, d, e>>
OBVIOUS

LEMMA Sha2Tuple ==
  ASSUME NEW g \in [1..8 -> Word],
         NEW a, NEW b, NEW c, NEW d, NEW e, NEW k, NEW l, NEW m,
         g[1] = a, g[2] = b, g[3] = c, g[4] = d, g[5] = e, g[6] = k, g[7] = l, g[8] = m
  PROVE  g = <<a, b, c, d, e, k, l, m>>
OBVIOUS

LEMMA Sha1CallsTurn ==
  ASSUME NEW n \in Nat, NEW p, p = Arguments("SHA1", n),
         NEW q, q = Arguments("SHA1", n + 1)
  PROVE  /\ \A j \in 1..5 : p[j] \in Names("SHA1")
         /\ \A j, k \in 1..5 : j # k => p[j] # p[k]
         /\ q[1] = p[5] /\ q[2] = p[1] /\ q[3] = p[2] /\ q[4] = p[3] /\ q[5] = p[4]
<1>1. p = Sha1Calls[(n % 5) + 1] /\ q = Sha1Calls[((n + 1) % 5) + 1]
  BY DEF Arguments
<1>2. n % 5 \in {0, 1, 2, 3, 4} /\ (n + 1) % 5 = (IF n % 5 = 4 THEN 0 ELSE (n % 5) + 1)
  OBVIOUS
<1>3. \A j \in 1..5 : j \in {1, 2, 3, 4, 5}
  OBVIOUS
<1>4. CASE n % 5 = 0  BY <1>1, <1>2, <1>3, <1>4, LetterNames DEF Sha1Calls
<1>5. CASE n % 5 = 1  BY <1>1, <1>2, <1>3, <1>5, LetterNames DEF Sha1Calls
<1>6. CASE n % 5 = 2  BY <1>1, <1>2, <1>3, <1>6, LetterNames DEF Sha1Calls
<1>7. CASE n % 5 = 3  BY <1>1, <1>2, <1>3, <1>7, LetterNames DEF Sha1Calls
<1>8. CASE n % 5 = 4  BY <1>1, <1>2, <1>3, <1>8, LetterNames DEF Sha1Calls
<1> QED
  BY <1>2, <1>4, <1>5, <1>6, <1>7, <1>8

LEMMA Sha2CallsTurn ==
  ASSUME NEW a \in {"SHA256", "SHA512"}, NEW n \in Nat, NEW p, p = Arguments(a, n),
         NEW q, q = Arguments(a, n + 1)
  PROVE  /\ \A j \in 1..8 : p[j] \in Names(a)
         /\ \A j, k \in 1..8 : j # k => p[j] # p[k]
         /\ q[1] = p[8] /\ q[2] = p[1] /\ q[3] = p[2] /\ q[4] = p[3]
         /\ q[5] = p[4] /\ q[6] = p[5] /\ q[7] = p[6] /\ q[8] = p[7]
<1>1. p = Sha2Calls[(n % 8) + 1] /\ q = Sha2Calls[((n + 1) % 8) + 1]
  BY DEF Arguments
<1>2. n % 8 \in {0, 1, 2, 3, 4, 5, 6, 7} /\ (n + 1) % 8 = (IF n % 8 = 7 THEN 0 ELSE (n % 8) + 1)
  OBVIOUS
<1>3. \A j \in 1..8 : j \in {1, 2, 3, 4, 5, 6, 7, 8}
  OBVIOUS
<1>4. CASE n % 8 = 0  BY <1>1, <1>2, <1>3, <1>4, LetterNames DEF Sha2Calls
<1>5. CASE n % 8 = 1  BY <1>1, <1>2, <1>3, <1>5, LetterNames DEF Sha2Calls
<1>6. CASE n % 8 = 2  BY <1>1, <1>2, <1>3, <1>6, LetterNames DEF Sha2Calls
<1>7. CASE n % 8 = 3  BY <1>1, <1>2, <1>3, <1>7, LetterNames DEF Sha2Calls
<1>8. CASE n % 8 = 4  BY <1>1, <1>2, <1>3, <1>8, LetterNames DEF Sha2Calls
<1>9. CASE n % 8 = 5  BY <1>1, <1>2, <1>3, <1>9, LetterNames DEF Sha2Calls
<1>10. CASE n % 8 = 6  BY <1>1, <1>2, <1>3, <1>10, LetterNames DEF Sha2Calls
<1>11. CASE n % 8 = 7  BY <1>1, <1>2, <1>3, <1>11, LetterNames DEF Sha2Calls
<1> QED
  BY <1>2, <1>4, <1>5, <1>6, <1>7, <1>8, <1>9, <1>10, <1>11

\* A register is loaded from the word of the chaining value with its place.
LEMMA LetterPlace ==
  ASSUME NEW a \in Algorithms, NEW j \in 1..Registers(a)
  PROVE  (CHOOSE i \in 1..Registers(a) : Letters[i] = Letters[j]) = j
<1>1. Registers(a) \in {5, 8}
  BY DEF Registers
<1>2. \A i, k \in 1..8 : Letters[i] = Letters[k] => i = k
  <2>1. \A i \in 1..8 : i \in {1, 2, 3, 4, 5, 6, 7, 8}
    OBVIOUS
  <2> QED
    BY <2>1 DEF Letters
<1>3. \A i \in 1..Registers(a) : i \in 1..8
  BY <1>1
<1> QED
  BY <1>2, <1>3

-----------------------------------------------------------------------------
(* The schedule.                                                           *)

LEMMA WordsTyped ==
  ASSUME NEW x \in Word, NEW y \in Word
  PROVE  /\ Plus(x, y) \in Word /\ Plus(x, y) = Plus(y, x)
         /\ \A n \in {1, 5, 30} : RotL(x, n) \in Word
         /\ \A a \in Algorithms, k \in 0..3 : SUB(a, k, x) \in Word
BY WordAssumption

LEMMA PlusAssociates ==
  \A x, y, z \in Word : Plus(Plus(x, y), z) = Plus(x, Plus(y, z))
BY WordAssumption

LEMMA RotSha2Typed ==
  ASSUME alg \in Algorithms, NEW n,
         W[n - 2] \in Word, W[n - 7] \in Word, W[n - 15] \in Word, W[n - 16] \in Word
  PROVE  RotSha2(n) \in Word
<1>1. SUB(alg, 1, W[n - 2]) \in Word /\ SUB(alg, 0, W[n - 15]) \in Word
  <2>1. 0 \in 0..3 /\ 1 \in 0..3
    OBVIOUS
  <2> QED
    BY <2>1, WordAssumption, Zenon
<1>2. Plus(SUB(alg, 1, W[n - 2]), W[n - 7]) \in Word
  BY <1>1, WordsTyped
<1>3. Plus(Plus(SUB(alg, 1, W[n - 2]), W[n - 7]), SUB(alg, 0, W[n - 15])) \in Word
  BY <1>1, <1>2, WordsTyped
<1> QED
  BY <1>3, WordsTyped DEF RotSha2

LEMMA RotSha1Typed ==
  ASSUME \A s \in 0..15 : W[s] \in Word, NEW n \in Nat, n >= 16
  PROVE  RotSha1(n) \in Word
<1>1. /\ Slot(n) \in 0..15 /\ Slot(n - 3) \in 0..15
      /\ Slot(n - 8) \in 0..15 /\ Slot(n - 14) \in 0..15
  BY DEF Slot
<1>2. Xor(W[Slot(n - 3)], W[Slot(n - 8)]) \in Word
  BY <1>1, WordFunctions
<1>3. Xor(Xor(W[Slot(n - 3)], W[Slot(n - 8)]), W[Slot(n - 14)]) \in Word
  BY <1>1, <1>2, WordFunctions
<1>4. Xor(Xor(Xor(W[Slot(n - 3)], W[Slot(n - 8)]), W[Slot(n - 14)]), W[Slot(n)]) \in Word
  BY <1>1, <1>3, WordFunctions
<1> QED
  BY <1>4, WordsTyped DEF RotSha1

\* A word that is stored replaces the word 16 before it and no later one.
LEMMA SlotsDiffer ==
  ASSUME NEW n \in Nat, NEW s \in Nat, s < n, n - 16 < s
  PROVE  Slot(s) # Slot(n)
BY DEF Slot

LEMMA SlotRange ==
  \A n \in Nat : Slot(n) \in 0..15 /\ (n < 16 => Slot(n) = n) /\ Slot(n + 16) = Slot(n)
BY DEF Slot

-----------------------------------------------------------------------------
(* The invariant.                                                          *)

IInv == TypeOK /\ ScheduleIsKept

LEMMA InitEstablishes == Init => IInv
<1> SUFFICES ASSUME Init PROVE IInv
  OBVIOUS
<1>1. h \in [1..Registers(alg) -> Word]
  BY CompressionAssumption DEF Init
<1>2. sched \in Seq(Word) /\ Len(sched) = Done
  BY EmptySeq DEF Init, Done
<1>3. TypeOK
  BY <1>1, <1>2, CompressionAssumption DEF Init, TypeOK
<1>4. ScheduleIsKept
  BY DEF Init, ScheduleIsKept
<1> QED
  BY <1>3, <1>4 DEF IInv

LEMMA BeginKeeps ==
  ASSUME IInv, NEW b \in BlockValues, Begin(b)
  PROVE  IInv'
<1> USE DEF IInv
<1>1. alg \in Algorithms /\ alg' = alg /\ h' = h /\ block' = b /\ b \in [0..15 -> Word]
  BY CompressionAssumption DEF Begin, TypeOK
<1>2. sched' = sched /\ sched = <<>> /\ Done' = 0 /\ pc' \in {"expand", "rounds"}
  <2>1. Len(sched) = 0 /\ sched \in Seq(Word)
    BY DEF TypeOK, Begin, Done
  <2>2. sched = <<>>
    BY <2>1, EmptySeq
  <2> QED
    BY <2>2 DEF Begin, Done
<1>3. Known' = 16 /\ t' \in {0, 16} /\ (alg = "SHA512" => t' = 16 /\ pc' = "expand")
      /\ (alg # "SHA512" => t' = 0 /\ pc' = "rounds")
  BY <1>1 DEF Begin, Known
<1>4. reg' \in [Names(alg) -> Word]
  <2>1. \A x \in Names(alg) : \E j \in 1..Registers(alg) : Letters[j] = x
    BY DEF Names
  <2>2. \A x \in Names(alg) : h[CHOOSE j \in 1..Registers(alg) : Letters[j] = x] \in Word
    BY <2>1 DEF TypeOK
  <2> QED
    BY <2>2 DEF Begin
<1>5. \A s \in 0..15 : s \in Slots(alg) /\ W'[s] = b[s]
  BY <1>1, Sizes DEF Begin, Algorithms
<1>6. W' \in [Slots(alg) -> Word \cup {Uninitialized}]
  BY <1>1, Sizes DEF Begin, Algorithms
<1>7. TypeOK'
  <2>1. calls' \in 0..MaxCalls
    BY CompressionAssumption DEF TypeOK, Begin
  <2>2. 16 \in 16..(Rounds(alg) - 1) /\ 0 \in 0..Rounds(alg)
    BY <1>1, Sizes DEF Algorithms
  <2>3. \A s \in 0..15 : W'[s] \in Word
    BY <1>1, <1>5
  <2> QED
    BY SMTT(30), <1>1, <1>2, <1>3, <1>4, <1>6, <2>1, <2>2, <2>3 DEF TypeOK
<1>8. ScheduleIsKept'
  <2>1. \A s \in 0..15 : Slot(s) = s
    BY SlotRange
  <2> QED
    BY <1>1, <1>2, <1>3, <1>5, <2>1 DEF ScheduleIsKept
<1> QED
  BY <1>7, <1>8

LEMMA ExpandKeeps ==
  ASSUME IInv, Expand
  PROVE  IInv'
<1> USE DEF IInv
<1>1. alg = "SHA512" /\ t \in 16..79 /\ Known = t /\ Done = 0 /\ Slots(alg) = 0..79
      /\ pc = "expand"
  <2>1. alg = "SHA512" /\ pc = "expand" /\ t \in 16..(Rounds(alg) - 1)
    BY DEF Expand, TypeOK
  <2>2. Rounds(alg) = 80 /\ Slots(alg) = 0..79
    BY <2>1, Sizes
  <2> QED
    BY <2>1, <2>2 DEF Known, Done
<1>2. UNCHANGED <<alg, block, reg, h, sched, calls>> /\ Done' = 0 /\ Known' = t + 1
      /\ pc' \in {"expand", "rounds"}
  BY <1>1, Sizes DEF Expand, Known, Done
<1>3. \A s \in 0..(t - 1) : W[s] \in Word
  <2>1. \A s \in 0..(Known - 1) : s \in Slots(alg) => W[s] \in Word
    BY <1>1 DEF TypeOK
  <2> QED
    BY <1>1, <2>1
<1>4. RotSha2(t) \in Word
  BY <1>1, <1>3, RotSha2Typed DEF Algorithms
<1>5. W' = [W EXCEPT ![t] = RotSha2(t)] /\ W \in [0..79 -> Word \cup {Uninitialized}]
  BY <1>1 DEF Expand, TypeOK
<1>6. W'[t] = RotSha2(t) /\ \A s \in 0..79 : s # t => W'[s] = W[s]
  BY <1>1, <1>5
<1>7. TypeOK'
  <2>1. pc' = "expand" => t' \in 16..79
    BY <1>1, Sizes DEF Expand
  <2>2. pc' = "rounds" => t' = 0
    BY <1>1 DEF Expand
  <2>3. W' \in [0..79 -> Word \cup {Uninitialized}]
    BY <1>4, <1>5
  <2>4. \A s \in 0..t : W'[s] \in Word
    BY <1>1, <1>3, <1>4, <1>6
  <2> QED
    <3>1. Rounds(alg) = 80 /\ Slots(alg') = 0..79 /\ Rounds(alg') = 80
      BY <1>1, <1>2, Sizes
    <3>2. \A s \in 0..(Known' - 1) : s \in Slots(alg') => W'[s] \in Word
      BY <1>1, <1>2, <2>4
    <3>3. h' \in [1..Registers(alg') -> Word] /\ reg' \in [Names(alg') -> Word]
      BY <1>1, <1>2 DEF TypeOK
    <3>4. block' \in [0..15 -> Word] /\ calls' \in 0..MaxCalls
          /\ sched' \in Seq(Word) /\ Len(sched') = Done'
      BY <1>1, <1>2 DEF TypeOK
    <3>5. W' \in [Slots(alg') -> Word \cup {Uninitialized}]
      BY <2>3, <3>1
    <3>6. /\ pc' = "expand" => alg' = "SHA512" /\ t' \in 16..(Rounds(alg') - 1)
          /\ pc' = "rounds" => t' \in 0..Rounds(alg')
      BY <1>1, <1>2, <2>1, <2>2, <3>1
    <3>7. alg' \in Algorithms /\ pc' \in {"idle", "expand", "rounds"}
      BY <1>1, <1>2 DEF Algorithms
    <3> QED
      BY <3>2, <3>3, <3>4, <3>5, <3>6, <3>7 DEF TypeOK
<1>8. ScheduleIsKept'
  <2>1. \A s \in 16..t : RotSha2(s)' = RotSha2(s)
    <3> SUFFICES ASSUME NEW s \in 16..t PROVE RotSha2(s)' = RotSha2(s)
      OBVIOUS
    <3>1. /\ W'[s - 2] = W[s - 2] /\ W'[s - 7] = W[s - 7]
          /\ W'[s - 15] = W[s - 15] /\ W'[s - 16] = W[s - 16]
      BY <1>1, <1>6
    <3> QED
      BY <1>2, <3>1 DEF RotSha2
  <2>2. \A s \in 0..(t - 1) : W[s] = IF s < 16 THEN block[s] ELSE RotSha2(s)
    BY <1>1 DEF ScheduleIsKept
  <2>3. \A s \in 0..t : W'[s] = IF s < 16 THEN block[s] ELSE RotSha2(s)'
    BY <1>1, <1>6, <2>1, <2>2
  <2> QED
    BY <1>1, <1>2, <2>3 DEF ScheduleIsKept
<1> QED
  BY <1>7, <1>8

-----------------------------------------------------------------------------
(* A round of SHA-1.                                                       *)

LEMMA FTyped ==
  ASSUME NEW n \in 0..79, NEW x \in Word, NEW y \in Word, NEW z \in Word
  PROVE  F(n, x, y, z) \in Word /\ F(n, x, y, z) = Fips!f(n, x, y, z)
<1>1. n \div 20 = 2 <=> n >= 40 /\ n < 60
  OBVIOUS
<1> QED
  BY <1>1, WordFunctions DEF F, Fips!f

Sha1Sum(p, n, x) ==
  Plus(Plus(Plus(RotL(reg[p[1]], 5), F(n, reg[p[2]], reg[p[3]], reg[p[4]])), K("SHA1", n)), x)

LEMMA Sha1RoundState ==
  ASSUME IInv, RoundSha1
  PROVE  /\ alg = "SHA1" /\ pc = "rounds" /\ t \in 0..79 /\ Done = t
         /\ Slots(alg) = 0..15 /\ W \in [0..15 -> Word]
         /\ Known = IF t < 16 THEN 16 ELSE t
         /\ reg \in [Names(alg) -> Word] /\ block \in [0..15 -> Word]
         /\ sched \in Seq(Word) /\ Len(sched) = t
         /\ UNCHANGED <<alg, pc, block, h, calls>> /\ t' = t + 1 /\ Done' = t + 1
         /\ Known' = IF t < 15 THEN 16 ELSE t + 1
<1> USE DEF IInv
<1>1. alg = "SHA1" /\ pc = "rounds" /\ Rounds(alg) = 80 /\ Slots(alg) = 0..15
  BY Sizes DEF RoundSha1
<1>2. t \in 0..79
  <2>1. t \in 0..Rounds(alg)
    BY <1>1 DEF TypeOK
  <2>2. t < Rounds(alg)
    BY DEF RoundSha1
  <2> QED
    BY <1>1, <2>1, <2>2
<1>3. Done = t /\ Known = IF t < 16 THEN 16 ELSE t
  BY <1>1 DEF Done, Known
<1>4. /\ reg \in [Names(alg) -> Word] /\ block \in [0..15 -> Word]
      /\ sched \in Seq(Word) /\ Len(sched) = t
  BY <1>1, <1>3 DEF TypeOK
<1>5. W \in [0..15 -> Word]
  <2>1. W \in [0..15 -> Word \cup {Uninitialized}]
    BY <1>1 DEF TypeOK
  <2>2. \A s \in 0..(Known - 1) : s \in Slots(alg) => W[s] \in Word
    BY <1>1 DEF TypeOK
  <2>3. \A s \in 0..15 : W[s] \in Word
    BY <1>1, <1>2, <1>3, <2>2
  <2> QED
    BY <2>1, <2>3
<1>6. UNCHANGED <<alg, pc, block, h, calls>> /\ t' = t + 1
  BY DEF RoundSha1
<1>7. Done' = t + 1 /\ Known' = IF t < 15 THEN 16 ELSE t + 1
  BY <1>1, <1>2, <1>6 DEF Done, Known
<1> QED
  BY <1>1, <1>2, <1>3, <1>4, <1>5, <1>6, <1>7

\* The word of a round: the block's, or the one computed into the slot of
\* the oldest.  The others stay.
LEMMA Sha1RoundWord ==
  ASSUME IInv, RoundSha1
  PROVE  /\ W' \in [0..15 -> Word]
         /\ sched' = Append(sched, W'[Slot(t)])
         /\ t < 16 => W' = W /\ W'[Slot(t)] = block[t]
         /\ t >= 16 => W'[Slot(t)] = RotSha1(t)
                        /\ \A s \in 0..15 : s # Slot(t) => W'[s] = W[s]
<1>1. /\ alg = "SHA1" /\ pc = "rounds" /\ t \in 0..79 /\ W \in [0..15 -> Word]
      /\ Known = IF t < 16 THEN 16 ELSE t
  BY Sha1RoundState
<1>2. W' = IF t < 16 THEN W ELSE [W EXCEPT ![Slot(t)] = RotSha1(t)]
  BY DEF RoundSha1
<1>3. sched' = Append(sched, W'[Slot(t)])
  BY DEF RoundSha1
<1>4. Slot(t) \in 0..15 /\ (t < 16 => Slot(t) = t)
  BY <1>1, SlotRange
<1>5. CASE t < 16
  <2>1. \A s \in 0..15 : W[Slot(s)] = IF s < t THEN sched[s + 1] ELSE block[s]
    BY <1>1, <1>5 DEF IInv, ScheduleIsKept
  <2>2. W[Slot(t)] = block[t]
    BY <1>1, <1>5, <2>1
  <2> QED
    BY <1>1, <1>2, <1>3, <1>5, <2>2
<1>6. CASE t >= 16
  <2>1. RotSha1(t) \in Word
    BY <1>1, <1>6, RotSha1Typed
  <2> QED
    BY <1>1, <1>2, <1>3, <1>4, <1>6, <2>1
<1> QED
  BY <1>1, <1>5, <1>6

LEMMA Sha1RoundRegisters ==
  ASSUME IInv, RoundSha1, NEW p, p = Arguments("SHA1", t)
  PROVE  /\ Sha1Sum(p, t, W'[Slot(t)]) \in Word
         /\ reg' \in [Names(alg) -> Word]
         /\ \A j \in 1..5 : reg[p[j]] \in Word
         /\ reg'[p[1]] = reg[p[1]]
         /\ reg'[p[2]] = RotL(reg[p[2]], 30)
         /\ reg'[p[3]] = reg[p[3]]
         /\ reg'[p[4]] = reg[p[4]]
         /\ reg'[p[5]] = Plus(reg[p[5]], Sha1Sum(p, t, W'[Slot(t)]))
<1>1. alg = "SHA1" /\ t \in 0..79 /\ reg \in [Names(alg) -> Word]
  BY Sha1RoundState
<1>2. /\ \A j \in 1..5 : p[j] \in Names(alg)
      /\ \A j, k \in 1..5 : j # k => p[j] # p[k]
  BY <1>1, Sha1CallsTurn
<1>3. \A j \in 1..5 : reg[p[j]] \in Word
  BY <1>1, <1>2
<1>4. Slot(t) \in 0..15
  BY <1>1, SlotRange
<1>5. W'[Slot(t)] \in Word
  BY <1>4, Sha1RoundWord
<1>6. Sha1Sum(p, t, W'[Slot(t)]) \in Word
  <2>1. RotL(reg[p[1]], 5) \in Word
    <3>1. reg[p[1]] \in Word /\ 5 \in {1, 5, 30}
      BY <1>3
    <3> QED
      BY <3>1, WordAssumption, Zenon
  <2>2. F(t, reg[p[2]], reg[p[3]], reg[p[4]]) \in Word
    BY SMTT(30), <1>1, <1>3, FTyped
  <2>3. K("SHA1", t) \in Word
    <3>1. "SHA1" \in Algorithms /\ t \in 0..(Rounds("SHA1") - 1)
      BY <1>1, Sizes DEF Algorithms
    <3> QED
      BY <3>1, WordAssumption, Zenon
  <2>4. Plus(RotL(reg[p[1]], 5), F(t, reg[p[2]], reg[p[3]], reg[p[4]])) \in Word
    BY <2>1, <2>2, WordsTyped
  <2>5. Plus(Plus(RotL(reg[p[1]], 5), F(t, reg[p[2]], reg[p[3]], reg[p[4]])), K("SHA1", t)) \in Word
    BY <2>3, <2>4, WordsTyped
  <2> QED
    BY <1>5, <2>5, WordsTyped DEF Sha1Sum
<1>7. reg' = [reg EXCEPT ![p[5]] = Plus(@, Sha1Sum(p, t, W'[Slot(t)])), ![p[2]] = RotL(@, 30)]
  BY <1>1 DEF RoundSha1, Sha1Sum
<1>8. Plus(reg[p[5]], Sha1Sum(p, t, W'[Slot(t)])) \in Word /\ RotL(reg[p[2]], 30) \in Word
  <2>1. reg[p[2]] \in Word /\ reg[p[5]] \in Word /\ 30 \in {1, 5, 30}
    BY <1>3
  <2> QED
    BY <1>6, <2>1, WordAssumption, Zenon
<1> QED
  BY <1>1, <1>2, <1>3, <1>6, <1>7, <1>8

LEMMA RoundSha1Keeps ==
  ASSUME IInv, RoundSha1
  PROVE  IInv'
<1>1. /\ alg = "SHA1" /\ pc = "rounds" /\ t \in 0..79 /\ Done = t
      /\ Slots(alg) = 0..15 /\ Known = IF t < 16 THEN 16 ELSE t
      /\ block \in [0..15 -> Word]
      /\ sched \in Seq(Word) /\ Len(sched) = t
      /\ UNCHANGED <<alg, pc, block, h, calls>> /\ t' = t + 1 /\ Done' = t + 1
      /\ Known' = IF t < 15 THEN 16 ELSE t + 1
  BY Sha1RoundState
<1>2. /\ W' \in [0..15 -> Word]
      /\ sched' = Append(sched, W'[Slot(t)])
      /\ t < 16 => W' = W /\ W'[Slot(t)] = block[t]
      /\ t >= 16 => \A s \in 0..15 : s # Slot(t) => W'[s] = W[s]
  BY Sha1RoundWord
<1>3. Slot(t) \in 0..15
  BY <1>1, SlotRange
<1>4. /\ sched' \in Seq(Word) /\ Len(sched') = t + 1
      /\ sched'[t + 1] = W'[Slot(t)]
      /\ \A s \in 1..t : sched'[s] = sched[s]
  BY SMTT(30), <1>1, <1>2, <1>3, AppendProperties
<1>5. TypeOK'
  <2>1. reg' \in [Names(alg') -> Word]
    BY <1>1, Sha1RoundRegisters
  <2>2. h' \in [1..Registers(alg') -> Word] /\ alg' \in Algorithms /\ calls' \in 0..MaxCalls
    BY <1>1 DEF IInv, TypeOK
  <2>3. /\ W' \in [Slots(alg') -> Word \cup {Uninitialized}]
        /\ \A s \in 0..(Known' - 1) : s \in Slots(alg') => W'[s] \in Word
    BY <1>1, <1>2
  <2>4. pc' = "rounds" /\ t' \in 0..Rounds(alg')
    BY SMTT(30), <1>1, Sizes
  <2>5. Len(sched') = Done' /\ sched' \in Seq(Word) /\ block' \in [0..15 -> Word]
    BY <1>1, <1>4
  <2> QED
    BY <2>1, <2>2, <2>3, <2>4, <2>5 DEF TypeOK
<1>6. ScheduleIsKept'
  <2>1. ASSUME NEW s \in (Known' - 16)..(Known' - 1)
        PROVE  W'[Slot(s)] = IF s < t' THEN sched'[s + 1] ELSE block'[s]
    <3>1. s \in Nat /\ (s # t => s \in (Known - 16)..(Known - 1))
      BY <1>1
    <3>2. CASE s = t
      BY <1>1, <1>4, <3>2
    <3>3. CASE s # t
      <4>1. W[Slot(s)] = IF s < t THEN sched[s + 1] ELSE block[s]
        BY <1>1, <3>1, <3>3 DEF IInv, ScheduleIsKept
      <4>2. s < t' <=> s < t
        BY <1>1, <3>1, <3>3
      <4>3. s < t => sched'[s + 1] = sched[s + 1]
        BY <1>1, <1>4, <3>1
      <4>4. W'[Slot(s)] = W[Slot(s)]
        <5>1. CASE t < 16
          BY <1>2, <5>1
        <5>2. CASE t >= 16
          <6>1. t \in Nat /\ s \in Nat /\ s < t /\ t - 16 < s
            BY <1>1, <3>1, <3>3, <5>2
          <6>2. Slot(s) # Slot(t)
            BY <6>1, SlotsDiffer
          <6>3. Slot(s) \in 0..15
            BY <6>1, SlotRange
          <6> QED
            BY <1>2, <5>2, <6>2, <6>3
        <5> QED
          BY SMTT(30), <1>1, <5>1, <5>2
      <4> QED
        BY <1>1, <4>1, <4>2, <4>3, <4>4
    <3> QED
      BY <3>2, <3>3
  <2> QED
    BY <1>1, <2>1 DEF ScheduleIsKept
<1> QED
  BY <1>5, <1>6 DEF IInv

-----------------------------------------------------------------------------
(* A round of SHA-256 or SHA-512.                                          *)

Sha2Tmp1(p, x) ==
  Plus(Plus(Plus(Plus(reg[p[8]], SUB(alg, 3, reg[p[5]])),
                 F1(reg[p[5]], reg[p[6]], reg[p[7]])),
            K(alg, t)), x)

Sha2Tmp2(p) ==
  Plus(SUB(alg, 2, reg[p[1]]), F0(reg[p[1]], reg[p[2]], reg[p[3]]))

LEMMA Sha2RoundState ==
  ASSUME IInv, RoundSha2
  PROVE  /\ alg \in {"SHA256", "SHA512"} /\ pc = "rounds"
         /\ t \in 0..(Rounds(alg) - 1) /\ t \in 0..79 /\ Done = t /\ Rounds(alg) \in {64, 80}
         /\ Slots(alg) = 0..(Rounds(alg) - 1)
         /\ W \in [Slots(alg) -> Word \cup {Uninitialized}]
         /\ Known = IF alg = "SHA512" THEN 80 ELSE IF t < 16 THEN 16 ELSE t
         /\ alg = "SHA512" => Rounds(alg) = 80
         /\ \A s \in 0..(Known - 1) : s \in Slots(alg) => W[s] \in Word
         /\ reg \in [Names(alg) -> Word] /\ block \in [0..15 -> Word]
         /\ sched \in Seq(Word) /\ Len(sched) = t
         /\ UNCHANGED <<alg, pc, block, h, calls>> /\ t' = t + 1 /\ Done' = t + 1
         /\ Known' = IF alg = "SHA512" THEN 80 ELSE IF t < 15 THEN 16 ELSE t + 1
<1> USE DEF IInv
<1>1. alg \in {"SHA256", "SHA512"} /\ pc = "rounds"
  BY DEF RoundSha2, TypeOK, Algorithms
<1>2. Rounds(alg) \in {64, 80} /\ Slots(alg) = 0..(Rounds(alg) - 1)
      /\ (alg = "SHA512" => Rounds(alg) = 80)
  <2>1. alg = "SHA256" => Rounds(alg) = 64
    BY Sizes
  <2>2. alg = "SHA512" => Rounds(alg) = 80
    BY Sizes
  <2>3. Slots(alg) = 0..(Rounds(alg) - 1)
    BY <1>1 DEF Slots
  <2> QED
    BY <1>1, <2>1, <2>2, <2>3
<1>3. t \in 0..(Rounds(alg) - 1) /\ t \in 0..79
  <2>1. t \in 0..Rounds(alg)
    BY <1>1 DEF TypeOK
  <2>2. t < Rounds(alg)
    BY DEF RoundSha2
  <2> QED
    BY <1>2, <2>1, <2>2
<1>4. Done = t /\ Known = IF alg = "SHA512" THEN 80 ELSE IF t < 16 THEN 16 ELSE t
  BY <1>1, <1>2 DEF Done, Known
<1>5. /\ reg \in [Names(alg) -> Word] /\ block \in [0..15 -> Word]
      /\ W \in [Slots(alg) -> Word \cup {Uninitialized}]
      /\ \A s \in 0..(Known - 1) : s \in Slots(alg) => W[s] \in Word
      /\ sched \in Seq(Word) /\ Len(sched) = t
  BY <1>1, <1>4 DEF TypeOK
<1>6. UNCHANGED <<alg, pc, block, h, calls>> /\ t' = t + 1
  BY DEF RoundSha2
<1>7. Done' = t + 1
      /\ Known' = IF alg = "SHA512" THEN 80 ELSE IF t < 15 THEN 16 ELSE t + 1
  BY <1>1, <1>2, <1>3, <1>6 DEF Done, Known
<1> QED
  BY <1>1, <1>2, <1>3, <1>4, <1>5, <1>6, <1>7

\* The word of a round: SHA-256 computes it, SHA-512 did so before.
LEMMA Sha2RoundWord ==
  ASSUME IInv, RoundSha2
  PROVE  /\ W' \in [Slots(alg) -> Word \cup {Uninitialized}]
         /\ sched' = Append(sched, W'[t])
         /\ \A s \in Slots(alg) : s # t => W'[s] = W[s]
         /\ \A s \in 0..t : s \in Slots(alg) /\ W'[s] \in Word
         /\ W'[t] = IF t < 16 THEN block[t] ELSE RotSha2(t)
         /\ t < Known => W' = W
<1>1. /\ alg \in {"SHA256", "SHA512"} /\ pc = "rounds"
      /\ t \in 0..(Rounds(alg) - 1) /\ t \in 0..79 /\ Done = t /\ Rounds(alg) \in {64, 80}
      /\ Slots(alg) = 0..(Rounds(alg) - 1)
      /\ W \in [Slots(alg) -> Word \cup {Uninitialized}]
      /\ Known = IF alg = "SHA512" THEN 80 ELSE IF t < 16 THEN 16 ELSE t
      /\ \A s \in 0..(Known - 1) : s \in Slots(alg) => W[s] \in Word
  BY Sha2RoundState
<1>2. /\ W' = IF t < 16 \/ alg = "SHA512" THEN W ELSE [W EXCEPT ![t] = RotSha2(t)]
      /\ sched' = Append(sched, W'[t])
  BY DEF RoundSha2
<1>3. t \in Slots(alg) /\ \A s \in 0..t : s \in Slots(alg) /\ s \in Nat
  BY <1>1
<1>4. \A s \in 0..(t - 1) : W[s] \in Word
  BY <1>1, <1>3
<1>5. CASE t < 16 \/ alg = "SHA512"
  <2>1. W' = W /\ t \in 0..(Known - 1)
    BY <1>1, <1>2, <1>5
  <2>2. W[t] = IF t < 16 THEN block[t] ELSE RotSha2(t)
    BY <1>1, <2>1 DEF IInv, ScheduleIsKept
  <2>3. W[t] \in Word
    BY <1>1, <1>3, <2>1
  <2> QED
    BY <1>1, <1>2, <1>3, <1>4, <2>1, <2>2, <2>3
<1>6. CASE ~(t < 16 \/ alg = "SHA512")
  <2>1. W[t - 2] \in Word /\ W[t - 7] \in Word /\ W[t - 15] \in Word /\ W[t - 16] \in Word
    BY <1>1, <1>4, <1>6
  <2>2. RotSha2(t) \in Word
    BY <1>1, <2>1, RotSha2Typed DEF Algorithms
  <2>3. W' = [W EXCEPT ![t] = RotSha2(t)] /\ ~(t < Known) /\ ~(t < 16)
    BY <1>1, <1>2, <1>6
  <2>4. W'[t] = RotSha2(t) /\ \A s \in Slots(alg) : s # t => W'[s] = W[s]
    BY <1>1, <1>3, <2>3
  <2>5. W' \in [Slots(alg) -> Word \cup {Uninitialized}]
    BY <1>1, <2>2, <2>3
  <2>6. \A s \in 0..t : s \in Slots(alg) /\ W'[s] \in Word
    BY <1>1, <1>3, <1>4, <2>2, <2>4
  <2> QED
    BY <1>2, <2>3, <2>4, <2>5, <2>6
<1> QED
  BY <1>5, <1>6

LEMMA Sha2RoundRegisters ==
  ASSUME IInv, RoundSha2, NEW p, p = Arguments(alg, t)
  PROVE  /\ Sha2Tmp1(p, W'[t]) \in Word /\ Sha2Tmp2(p) \in Word
         /\ reg' \in [Names(alg) -> Word]
         /\ \A j \in 1..8 : reg[p[j]] \in Word
         /\ \A j \in {1, 2, 3, 5, 6, 7} : reg'[p[j]] = reg[p[j]]
         /\ reg'[p[4]] = Plus(reg[p[4]], Sha2Tmp1(p, W'[t]))
         /\ reg'[p[8]] = Plus(Sha2Tmp1(p, W'[t]), Sha2Tmp2(p))
<1>1. /\ alg \in {"SHA256", "SHA512"} /\ reg \in [Names(alg) -> Word]
      /\ t \in 0..(Rounds(alg) - 1) /\ t \in 0..79
  BY Sha2RoundState
<1>2. /\ \A j \in 1..8 : p[j] \in Names(alg)
      /\ \A j, k \in 1..8 : j # k => p[j] # p[k]
  <2>1. t \in Nat
    BY <1>1
  <2> QED
    BY <1>1, <2>1, Sha2CallsTurn
<1>3. \A j \in 1..8 : reg[p[j]] \in Word
  BY <1>1, <1>2
<1>4. W'[t] \in Word
  <2>1. t \in 0..t
    BY <1>1
  <2> QED
    BY <2>1, Sha2RoundWord
<1>5. /\ SUB(alg, 3, reg[p[5]]) \in Word /\ SUB(alg, 2, reg[p[1]]) \in Word
      /\ K(alg, t) \in Word
  <2>1. alg \in Algorithms /\ 2 \in 0..3 /\ 3 \in 0..3
    BY <1>1 DEF Algorithms
  <2>2. reg[p[5]] \in Word /\ reg[p[1]] \in Word
    BY <1>3
  <2> QED
    BY <1>1, <2>1, <2>2, WordAssumption, Zenon
<1>6. /\ F1(reg[p[5]], reg[p[6]], reg[p[7]]) \in Word
      /\ F0(reg[p[1]], reg[p[2]], reg[p[3]]) \in Word
  <2>1. reg[p[1]] \in Word /\ reg[p[2]] \in Word /\ reg[p[3]] \in Word
    BY <1>3
  <2>2. reg[p[5]] \in Word /\ reg[p[6]] \in Word /\ reg[p[7]] \in Word
    BY <1>3
  <2>3. F1(reg[p[5]], reg[p[6]], reg[p[7]]) \in Word
    BY <2>2, WordFunctions
  <2> QED
    BY <2>1, <2>3, WordFunctions
<1>7. Sha2Tmp1(p, W'[t]) \in Word
  <2>1. Plus(reg[p[8]], SUB(alg, 3, reg[p[5]])) \in Word
    BY <1>3, <1>5, WordsTyped
  <2>2. Plus(Plus(reg[p[8]], SUB(alg, 3, reg[p[5]])), F1(reg[p[5]], reg[p[6]], reg[p[7]])) \in Word
    BY <1>6, <2>1, WordsTyped
  <2>3. Plus(Plus(Plus(reg[p[8]], SUB(alg, 3, reg[p[5]])),
                  F1(reg[p[5]], reg[p[6]], reg[p[7]])), K(alg, t)) \in Word
    BY <1>5, <2>2, WordsTyped
  <2> QED
    BY <1>4, <2>3, WordsTyped DEF Sha2Tmp1
<1>8. Sha2Tmp2(p) \in Word
  BY <1>5, <1>6, WordsTyped DEF Sha2Tmp2
<1>9. reg' = [reg EXCEPT ![p[4]] = Plus(@, Sha2Tmp1(p, W'[t])),
                         ![p[8]] = Plus(Sha2Tmp1(p, W'[t]), Sha2Tmp2(p))]
  BY DEF RoundSha2, Sha2Tmp1, Sha2Tmp2
<1>10. Plus(reg[p[4]], Sha2Tmp1(p, W'[t])) \in Word
       /\ Plus(Sha2Tmp1(p, W'[t]), Sha2Tmp2(p)) \in Word
  BY SMTT(30), <1>3, <1>7, <1>8, WordsTyped
<1> QED
  BY <1>1, <1>2, <1>3, <1>7, <1>8, <1>9, <1>10

LEMMA RoundSha2Keeps ==
  ASSUME IInv, RoundSha2
  PROVE  IInv'
<1>1. /\ alg \in {"SHA256", "SHA512"} /\ pc = "rounds"
      /\ t \in 0..(Rounds(alg) - 1) /\ t \in 0..79 /\ Done = t /\ Rounds(alg) \in {64, 80}
      /\ Slots(alg) = 0..(Rounds(alg) - 1)
      /\ Known = IF alg = "SHA512" THEN 80 ELSE IF t < 16 THEN 16 ELSE t
      /\ alg = "SHA512" => Rounds(alg) = 80
      /\ \A s \in 0..(Known - 1) : s \in Slots(alg) => W[s] \in Word
      /\ block \in [0..15 -> Word]
      /\ sched \in Seq(Word) /\ Len(sched) = t
      /\ UNCHANGED <<alg, pc, block, h, calls>> /\ t' = t + 1 /\ Done' = t + 1
      /\ Known' = IF alg = "SHA512" THEN 80 ELSE IF t < 15 THEN 16 ELSE t + 1
  BY Sha2RoundState
<1>2. /\ W' \in [Slots(alg) -> Word \cup {Uninitialized}]
      /\ sched' = Append(sched, W'[t])
      /\ \A s \in Slots(alg) : s # t => W'[s] = W[s]
      /\ \A s \in 0..t : s \in Slots(alg) /\ W'[s] \in Word
      /\ W'[t] = IF t < 16 THEN block[t] ELSE RotSha2(t)
      /\ t < Known => W' = W
  BY Sha2RoundWord
<1>3. W'[t] \in Word /\ t \in Slots(alg)
  <2>1. t \in 0..t
    BY <1>1
  <2> QED
    BY <1>2, <2>1
<1>4. /\ sched' \in Seq(Word) /\ Len(sched') = t + 1
      /\ sched'[t + 1] = W'[t]
      /\ \A s \in 1..t : sched'[s] = sched[s]
  BY SMTT(30), <1>1, <1>2, <1>3, AppendProperties
<1>5. TypeOK'
  <2>1. reg' \in [Names(alg') -> Word]
    BY <1>1, Sha2RoundRegisters
  <2>2. h' \in [1..Registers(alg') -> Word] /\ alg' \in Algorithms /\ calls' \in 0..MaxCalls
    BY <1>1 DEF IInv, TypeOK
  <2>3. W' \in [Slots(alg') -> Word \cup {Uninitialized}]
    BY <1>1, <1>2
  <2>4. \A s \in 0..(Known' - 1) : s \in Slots(alg') => W'[s] \in Word
    <3> SUFFICES ASSUME NEW s \in 0..(Known' - 1), s \in Slots(alg) PROVE W'[s] \in Word
      BY ZenonT(40), <1>1
    <3>1. CASE s = t
      BY <1>3, <3>1
    <3>2. CASE s # t
      <4>1. s \in 0..(Known - 1)
        BY <1>1, <3>2
      <4> QED
        BY <1>1, <1>2, <3>2, <4>1
    <3> QED
      BY <3>1, <3>2
  <2>5. pc' = "rounds" /\ t' \in 0..Rounds(alg')
    BY SMTT(30), <1>1
  <2>6. Len(sched') = Done' /\ sched' \in Seq(Word) /\ block' \in [0..15 -> Word]
    BY <1>1, <1>4
  <2> QED
    BY <2>1, <2>2, <2>3, <2>4, <2>5, <2>6 DEF TypeOK
<1>6. ScheduleIsKept'
  <2>1. /\ \A s \in 0..(Known - 1) : W[s] = IF s < 16 THEN block[s] ELSE RotSha2(s)
        /\ \A s \in 0..(t - 1) : sched[s + 1] = W[s]
    BY <1>1 DEF IInv, ScheduleIsKept
  <2>2. ASSUME NEW s \in 0..(Known' - 1), s >= 16
        PROVE  RotSha2(s)' = RotSha2(s)
    <3>1. CASE t < Known
      <4>1. W' = W
        BY <1>2, <3>1
      <4> QED
        BY <1>1, <4>1 DEF RotSha2
    <3>2. CASE ~(t < Known)
      <4>1. Known' - 1 = t
        BY <1>1, <3>2
      <4>2. /\ s - 2 \in Slots(alg) /\ s - 2 # t
            /\ s - 7 \in Slots(alg) /\ s - 7 # t
            /\ s - 15 \in Slots(alg) /\ s - 15 # t
            /\ s - 16 \in Slots(alg) /\ s - 16 # t
        BY SMTT(30), <1>1, <2>2, <4>1
      <4>3. /\ W'[s - 2] = W[s - 2] /\ W'[s - 7] = W[s - 7]
            /\ W'[s - 15] = W[s - 15] /\ W'[s - 16] = W[s - 16]
        BY <1>2, <4>2
      <4> QED
        BY <1>1, <4>3 DEF RotSha2
    <3> QED
      BY <3>1, <3>2
  <2>3. ASSUME NEW s \in 0..(Known' - 1)
        PROVE  W'[s] = IF s < 16 THEN block[s] ELSE RotSha2(s)'
    <3>1. s \in Slots(alg) /\ (s # t => s \in 0..(Known - 1))
      BY SMTT(30), <1>1
    <3>2. W'[s] = IF s < 16 THEN block[s] ELSE RotSha2(s)
      BY <1>2, <2>1, <3>1
    <3> QED
      BY <2>2, <3>2
  <2>4. ASSUME NEW s \in 0..t
        PROVE  sched'[s + 1] = W'[s]
    <3>1. CASE s = t
      BY <1>4, <3>1
    <3>2. CASE s # t
      <4>1. s \in 0..(t - 1) /\ s + 1 \in 1..t
        BY <1>1, <3>2
      <4> QED
        BY <1>2, <1>4, <2>1, <3>2, <4>1
    <3> QED
      BY <3>1, <3>2
  <2>5. \A s \in 0..(Done' - 1) : sched'[s + 1] = W'[s]
    BY <1>1, <2>4
  <2>6. \A s \in 0..(Known' - 1) : W'[s] = IF s < 16 THEN block'[s] ELSE RotSha2(s)'
    BY <1>1, <2>3
  <2>7. pc' = "rounds" /\ alg' # "SHA1"
    BY <1>1
  <2> QED
    BY <2>5, <2>6, <2>7 DEF ScheduleIsKept
<1> QED
  BY <1>5, <1>6 DEF IInv

-----------------------------------------------------------------------------
(* The end of a block, and the theorems on the invariant.                  *)

LEMMA AddBackKeeps ==
  ASSUME IInv, AddBack
  PROVE  IInv'
<1>1. /\ pc = "rounds" /\ UNCHANGED <<alg, block, calls>> /\ pc' = "idle" /\ sched' = <<>>
      /\ h' = [j \in 1..Registers(alg) |-> Plus(h[j], reg[Letters[j]])]
  BY DEF AddBack
<1>2. /\ alg \in Algorithms /\ h \in [1..Registers(alg) -> Word]
      /\ reg \in [Names(alg) -> Word] /\ calls \in 0..MaxCalls
  BY <1>1 DEF IInv, TypeOK
<1>3. \A j \in 1..Registers(alg) : Letters[j] \in Names(alg)
  BY DEF Names
<1>4. \A j \in 1..Registers(alg) : Plus(h[j], reg[Letters[j]]) \in Word
  BY <1>2, <1>3, WordsTyped
<1>5. h' \in [1..Registers(alg') -> Word]
  BY <1>1, <1>4
<1>6. sched' \in Seq(Word) /\ Len(sched') = Done'
  BY <1>1, EmptySeq DEF Done
<1>7. TypeOK'
  BY <1>1, <1>2, <1>5, <1>6 DEF TypeOK
<1>8. ScheduleIsKept'
  BY <1>1 DEF ScheduleIsKept
<1> QED
  BY <1>7, <1>8 DEF IInv

LEMMA StutterKeeps ==
  ASSUME IInv, UNCHANGED vars
  PROVE  IInv'
<1>1. \A s : RotSha2(s)' = RotSha2(s)
  BY DEF vars, RotSha2
<1>2. Done' = Done /\ Known' = Known
  BY DEF vars, Done, Known
<1>3. TypeOK'
  BY <1>2 DEF IInv, TypeOK, vars
<1>4. ScheduleIsKept'
  BY <1>1, <1>2 DEF IInv, ScheduleIsKept, vars
<1> QED
  BY <1>3, <1>4 DEF IInv

\* The slots of the schedule hold the words that are still needed and the
\* types are kept, in every reachable state: no round reads a word of W that
\* was not written (sha1.c:31-36, sha256.c:33-37, sha512.c:132-136).
THEOREM Invariance == Spec => []IInv
<1>1. ASSUME IInv, [Next]_vars
      PROVE  IInv'
  BY <1>1, BeginKeeps, ExpandKeeps, RoundSha1Keeps, RoundSha2Keeps, AddBackKeeps,
     StutterKeeps DEF Next
<1> QED
  BY <1>1, InitEstablishes, PTL DEF Spec

\* The locals and the context hold words, and W words where it was written.
THEOREM TypeCorrect == Spec => []TypeOK
<1>1. IInv => TypeOK
  BY DEF IInv
<1> QED
  BY <1>1, Invariance, PTL

\* The words of the schedule are where a later round looks for them
\* (sha1.c:31-36, sha256.c:33-37, sha512.c:132-136).
THEOREM ScheduleKept == Spec => []ScheduleIsKept
<1>1. IInv => ScheduleIsKept
  BY DEF IInv
<1> QED
  BY <1>1, Invariance, PTL

-----------------------------------------------------------------------------
(* The refinement of BlockFunction.                                        *)

\* Whole turns of the calls bring the registers back to their first order.
LEMMA FirstArguments ==
  ASSUME NEW a \in Algorithms, NEW n \in {0, Rounds(a)}, NEW j \in 1..Registers(a)
  PROVE  Arguments(a, n)[j] = Letters[j]
<1>1. CASE a = "SHA1"
  <2>1. n % 5 = 0 /\ j \in {1, 2, 3, 4, 5}
    BY <1>1, Sizes
  <2> QED
    BY <1>1, <2>1 DEF Arguments, Sha1Calls, Letters
<1>2. CASE a # "SHA1"
  <2>1. Registers(a) = 8 /\ Rounds(a) \in {64, 80}
    BY <1>2 DEF Registers, Rounds
  <2>2. n % 8 = 0 /\ j \in {1, 2, 3, 4, 5, 6, 7, 8}
    BY <2>1
  <2> QED
    BY <1>2, <2>2 DEF Arguments, Sha2Calls, Letters
<1> QED
  BY <1>1, <1>2

\* The sum of sha1.c adds E last.
LEMMA Sha1SumOrder ==
  ASSUME NEW a \in Word, NEW b \in Word, NEW e \in Word, NEW k \in Word, NEW x \in Word
  PROVE  Plus(e, Plus(Plus(Plus(a, b), k), x)) = Plus(Plus(Plus(Plus(a, b), e), k), x)
<1> DEFINE s == Plus(a, b)
<1>1. s \in Word
  BY WordsTyped
<1> HIDE DEF s
<1>2. Plus(s, e) = Plus(e, s) /\ Plus(s, k) \in Word
  BY <1>1, WordsTyped
<1>3. Plus(Plus(e, s), k) = Plus(e, Plus(s, k))
  BY <1>1, PlusAssociates
<1>4. Plus(Plus(e, Plus(s, k)), x) = Plus(e, Plus(Plus(s, k), x))
  BY <1>2, PlusAssociates
<1> QED
  BY <1>2, <1>3, <1>4 DEF s

LEMMA WorkingTyped ==
  ASSUME IInv, pc # "idle"
  PROVE  Working \in [1..Registers(alg) -> Word]
<1>1. alg \in Algorithms /\ reg \in [Names(alg) -> Word] /\ Done \in Nat
  <2>1. alg \in Algorithms /\ reg \in [Names(alg) -> Word]
    BY DEF IInv, TypeOK
  <2>2. Rounds(alg) \in Nat
    BY DEF Rounds
  <2> QED
    BY <2>1, <2>2 DEF IInv, TypeOK, Done
<1>2. \A j \in 1..Registers(alg) : Arguments(alg, Done)[j] \in Names(alg)
  <2>1. CASE alg = "SHA1"
    BY <1>1, <2>1, Sha1CallsTurn, Sizes
  <2>2. CASE alg # "SHA1"
    <3>1. alg \in {"SHA256", "SHA512"} /\ Registers(alg) = 8
      BY <1>1, <2>2 DEF Algorithms, Registers
    <3> QED
      BY <1>1, <3>1, Sha2CallsTurn
  <2> QED
    BY <2>1, <2>2
<1> QED
  BY <1>1, <1>2 DEF Working

LEMMA BeginStarts ==
  ASSUME IInv, NEW b \in BlockValues, Begin(b)
  PROVE  Fips!Start
<1>1. /\ pc = "idle" /\ pc' \in {"expand", "rounds"} /\ UNCHANGED <<alg, h, sched>>
      /\ block' = b /\ b \in [0..15 -> Word] /\ alg \in Algorithms
  BY CompressionAssumption DEF Begin, IInv, TypeOK
<1>2. h \in [1..Registers(alg) -> Word] /\ sched \in Seq(Word) /\ Len(sched) = 0
  BY <1>1 DEF IInv, TypeOK, Done
<1>3. sched' = <<>>
  BY <1>1, <1>2, EmptySeq
<1>4. Done' = 0
  BY <1>1 DEF Begin, Done
<1>5. \A j \in 1..Registers(alg) : reg'[Letters[j]] = h[j]
  <2> SUFFICES ASSUME NEW j \in 1..Registers(alg) PROVE reg'[Letters[j]] = h[j]
    OBVIOUS
  <2>1. Letters[j] \in Names(alg)
    BY DEF Names
  <2>2. reg'[Letters[j]] = h[CHOOSE i \in 1..Registers(alg) : Letters[i] = Letters[j]]
    BY <2>1 DEF Begin
  <2> QED
    BY <1>1, <2>2, LetterPlace
<1>6. \A j \in 1..Registers(alg) : reg'[Arguments(alg, 0)[j]] = h[j]
  BY <1>1, <1>5, FirstArguments
<1>7. Working' = h
  BY <1>1, <1>2, <1>4, <1>6 DEF Working
<1> QED
  BY <1>1, <1>3, <1>7 DEF Fips!Start, Fips!Word, Word

LEMMA ExpandStutters ==
  ASSUME IInv, Expand
  PROVE  UNCHANGED Fips!vars
<1>1. pc = "expand" /\ UNCHANGED <<alg, block, reg, h, sched>> /\ pc' \in {"expand", "rounds"}
  BY DEF Expand
<1>2. Done = 0 /\ Done' = 0
  BY DEF Expand, Done
<1>3. Working' = Working
  BY <1>1, <1>2 DEF Working
<1> QED
  BY <1>1, <1>3 DEF Fips!vars

LEMMA Sha1ScheduleWord ==
  ASSUME IInv, RoundSha1
  PROVE  Fips!ScheduleWord(t) = W'[Slot(t)]
<1>1. /\ alg = "SHA1" /\ pc = "rounds" /\ t \in 0..79
      /\ Known = IF t < 16 THEN 16 ELSE t
  BY Sha1RoundState
<1>2. CASE t < 16
  <2>1. W'[Slot(t)] = block[t]
    BY <1>2, Sha1RoundWord
  <2> QED
    BY <1>2, <2>1 DEF Fips!ScheduleWord
<1>3. CASE t >= 16
  <2>1. W'[Slot(t)] = RotSha1(t)
    BY <1>3, Sha1RoundWord
  <2>2. \A s \in (t - 16)..(t - 1) : W[Slot(s)] = sched[s + 1]
    BY <1>1, <1>3 DEF IInv, ScheduleIsKept
  <2>3. /\ t - 3 \in (t - 16)..(t - 1) /\ t - 8 \in (t - 16)..(t - 1)
        /\ t - 14 \in (t - 16)..(t - 1) /\ t - 16 \in (t - 16)..(t - 1)
    BY <1>1, <1>3
  <2>4. /\ W[Slot(t - 3)] = sched[t - 3 + 1] /\ W[Slot(t - 8)] = sched[t - 8 + 1]
        /\ W[Slot(t - 14)] = sched[t - 14 + 1] /\ W[Slot(t - 16)] = sched[t - 16 + 1]
    BY <2>2, <2>3
  <2>5. Slot(t) = Slot(t - 16)
    BY <1>1, <1>3 DEF Slot
  <2>6. Fips!ScheduleWord(t)
          = RotL(Xor(Xor(Xor(sched[t - 3 + 1], sched[t - 8 + 1]), sched[t - 14 + 1]),
                     sched[t - 16 + 1]), 1)
    BY <1>1, <1>3 DEF Fips!ScheduleWord, Fips!Xor, Xor
  <2> QED
    BY <2>1, <2>4, <2>5, <2>6 DEF RotSha1
<1> QED
  BY <1>1, <1>2, <1>3

LEMMA RoundSha1Refines ==
  ASSUME IInv, RoundSha1
  PROVE  Fips!Round
<1>1. /\ alg = "SHA1" /\ pc = "rounds" /\ t \in 0..79 /\ Done = t
      /\ sched \in Seq(Word) /\ Len(sched) = t
      /\ UNCHANGED <<alg, pc, block, h, calls>> /\ Done' = t + 1
  BY Sha1RoundState
<1> DEFINE p == Arguments("SHA1", t)
           q == Arguments("SHA1", t + 1)
           x == W'[Slot(t)]
           ft == F(t, reg[p[2]], reg[p[3]], reg[p[4]])
<1>2. /\ q[1] = p[5] /\ q[2] = p[1] /\ q[3] = p[2] /\ q[4] = p[3] /\ q[5] = p[4]
  <2>1. t \in Nat
    BY <1>1
  <2> QED
    BY <2>1, Sha1CallsTurn
<1>3. /\ \A j \in 1..5 : reg[p[j]] \in Word
      /\ reg'[p[1]] = reg[p[1]]
      /\ reg'[p[2]] = RotL(reg[p[2]], 30)
      /\ reg'[p[3]] = reg[p[3]]
      /\ reg'[p[4]] = reg[p[4]]
      /\ reg'[p[5]] = Plus(reg[p[5]], Sha1Sum(p, t, x))
  BY Sha1RoundRegisters
<1>4. x \in Word /\ sched' = Append(sched, x)
  <2>1. Slot(t) \in 0..15
    BY <1>1, SlotRange
  <2> QED
    BY <2>1, Sha1RoundWord
<1>5. /\ RotL(reg[p[1]], 5) \in Word /\ K("SHA1", t) \in Word
      /\ ft \in Word /\ ft = Fips!f(t, reg[p[2]], reg[p[3]], reg[p[4]])
  <2>1. reg[p[1]] \in Word /\ 5 \in {1, 5, 30}
    BY <1>3
  <2>2. RotL(reg[p[1]], 5) \in Word
    BY <2>1, WordAssumption, Zenon
  <2>3. "SHA1" \in Algorithms /\ t \in 0..(Rounds("SHA1") - 1)
    BY <1>1, Sizes DEF Algorithms
  <2>4. K("SHA1", t) \in Word
    BY <2>3, WordAssumption, Zenon
  <2>5. reg[p[2]] \in Word /\ reg[p[3]] \in Word /\ reg[p[4]] \in Word
    BY <1>3
  <2>6. ft \in Word /\ ft = Fips!f(t, reg[p[2]], reg[p[3]], reg[p[4]])
    <3> HIDE DEF p
    <3> QED
      BY <1>1, <2>5, FTyped
  <2> QED
    BY <2>2, <2>4, <2>6
<1> HIDE DEF p, q, x
<1>6. Working \in [1..5 -> Word] /\ Working' \in [1..5 -> Word]
  <2>1. IInv' /\ Registers("SHA1") = 5
    BY RoundSha1Keeps, Sizes
  <2>2. Working \in [1..Registers(alg) -> Word]
    BY <1>1, WorkingTyped
  <2>3. Working' \in [1..Registers(alg') -> Word]
    <3>1. \A j \in 1..5 : reg'[q[j]] \in Word
      <4>1. Sha1Sum(p, t, x) \in Word /\ reg' \in [Names(alg) -> Word]
        BY Sha1RoundRegisters DEF p, x
      <4>2. t + 1 \in Nat
        BY <1>1
      <4>3. \A j \in 1..5 : q[j] \in Names("SHA1")
        BY <4>2, Sha1CallsTurn DEF q
      <4> QED
        BY <1>1, <4>1, <4>3
    <3> QED
      BY <1>1, <2>1, <3>1 DEF Working, q
  <2> QED
    BY <1>1, <2>1, <2>2, <2>3
<1>7. /\ Working[1] = reg[p[1]] /\ Working[2] = reg[p[2]] /\ Working[3] = reg[p[3]]
      /\ Working[4] = reg[p[4]] /\ Working[5] = reg[p[5]]
  BY <1>1, Sizes DEF Working, p
<1>8. /\ Working'[1] = reg'[q[1]] /\ Working'[2] = reg'[q[2]] /\ Working'[3] = reg'[q[3]]
      /\ Working'[4] = reg'[q[4]] /\ Working'[5] = reg'[q[5]]
  BY <1>1, Sizes DEF Working, q
<1>9. reg'[p[5]] = Plus(Plus(Plus(Plus(RotL(reg[p[1]], 5), ft), reg[p[5]]), K("SHA1", t)), x)
  <2>1. reg'[p[5]] = Plus(reg[p[5]], Plus(Plus(Plus(RotL(reg[p[1]], 5), ft), K("SHA1", t)), x))
    BY <1>3 DEF Sha1Sum
  <2>2. reg[p[5]] \in Word
    BY <1>3
  <2> QED
    BY <1>4, <1>5, <2>1, <2>2, Sha1SumOrder
<1>10. Working' = Fips!ShiftSha1(t, x)
  <2>1. Fips!ShiftSha1(t, x)
          = <<Plus(Plus(Plus(Plus(RotL(reg[p[1]], 5), ft), reg[p[5]]), K("SHA1", t)), x),
              reg[p[1]], RotL(reg[p[2]], 30), reg[p[3]], reg[p[4]]>>
    BY <1>1, <1>5, <1>7 DEF Fips!ShiftSha1
  <2>2. /\ Working'[1] = Plus(Plus(Plus(Plus(RotL(reg[p[1]], 5), ft), reg[p[5]]), K("SHA1", t)), x)
        /\ Working'[2] = reg[p[1]] /\ Working'[3] = RotL(reg[p[2]], 30)
        /\ Working'[4] = reg[p[3]] /\ Working'[5] = reg[p[4]]
    BY <1>2, <1>3, <1>8, <1>9
  <2> QED
    BY <1>6, <2>1, <2>2, Sha1Tuple
<1>11. Fips!ScheduleWord(t) = x
  BY Sha1ScheduleWord DEF x
<1>12. pc # "idle" /\ Len(sched) < Fips!Rounds(alg)
  BY <1>1 DEF Fips!Rounds
<1> QED
  BY <1>1, <1>4, <1>10, <1>11, <1>12 DEF Fips!Round

LEMMA Sha2ScheduleWord ==
  ASSUME IInv, RoundSha2
  PROVE  Fips!ScheduleWord(t) = W'[t]
<1>1. /\ alg \in {"SHA256", "SHA512"} /\ pc = "rounds" /\ t \in 0..79 /\ Done = t
  BY Sha2RoundState
<1>2. W'[t] = IF t < 16 THEN block[t] ELSE RotSha2(t)
  BY Sha2RoundWord
<1>3. CASE t < 16
  BY <1>2, <1>3 DEF Fips!ScheduleWord
<1>4. CASE t >= 16
  <2>1. \A s \in 0..(t - 1) : sched[s + 1] = W[s]
    BY <1>1 DEF IInv, ScheduleIsKept
  <2>2. /\ t - 2 \in 0..(t - 1) /\ t - 7 \in 0..(t - 1)
        /\ t - 15 \in 0..(t - 1) /\ t - 16 \in 0..(t - 1)
    BY <1>1, <1>4
  <2>3. /\ sched[t - 2 + 1] = W[t - 2] /\ sched[t - 7 + 1] = W[t - 7]
        /\ sched[t - 15 + 1] = W[t - 15] /\ sched[t - 16 + 1] = W[t - 16]
    BY <2>1, <2>2
  <2>4. Fips!ScheduleWord(t)
          = Plus(Plus(Plus(SUB(alg, 1, sched[t - 2 + 1]), sched[t - 7 + 1]),
                      SUB(alg, 0, sched[t - 15 + 1])), sched[t - 16 + 1])
    BY <1>1, <1>4 DEF Fips!ScheduleWord
  <2>5. W'[t] = RotSha2(t)
    BY <1>1, <1>2, <1>4
  <2> QED
    BY <2>3, <2>4, <2>5 DEF RotSha2
<1> QED
  BY <1>1, <1>3, <1>4

LEMMA RoundSha2Refines ==
  ASSUME IInv, RoundSha2
  PROVE  Fips!Round
<1>1. /\ alg \in {"SHA256", "SHA512"} /\ pc = "rounds" /\ t \in 0..79 /\ Done = t
      /\ t \in 0..(Rounds(alg) - 1) /\ Rounds(alg) \in {64, 80}
      /\ sched \in Seq(Word) /\ Len(sched) = t
      /\ UNCHANGED <<alg, pc, block, h, calls>> /\ Done' = t + 1
  BY Sha2RoundState
<1> DEFINE p == Arguments(alg, t)
           q == Arguments(alg, t + 1)
           x == W'[t]
<1>2. /\ q[1] = p[8] /\ q[2] = p[1] /\ q[3] = p[2] /\ q[4] = p[3]
      /\ q[5] = p[4] /\ q[6] = p[5] /\ q[7] = p[6] /\ q[8] = p[7]
  <2>1. t \in Nat /\ alg \in {"SHA256", "SHA512"}
    BY <1>1
  <2> QED
    BY <2>1, Sha2CallsTurn
<1>3. /\ \A j \in 1..8 : reg[p[j]] \in Word
      /\ \A j \in {1, 2, 3, 5, 6, 7} : reg'[p[j]] = reg[p[j]]
      /\ reg'[p[4]] = Plus(reg[p[4]], Sha2Tmp1(p, x))
      /\ reg'[p[8]] = Plus(Sha2Tmp1(p, x), Sha2Tmp2(p))
      /\ reg' \in [Names(alg) -> Word]
  BY Sha2RoundRegisters
<1>4. sched' = Append(sched, x)
  BY Sha2RoundWord
<1>5. \A j \in 1..8 : q[j] \in Names(alg)
  <2>1. t + 1 \in Nat
    BY <1>1
  <2> QED
    BY ZenonT(40), <1>1, <2>1, Sha2CallsTurn
<1>6. Registers(alg) = 8
  BY <1>1 DEF Registers
<1>7. Fips!ScheduleWord(t) = x
  BY Sha2ScheduleWord
<1> HIDE DEF p, q, x
<1>8. Working = [j \in 1..8 |-> reg[p[j]]] /\ Working' = [j \in 1..8 |-> reg'[q[j]]]
  BY <1>1, <1>6 DEF Working, p, q, Registers
<1>9. Working' \in [1..8 -> Word]
  BY <1>3, <1>5, <1>8
<1>10. /\ F1(reg[p[5]], reg[p[6]], reg[p[7]]) = Fips!Ch(reg[p[5]], reg[p[6]], reg[p[7]])
       /\ F0(reg[p[1]], reg[p[2]], reg[p[3]]) = Fips!Maj(reg[p[1]], reg[p[2]], reg[p[3]])
  <2>1. /\ reg[p[1]] \in Word /\ reg[p[2]] \in Word /\ reg[p[3]] \in Word
        /\ reg[p[5]] \in Word /\ reg[p[6]] \in Word /\ reg[p[7]] \in Word
    BY <1>3
  <2>2. F1(reg[p[5]], reg[p[6]], reg[p[7]]) = Fips!Ch(reg[p[5]], reg[p[6]], reg[p[7]])
    BY <2>1, WordFunctions
  <2> QED
    BY <2>1, <2>2, WordFunctions
<1>11. /\ Working[1] = reg[p[1]] /\ Working[2] = reg[p[2]] /\ Working[3] = reg[p[3]]
       /\ Working[4] = reg[p[4]] /\ Working[5] = reg[p[5]] /\ Working[6] = reg[p[6]]
       /\ Working[7] = reg[p[7]] /\ Working[8] = reg[p[8]]
  BY <1>8
<1>12. Working' = Fips!ShiftSha2(t, x)
  <2>1. Fips!ShiftSha2(t, x)
          = <<Plus(Sha2Tmp1(p, x), Sha2Tmp2(p)), reg[p[1]], reg[p[2]], reg[p[3]],
              Plus(reg[p[4]], Sha2Tmp1(p, x)), reg[p[5]], reg[p[6]], reg[p[7]]>>
    BY <1>1, <1>10, <1>11 DEF Fips!ShiftSha2, Sha2Tmp1, Sha2Tmp2
  <2>2. /\ Working'[1] = reg'[q[1]] /\ Working'[2] = reg'[q[2]] /\ Working'[3] = reg'[q[3]]
        /\ Working'[4] = reg'[q[4]] /\ Working'[5] = reg'[q[5]] /\ Working'[6] = reg'[q[6]]
        /\ Working'[7] = reg'[q[7]] /\ Working'[8] = reg'[q[8]]
    BY <1>8
  <2>3. /\ Working'[1] = Plus(Sha2Tmp1(p, x), Sha2Tmp2(p))
        /\ Working'[2] = reg[p[1]] /\ Working'[3] = reg[p[2]] /\ Working'[4] = reg[p[3]]
        /\ Working'[5] = Plus(reg[p[4]], Sha2Tmp1(p, x))
        /\ Working'[6] = reg[p[5]] /\ Working'[7] = reg[p[6]] /\ Working'[8] = reg[p[7]]
    BY <1>2, <1>3, <2>2
  <2> QED
    BY <1>9, <2>1, <2>3, Sha2Tuple
<1>13. pc # "idle" /\ Len(sched) < Fips!Rounds(alg)
  BY <1>1 DEF Fips!Rounds, Rounds
<1> QED
  BY <1>1, <1>4, <1>7, <1>12, <1>13 DEF Fips!Round

LEMMA AddBackFinishes ==
  ASSUME IInv, AddBack
  PROVE  Fips!Finish
<1>1. /\ pc = "rounds" /\ UNCHANGED <<alg, block, calls>> /\ pc' = "idle" /\ sched' = <<>>
      /\ h' = [j \in 1..Registers(alg) |-> Plus(h[j], reg[Letters[j]])]
      /\ t = Rounds(alg)
  BY DEF AddBack
<1>2. alg \in Algorithms /\ Done = t /\ Len(sched) = t
  BY <1>1 DEF IInv, TypeOK, Done
<1>3. \A j \in 1..Registers(alg) : Arguments(alg, t)[j] = Letters[j]
  BY <1>1, <1>2, FirstArguments
<1>4. \A j \in 1..Registers(alg) : Working[j] = reg[Letters[j]]
  BY <1>2, <1>3 DEF Working
<1>5. Fips!Rounds(alg) = Rounds(alg) /\ Fips!Registers(alg) = Registers(alg)
  BY DEF Fips!Rounds, Rounds, Fips!Registers, Registers
<1>6. h' = [j \in 1..Registers(alg) |-> Plus(h[j], Working[j])]
  BY <1>1, <1>4
<1> QED
  BY <1>1, <1>2, <1>5, <1>6 DEF Fips!Finish

\* The three functions, calling PAD with their registers in turn, compute what
\* FIPS 180-4 does by shifting the working variables, for every block, every
\* chaining value and any number of calls (sha1.c:47-281, sha256.c:77-232,
\* sha512.c:99-230).
THEOREM Refinement == Spec => ImplementsFips
<1>1. Init => Fips!Init
  BY DEF Init, Fips!Init
<1>2. ASSUME IInv, [Next]_vars
      PROVE  [Fips!Next]_(Fips!vars)
  <2>1. CASE \E b \in BlockValues : Begin(b)
    BY <1>2, <2>1, BeginStarts DEF Fips!Next
  <2>2. CASE Expand
    BY <1>2, <2>2, ExpandStutters
  <2>3. CASE RoundSha1
    BY <1>2, <2>3, RoundSha1Refines DEF Fips!Next
  <2>4. CASE RoundSha2
    BY <1>2, <2>4, RoundSha2Refines DEF Fips!Next
  <2>5. CASE AddBack
    BY <1>2, <2>5, AddBackFinishes DEF Fips!Next
  <2>6. CASE UNCHANGED vars
    <3>1. UNCHANGED <<alg, pc, block, h, sched>> /\ Working' = Working
      BY <2>6 DEF vars, Working, Done
    <3> QED
      BY <3>1 DEF Fips!vars
  <2> QED
    BY <1>2, <2>1, <2>2, <2>3, <2>4, <2>5, <2>6 DEF Next
<1> QED
  BY <1>1, <1>2, Invariance, PTL DEF Spec, ImplementsFips, Fips!Spec
=============================================================================
