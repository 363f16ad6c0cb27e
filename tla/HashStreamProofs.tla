-------------------------- MODULE HashStreamProofs --------------------------
(***************************************************************************)
(* Proofs about HashStream for every block size, word size, message and    *)
(* sequence of calls.                                                      *)
(***************************************************************************)
EXTENDS HashStream, SequenceTheorems, Arithmetic

-----------------------------------------------------------------------------
(* Constants and bytes.                                                    *)

LEMMA Sizes ==
  /\ BlockSize \in Nat \ {0} /\ WordMod \in Nat \ {0} /\ LenSize \in Nat \ {0}
  /\ LenSize < BlockSize
  /\ \E k \in Nat \ {0} : WordMod = BlockSize * k
  /\ \E k \in Nat \ {0} : WordMod = 8 * k
  /\ BlockSize <= WordMod
  /\ PadByte \in Byte /\ 0 \in Byte
<1>1. LenSize \in Nat \ {0}
  BY ByteAssumption DEF LenSize, WordsPerHalf
<1>2. BlockSize \in Nat \ {0} /\ LenSize < BlockSize
  BY <1>1, BlockAssumption
<1>3. PICK k \in 1..WordMod : WordMod = BlockSize * k
  BY WordAssumption
<1>4. BlockSize <= WordMod
  BY <1>2, <1>3, WordAssumption
<1>5. PadByte \in Byte /\ 0 \in Byte
  BY ByteAssumption DEF PadByte, Byte
<1> QED
  BY <1>1, <1>2, <1>3, <1>4, <1>5, WordAssumption

LEMMA FunctionIsSeq ==
  ASSUME NEW S, NEW n \in Nat, NEW f \in [1..n -> S]
  PROVE  f \in Seq(S) /\ Len(f) = n
<1>1. f \in Seq(S)
  BY SeqDef
<1> QED
  BY <1>1, LenProperties

LEMMA Associative ==
  \A a, b, c \in Seq(Byte) : (a \o b) \o c = a \o (b \o c)
BY ConcatAssociative

\* Four pieces joined two and two, or the middle ones first.
SameJoin(a, b, c, d) == (a \o b) \o (c \o d) = (a \o (b \o c)) \o d

LEMMA Regroup ==
  \A a, b, c, d \in Seq(Byte) : SameJoin(a, b, c, d)
<1> TAKE a, b, c, d \in Seq(Byte)
<1> DEFINE ab == a \o b
<1>1. ab \in Seq(Byte)
  BY ConcatProperties
<1>2. (a \o b) \o c = a \o (b \o c)
  BY Associative, ZenonT(40)
<1> HIDE DEF ab
<1>3. ab \o (c \o d) = (ab \o c) \o d
  BY <1>1, Associative, ZenonT(40)
<1> QED
  BY <1>2, <1>3, Zenon DEF SameJoin, ab

LEMMA PaddingType ==
  ASSUME NEW n \in Nat
  PROVE  Padding(n) \in Seq(Byte) /\ Len(Padding(n)) = n
<1>1. Padding(n) \in [1..n -> Byte]
  BY Sizes DEF Padding
<1> QED
  BY <1>1, FunctionIsSeq

LEMMA PutType ==
  ASSUME NEW n \in Nat
  PROVE  PutUint32BE(n) \in Seq(Byte) /\ Len(PutUint32BE(n)) = WordBytes
<1>1. ASSUME NEW i \in 1..WordBytes
      PROVE  (n \div Place[WordBytes - i]) % ByteMod \in Byte
  <2>1. Place[WordBytes - i] \in Nat \ {0}
    BY PlaceAssumption, ByteAssumption, WordBytes - i \in 0..(WordBytes - 1)
  <2>2. PICK w \in Nat \ {0} : w = Place[WordBytes - i]
    BY <2>1
  <2>3. n \div w \in Int
    BY DivMod
  <2> QED
    BY <2>2, <2>3, ByteAssumption, DivMod DEF Byte
<1>2. PutUint32BE(n) \in [1..WordBytes -> Byte]
  BY <1>1 DEF PutUint32BE
<1> QED
  BY <1>2, FunctionIsSeq, ByteAssumption

LEMMA TakeDropType ==
  ASSUME NEW s \in Seq(Byte), NEW n \in 0..Len(s)
  PROVE  /\ Take(s, n) \in Seq(Byte) /\ Len(Take(s, n)) = n
         /\ Drop(s, n) \in Seq(Byte) /\ Len(Drop(s, n)) = Len(s) - n
         /\ Take(s, n) \o Drop(s, n) = s
<1>1. Len(s) \in Nat /\ \A i \in 1..Len(s) : s[i] \in Byte
  BY LenProperties, ElementOfSeq
<1>2. \A i \in 1..n : s[i] \in Byte
  BY <1>1
<1>3. \A i \in (n + 1)..Len(s) : s[i] \in Byte
  BY <1>1
<1>4. Take(s, n) \in Seq(Byte) /\ Len(Take(s, n)) = n
  BY <1>1, <1>2, SubSeqProperties DEF Take
<1>5. Drop(s, n) \in Seq(Byte) /\ Len(Drop(s, n)) = Len(s) - n
  BY <1>1, <1>3, SubSeqProperties DEF Drop
<1>6. SubSeq(s, 1, n) \o SubSeq(s, n + 1, Len(s)) = SubSeq(s, 1, Len(s))
  <2>1. 1 \in 1..(Len(s) + 1) /\ n \in (1 - 1)..Len(s) /\ Len(s) \in n..Len(s)
    BY <1>1
  <2> QED
    BY <2>1, ConcatAdjacentSubSeq, Zenon
<1>7. SubSeq(s, 1, Len(s)) = s
  BY SubSeqFull, Zenon
<1>8. Take(s, n) \o Drop(s, n) = s
  BY <1>6, <1>7, Zenon DEF Take, Drop
<1> QED
  BY <1>4, <1>5, <1>8

\* The buffer, read as a sequence, and its first n bytes.
LEMMA BufferType ==
  ASSUME NEW b \in [1..BlockSize -> Byte], NEW n \in 0..BlockSize
  PROVE  /\ b \in Seq(Byte) /\ Len(b) = BlockSize
         /\ Take(b, n) \in Seq(Byte) /\ Len(Take(b, n)) = n
         /\ \A i \in 1..n : Take(b, n)[i] = b[i]
         /\ Take(b, BlockSize) = b
<1>1. b \in Seq(Byte) /\ Len(b) = BlockSize
  BY FunctionIsSeq, Sizes
<1>2. \A i \in 1..n : b[i] \in Byte
  BY Sizes
<1>3. /\ Take(b, n) \in Seq(Byte) /\ Len(Take(b, n)) = n
      /\ \A i \in 1..n : Take(b, n)[i] = b[i]
  BY <1>2, Sizes, SubSeqProperties DEF Take
<1> QED
  BY <1>1, <1>3, SubSeqFull DEF Take

\* A copy that fits extends what the buffer holds by exactly its source.
LEMMA CopyExtends ==
  ASSUME NEW b \in [1..BlockSize -> Byte], NEW at \in Nat, NEW s \in Seq(Byte),
         at + Len(s) <= BlockSize
  PROVE  /\ MemCpy(b, at, s) \in [1..BlockSize -> Byte]
         /\ Take(MemCpy(b, at, s), at + Len(s)) = Take(b, at) \o s
<1> DEFINE m == at + Len(s)
           c == MemCpy(b, at, s)
<1>1. Len(s) \in Nat /\ \A i \in 1..Len(s) : s[i] \in Byte
  BY LenProperties, ElementOfSeq
<1>2. c \in [1..BlockSize -> Byte]
  BY <1>1 DEF MemCpy
<1>3. m \in 0..BlockSize /\ at \in 0..BlockSize
  BY <1>1, Sizes
<1>4. /\ Take(c, m) \in Seq(Byte) /\ Len(Take(c, m)) = m
      /\ \A i \in 1..m : Take(c, m)[i] = c[i]
  BY <1>2, <1>3, BufferType
<1>5. /\ Take(b, at) \in Seq(Byte) /\ Len(Take(b, at)) = at
      /\ \A i \in 1..at : Take(b, at)[i] = b[i]
  BY <1>3, BufferType
<1> HIDE DEF c
<1>6. /\ Take(b, at) \o s \in Seq(Byte)
      /\ Len(Take(b, at) \o s) = m
      /\ \A i \in 1..m : (Take(b, at) \o s)[i] = IF i <= at THEN Take(b, at)[i] ELSE s[i - at]
  <2> DEFINE h == Take(b, at)
  <2>1. h \in Seq(Byte) /\ Len(h) = at
    BY <1>5
  <2> HIDE DEF h
  <2>2. /\ h \o s \in Seq(Byte)
        /\ Len(h \o s) = m
        /\ \A i \in 1..m : (h \o s)[i] = IF i <= at THEN h[i] ELSE s[i - at]
    BY <2>1, ConcatProperties
  <2> QED
    BY <2>2 DEF h
<1>7. \A i \in 1..m : c[i] = IF i <= at THEN b[i] ELSE s[i - at]
  <2> TAKE i \in 1..m
  <2>1. i \in 1..BlockSize
    BY <1>1, <1>3, Sizes
  <2>2. c[i] = IF i \in (at + 1)..(at + Len(s)) THEN s[i - at] ELSE b[i]
    BY <2>1 DEF MemCpy, c
  <2>3. i \in (at + 1)..(at + Len(s)) <=> ~(i <= at)
    BY <1>1
  <2> QED
    BY <2>2, <2>3
<1>8. \A i \in 1..m : Take(c, m)[i] = (Take(b, at) \o s)[i]
  BY <1>3, <1>4, <1>5, <1>6, <1>7
<1>9. Take(c, m) = Take(b, at) \o s
  BY <1>4, <1>6, <1>8, SeqEqual
<1> QED
  BY <1>2, <1>9 DEF c
-----------------------------------------------------------------------------
(* The counter and the block boundaries.                                   *)

\* The counter stays exact: the carry is right for any argument a word counts.
LEMMA CountIsExact ==
  ASSUME NEW t \in [0..1 -> 0..(WordMod - 1)], NEW n \in Nat, NEW len \in 0..WordMod,
         t[0] = n % WordMod, t[1] = (n \div WordMod) % WordMod
  PROVE  /\ Count(t, len) \in [0..1 -> 0..(WordMod - 1)]
         /\ Count(t, len)[0] = (n + len) % WordMod
         /\ Count(t, len)[1] = ((n + len) \div WordMod) % WordMod
<1> DEFINE low == (t[0] + len) % WordMod
           top == IF low < len THEN (t[1] + 1) % WordMod ELSE t[1]
<1>1. Count(t, len) = [t EXCEPT ![0] = low, ![1] = top]
  BY DEF Count
<1>2. /\ low \in 0..(WordMod - 1) /\ low = (n + len) % WordMod
      /\ top \in 0..(WordMod - 1) /\ top = ((n + len) \div WordMod) % WordMod
  <2>1. PICK w \in Nat \ {0} : w = WordMod
    BY Sizes
  <2>2. n \in Nat /\ len \in 0..w /\ t[0] = n % w /\ t[1] = (n \div w) % w
    BY <2>1
  <2>3. /\ LowAfter(w, n % w, len) \in 0..(w - 1)
        /\ LowAfter(w, n % w, len) = (n + len) % w
        /\ HighAfter(w, n % w, (n \div w) % w, len) \in 0..(w - 1)
        /\ HighAfter(w, n % w, (n \div w) % w, len) = ((n + len) \div w) % w
    BY <2>1, <2>2, CarryIsExact, Zenon
  <2>4. low = LowAfter(w, n % w, len) /\ top = HighAfter(w, n % w, (n \div w) % w, len)
    BY <2>1, <2>2 DEF LowAfter, HighAfter
  <2> HIDE DEF low, top
  <2> QED
    BY <2>1, <2>3, <2>4
<1> HIDE DEF low, top
<1> QED
  BY <1>1, <1>2

\* The position in the block depends on the low word alone.
LEMMA BlockPosition ==
  ASSUME NEW n \in Int
  PROVE  (n % WordMod) % BlockSize = n % BlockSize
<1>1. PICK b \in Nat \ {0}, k \in Nat \ {0} : b = BlockSize /\ WordMod = b * k
  BY Sizes
<1>2. (n % (b * k)) % b = n % b
  BY ModOfMultiple, Zenon
<1> QED
  BY <1>1, <1>2

\* The padding makes whole blocks, and no other count up to a block does.
LEMMA PadLengthProperties ==
  ASSUME NEW n \in Nat, NEW p \in 1..BlockSize, (n + p + LenSize) % BlockSize = 0
  PROVE  PadLength(n) = p
<1>1. BlockSize \in Nat \ {0} /\ LenSize \in Nat
  BY Sizes
<1>2. /\ PadLength(n) \in 1..BlockSize
      /\ (n + PadLength(n) + LenSize) % BlockSize = 0
  BY DEF PadLength
<1>3. PICK b \in Nat \ {0} : b = BlockSize
  BY <1>1
<1>4. PICK x \in Int : x = n + LenSize
  BY <1>1
<1>5. PICK r \in 1..b : r = PadLength(n)
  BY <1>2, <1>3
<1>6. (x + r) % b = 0 /\ (x + p) % b = 0
  <2>1. x + r = n + PadLength(n) + LenSize /\ x + p = n + p + LenSize
    BY <1>1, <1>3, <1>4, <1>5
  <2> QED
    BY <1>2, <1>3, <2>1
<1>7. r = p
  BY <1>3, <1>6, ModCancel
<1> QED
  BY <1>5, <1>7

\* final pads as the standard says: padn is the count PadLength names.
LEMMA PadNIsPadLength ==
  ASSUME NEW t, NEW n \in Nat, t[0] = n % WordMod
  PROVE  /\ PadN(t) = PadLength(n)
         /\ PadN(t) \in 1..BlockSize
         /\ (n + PadN(t) + LenSize) % BlockSize = 0
<1> DEFINE last == t[0] % BlockSize
           q == n \div BlockSize
           room == BlockSize - LenSize
           p == PadN(t)
<1>1. BlockSize \in Nat \ {0} /\ LenSize \in Nat \ {0} /\ LenSize < BlockSize
  BY Sizes
<1>2. last = n % BlockSize
  BY BlockPosition, n \in Int
<1>3. last \in 0..(BlockSize - 1) /\ q \in Int /\ n = BlockSize * q + last
  <2>1. /\ n % BlockSize \in 0..(BlockSize - 1) /\ q \in Int
        /\ n = BlockSize * q + (n % BlockSize)
    BY <1>1, DivMod, n \in Int, Zenon
  <2> HIDE DEF last, q
  <2> QED
    BY <1>2, <2>1
<1>4. p = IF last < room THEN room - last ELSE BlockSize + room - last
  BY DEF PadN
<1> HIDE DEF last, q, p
<1>5. p \in 1..BlockSize
  BY <1>1, <1>3, <1>4
<1>6. (n + p + LenSize) % BlockSize = 0
  <2>1. PICK k \in Int : n + p + LenSize = BlockSize * k
    <3> DEFINE z == BlockSize * q
    <3>1. z \in Int /\ z + BlockSize = BlockSize * (q + 1) /\ z + 2 * BlockSize = BlockSize * (q + 2)
      BY <1>1, <1>3
    <3>2. n = z + last
      BY <1>3
    <3> HIDE DEF z
    <3>3. n + p + LenSize = IF last < room THEN z + BlockSize ELSE z + 2 * BlockSize
      BY <1>1, <1>3, <1>4, <3>1, <3>2
    <3> QED
      BY <1>3, <3>1, <3>3, q + 1 \in Int, q + 2 \in Int
  <2>2. (BlockSize * k + 0) % BlockSize = 0
    BY <1>1, DivModUnique, 0 \in 0..(BlockSize - 1), Zenon
  <2> QED
    BY <1>1, <2>1, <2>2, BlockSize * k + 0 = BlockSize * k
<1>7. p = PadLength(n)
  BY <1>5, <1>6, PadLengthProperties, Zenon
<1> QED
  BY <1>5, <1>6, <1>7 DEF p

\* The shifts of final encode the bit count of the bytes counted.
LEMMA EncodedIsBitCount ==
  ASSUME NEW t, NEW n \in Nat, t[0] = n % WordMod, t[1] = (n \div WordMod) % WordMod
  PROVE  EncodedLow(t) = LowWord(n) /\ EncodedHigh(t) = HighWord(n)
<1>1. PICK v \in Nat \ {0}, w \in Nat \ {0} : w = WordMod /\ w = 8 * v
  BY Sizes
<1>2. /\ ((n % w) * 8) % w = (8 * n) % w
      /\ ((n % w) \div v) + ((((n \div w) % w) * 8) % w) = ((8 * n) \div w) % w
  BY <1>1, BitsOfBytes, Zenon
<1>3. w \div 8 = v
  BY <1>1
<1> QED
  BY <1>1, <1>2, <1>3 DEF EncodedLow, EncodedHigh, LowWord, HighWord

\* A length whose bits fit into a word leaves the high words empty, and so
\* does every outcome of the shift of sha512.c.
LEMMA ShortCount ==
  ASSUME NEW t, NEW n \in Nat, t[0] = n % WordMod, t[1] = (n \div WordMod) % WordMod,
         8 * n < WordMod
  PROVE  HighWord(n) = 0 /\ EncodedHigh(t) = 0 /\ (t[1] * 8) % WordMod = 0
<1>1. PICK w \in Nat \ {0} : w = WordMod
  BY Sizes
<1>2. ASSUME NEW m \in Nat, m < w
      PROVE  m \div w = 0 /\ m % w = m
  <2>1. m \in 0..(w - 1) /\ m = w * 0 + m /\ 0 \in Int
    BY <1>2
  <2>2. (w * 0 + m) \div w = 0 /\ (w * 0 + m) % w = m
    BY <2>1, DivModUnique, Zenon
  <2> QED
    BY <2>1, <2>2
<1>3. (8 * n) \div w = 0 /\ n \div w = 0 /\ 0 % w = 0
  BY <1>1, <1>2, 8 * n \in Nat, 0 \in Nat, n < w
<1>4. HighWord(n) = 0
  BY <1>1, <1>3 DEF HighWord
<1>5. EncodedHigh(t) = 0
  BY <1>4, EncodedIsBitCount
<1>6. t[1] = 0
  BY <1>1, <1>3
<1> QED
  BY <1>1, <1>3, <1>4, <1>5, <1>6

LEMMA MsgLensType ==
  ASSUME NEW t \in [0..1 -> 0..(WordMod - 1)], NEW n \in Nat,
         t[0] = n % WordMod, t[1] = (n \div WordMod) % WordMod,
         NEW m \in MsgLens(t)
  PROVE  /\ m \in Seq(Byte) /\ Len(m) = LenSize
         /\ Countable(n) => m = LengthField(n)
<1>1. \A k \in Nat : PutUint32BE(k) \in Seq(Byte) /\ Len(PutUint32BE(k)) = WordBytes
  BY PutType
<1>2. \A a, b \in Seq(Byte) : a \o b \in Seq(Byte) /\ Len(a \o b) = Len(a) + Len(b)
  BY ConcatProperties
<1>3. EncodedLow(t) = LowWord(n) /\ EncodedHigh(t) = HighWord(n)
  BY EncodedIsBitCount
<1>4. LowWord(n) \in Nat /\ HighWord(n) \in Nat
  <2>1. WordMod \in Nat \ {0}
    BY Sizes
  <2>2. (8 * n) % WordMod \in 0..(WordMod - 1) /\ (8 * n) \div WordMod \in Int
    BY <2>1, DivMod, 8 * n \in Int, Zenon
  <2>3. ((8 * n) \div WordMod) % WordMod \in 0..(WordMod - 1)
    BY <2>1, <2>2, DivMod, Zenon
  <2> QED
    BY <2>1, <2>2, <2>3 DEF LowWord, HighWord
<1>5. (t[1] * 8) % WordMod \in Nat
  <2>1. WordMod \in Nat \ {0} /\ t[1] * 8 \in Int
    BY Sizes
  <2>2. (t[1] * 8) % WordMod \in 0..(WordMod - 1)
    BY <2>1, DivMod, Zenon
  <2> QED
    BY <2>1, <2>2
<1>6. WordBytes \in Nat
  BY ByteAssumption
<1>7. CASE Wide
  <2>1. PICK high \in {EncodedHigh(t), (t[1] * 8) % WordMod} :
          m =    PutUint32BE(0) \o PutUint32BE(high)
              \o PutUint32BE(0) \o PutUint32BE(EncodedLow(t))
    BY <1>7 DEF MsgLens
  <2>2. high \in Nat
    BY <1>3, <1>4, <1>5
  <2> DEFINE A == PutUint32BE(0)
             B == PutUint32BE(high)
             D == PutUint32BE(EncodedLow(t))
  <2>3. /\ A \in Seq(Byte) /\ Len(A) = WordBytes
        /\ B \in Seq(Byte) /\ Len(B) = WordBytes
        /\ D \in Seq(Byte) /\ Len(D) = WordBytes
    BY <1>1, <1>3, <1>4, <2>2
  <2>4. m = ((A \o B) \o A) \o D
    BY <2>1
  <2> HIDE DEF A, B, D
  <2>5. A \o B \in Seq(Byte) /\ Len(A \o B) = 2 * WordBytes
    BY <1>2, <1>6, <2>3
  <2>6. (A \o B) \o A \in Seq(Byte) /\ Len((A \o B) \o A) = 3 * WordBytes
    BY <1>2, <1>6, <2>3, <2>5
  <2>8. ASSUME Countable(n)
        PROVE  m = LengthField(n)
    <3>1. /\ EncodedHigh(t) = 0 /\ (t[1] * 8) % WordMod = 0 /\ HighWord(n) = 0
      BY <1>3, <1>7, <2>8, ShortCount DEF Countable
    <3>2. high = 0
      BY <2>1, <3>1
    <3> QED
      BY <1>3, <1>7, <2>1, <3>1, <3>2 DEF LengthField
  <2>7. m \in Seq(Byte) /\ Len(m) = 4 * WordBytes
    <3>1. /\ ((A \o B) \o A) \o D \in Seq(Byte)
          /\ Len(((A \o B) \o A) \o D) = Len((A \o B) \o A) + Len(D)
      BY <1>2, <2>3, <2>6
    <3>2. Len(((A \o B) \o A) \o D) = 4 * WordBytes
      BY <1>6, <2>3, <2>6, <3>1
    <3> QED
      BY <2>4, <3>1, <3>2, Zenon
  <2> QED
    BY SMTT(30), <1>6, <1>7, <2>7, <2>8 DEF LenSize, WordsPerHalf
<1>8. CASE ~Wide
  <2> DEFINE A == PutUint32BE(EncodedHigh(t))
             B == PutUint32BE(EncodedLow(t))
  <2>1. m = A \o B
    BY <1>8 DEF MsgLens
  <2>2. m = LengthField(n)
    BY <1>3, <1>8, <2>1 DEF LengthField
  <2>3. /\ A \in Seq(Byte) /\ Len(A) = WordBytes
        /\ B \in Seq(Byte) /\ Len(B) = WordBytes
    BY <1>1, <1>3, <1>4
  <2> HIDE DEF A, B
  <2>4. m \in Seq(Byte) /\ Len(m) = 2 * WordBytes
    <3>1. A \o B \in Seq(Byte) /\ Len(A \o B) = 2 * WordBytes
      BY <1>2, <1>6, <2>3
    <3> QED
      BY <2>1, <3>1, Zenon
  <2> QED
    BY <1>6, <1>8, <2>2, <2>4 DEF LenSize, WordsPerHalf
<1> QED
  BY <1>7, <1>8, BlockAssumption
-----------------------------------------------------------------------------
(***************************************************************************)
(* The inductive invariant.  The safety properties are not inductive alone:*)
(* that final's digest is complete needs what final has fed so far, and    *)
(* that nothing is held at its end needs the length of the whole stream.   *)
(***************************************************************************)
FinalProgress ==
  /\ caller # "user" =>
       /\ Len(msglen) = LenSize
       /\ Countable(Len(message)) => msglen = LengthField(Len(message))
  /\ caller = "padding" =>
       stream = message \o Padding(PadLength(Len(message)))
  /\ caller = "msglen" =>
       stream = (message \o Padding(PadLength(Len(message)))) \o msglen

IInv ==
  /\ TypeOK
  /\ StreamIsKept
  /\ BlockDiscipline
  /\ CounterIsExact
  /\ pc # "update" => data = <<>>
  /\ pc = "idle" => caller = "user"
  /\ pc = "final" => caller # "user"
  /\ FinalProgress

\* What a step of update must re-establish of the context and its argument.
Buffering ==
  /\ chain \in Seq(Byte)
  /\ total \in [0..1 -> 0..(WordMod - 1)]
  /\ buffer \in [1..BlockSize -> Byte]
  /\ data \in Seq(Byte) /\ left \in 0..(BlockSize - 1)
  /\ stream \in Seq(Byte)
  /\ StreamIsKept
  /\ CounterIsExact
  /\ Len(chain) % BlockSize = 0
  /\ pc = "update" => /\ left > 0 => left + Len(data) < BlockSize
                      /\ (left + Len(data)) % BlockSize = total[0] % BlockSize

\* Between the calls of update nothing but the buffer is pending.
LEMMA RestingStream ==
  ASSUME IInv, pc # "update"
  PROVE  LET held == total[0] % BlockSize
         IN  /\ held \in 0..(BlockSize - 1)
             /\ Take(buffer, held) \in Seq(Byte) /\ Len(Take(buffer, held)) = held
             /\ stream = chain \o Take(buffer, held)
<1> DEFINE held == total[0] % BlockSize
<1>1. held \in 0..(BlockSize - 1)
  <2>1. total[0] \in Int /\ BlockSize \in Nat \ {0}
    BY Sizes DEF IInv, TypeOK
  <2> QED
    BY <2>1, DivMod, Zenon
<1>2. Take(buffer, held) \in Seq(Byte) /\ Len(Take(buffer, held)) = held
  <2> HIDE DEF held
  <2>1. held \in 0..BlockSize
    BY <1>1, Sizes
  <2> QED
    BY <2>1, BufferType DEF IInv, TypeOK
<1>3. stream = (chain \o Take(buffer, held)) \o <<>>
  BY DEF IInv, StreamIsKept, Held
<1>4. chain \o Take(buffer, held) \in Seq(Byte)
  <2> HIDE DEF held
  <2> QED
    BY <1>2, ConcatProperties DEF IInv, TypeOK
<1>5. stream = chain \o Take(buffer, held)
  <2> HIDE DEF held
  <2> QED
    BY <1>3, <1>4, ConcatEmptySeq
<1> QED
  BY <1>1, <1>2, <1>5

LEMMA BeginUpdateStep ==
  ASSUME IInv, pc # "update", NEW d \in Seq(Byte), Len(d) <= WordMod, BeginUpdate(d)
  PROVE  Buffering' /\ pc' = "update" /\ stream' = stream \o d
<1> DEFINE held == total[0] % BlockSize
           fill == BlockSize - held
<1>1. /\ BlockSize \in Nat \ {0} /\ WordMod \in Nat \ {0}
      /\ Len(d) \in 0..WordMod
  BY Sizes, LenProperties
<1>2. /\ held \in 0..(BlockSize - 1)
      /\ Take(buffer, held) \in Seq(Byte) /\ Len(Take(buffer, held)) = held
      /\ stream = chain \o Take(buffer, held)
  BY RestingStream
<1>3. /\ total \in [0..1 -> 0..(WordMod - 1)] /\ chain \in Seq(Byte)
      /\ buffer \in [1..BlockSize -> Byte] /\ stream \in Seq(Byte)
  BY DEF IInv, TypeOK
<1>4. total' = Count(total, Len(d)) /\ stream' = stream \o d /\ pc' = "update"
  BY DEF BeginUpdate
<1>5. stream' \in Seq(Byte) /\ Len(stream') = Len(stream) + Len(d) /\ Len(stream) \in Nat
  BY <1>3, <1>4, ConcatProperties, LenProperties
<1>6. /\ total' \in [0..1 -> 0..(WordMod - 1)]
      /\ total'[0] = (Len(stream) + Len(d)) % WordMod
      /\ total'[1] = ((Len(stream) + Len(d)) \div WordMod) % WordMod
  <2>1. total[0] = Len(stream) % WordMod /\ total[1] = (Len(stream) \div WordMod) % WordMod
    BY DEF IInv, CounterIsExact
  <2> QED
    BY <1>1, <1>3, <1>4, <1>5, <2>1, CountIsExact
<1>7. CounterIsExact'
  BY <1>5, <1>6 DEF CounterIsExact
<1>8. total'[0] % BlockSize = (held + Len(d)) % BlockSize
  <2>1. held = Len(stream) % BlockSize
    BY <1>5, BlockPosition, Len(stream) \in Int DEF IInv, CounterIsExact
  <2>2. total'[0] % BlockSize = (Len(stream) + Len(d)) % BlockSize
    BY <1>1, <1>5, <1>6, BlockPosition, Len(stream) + Len(d) \in Int
  <2>3. (Len(stream) + Len(d)) % BlockSize = ((Len(stream) % BlockSize) + Len(d)) % BlockSize
    BY <1>1, <1>5, ModAdd, Len(stream) \in Int, Len(d) \in Int, Zenon
  <2> HIDE DEF held
  <2> QED
    BY <2>1, <2>2, <2>3
<1>9. CASE held # 0 /\ Len(d) >= fill
  <2> DEFINE head == Take(d, fill)
  <2>1. /\ buffer' = MemCpy(buffer, held, head) /\ chain' = chain \o buffer'
        /\ data' = Drop(d, fill) /\ left' = 0
    BY <1>9 DEF BeginUpdate, Process
  <2> HIDE DEF held
  <2>2. fill \in 0..Len(d)
    BY <1>1, <1>2, <1>9
  <2>3. /\ head \in Seq(Byte) /\ Len(head) = fill
        /\ data' \in Seq(Byte) /\ Len(data') = Len(d) - fill
        /\ head \o data' = d
    BY <2>1, <2>2, TakeDropType
  <2>4. held + Len(head) = BlockSize
    BY <1>1, <1>2, <2>3
  <2>5. /\ buffer' \in [1..BlockSize -> Byte]
        /\ Take(buffer', BlockSize) = Take(buffer, held) \o head
    <3>1. held \in Nat /\ held + Len(head) <= BlockSize
      BY <1>1, <1>2, <2>4
    <3> HIDE DEF head
    <3> QED
      BY <1>3, <2>1, <2>3, <2>4, <3>1, CopyExtends
  <2>6. /\ buffer' \in Seq(Byte) /\ Len(buffer') = BlockSize
        /\ buffer' = Take(buffer, held) \o head
    BY <1>1, <2>5, BufferType, 0 \in 0..BlockSize
  <2>7. chain' \in Seq(Byte) /\ Len(chain') = Len(chain) + BlockSize /\ Len(chain) \in Nat
    BY <1>3, <2>1, <2>6, ConcatProperties, LenProperties
  <2>8. Len(chain') % BlockSize = 0
    <3>1. (Len(chain) + BlockSize * 1) % BlockSize = Len(chain) % BlockSize
      BY <1>1, <2>7, AddMultiple, Len(chain) \in Int, 1 \in Int, Zenon
    <3> QED
      BY <1>1, <2>7, <3>1 DEF IInv, BlockDiscipline
  <2>9. (left' + Len(data')) % BlockSize = total'[0] % BlockSize
    <3>1. held + Len(d) = (left' + Len(data')) + BlockSize * 1
      BY <1>1, <1>2, <2>1, <2>3
    <3>2. left' + Len(data') \in Int
      BY <1>1, <1>2, <2>1, <2>3
    <3>3. ((left' + Len(data')) + BlockSize * 1) % BlockSize = (left' + Len(data')) % BlockSize
      BY <1>1, <3>2, AddMultiple, 1 \in Int, Zenon
    <3> QED
      BY <1>8, <3>1, <3>3
  <2>10. StreamIsKept'
    <3>1. stream' = (chain \o Take(buffer, held)) \o (head \o data')
      BY <1>2, <1>4, <2>3
    <3>2. Take(buffer, held) \in Seq(Byte) /\ head \in Seq(Byte) /\ data' \in Seq(Byte)
      BY <1>2, <2>3
    <3> DEFINE kept == Take(buffer, held)
               rest == data'
    <3> HIDE DEF head, kept, rest
    <3>3. (chain \o kept) \o (head \o rest) = (chain \o (kept \o head)) \o rest
      <4>1. kept \in Seq(Byte) /\ rest \in Seq(Byte) /\ head \in Seq(Byte) /\ chain \in Seq(Byte)
        BY <1>3, <3>2 DEF kept, rest
      <4> HIDE DEF fill
      <4>2. SameJoin(chain, kept, head, rest)
        BY <4>1, Regroup, Zenon
      <4> QED
        BY <4>2, Zenon DEF SameJoin
    <3>4. stream' = chain' \o data'
      BY <2>1, <2>6, <3>1, <3>3 DEF kept, rest
    <3>5. Take(buffer', 0) = <<>>
      BY SubSeqEmpty DEF Take
    <3>6. chain' \o <<>> = chain'
      BY <2>7, ConcatEmptySeq
    <3> QED
      BY <1>4, <2>1, <3>4, <3>5, <3>6 DEF StreamIsKept, Held
  <2> QED
    BY <1>1, <1>4, <1>5, <1>6, <1>7, <2>1, <2>3, <2>5, <2>7, <2>8, <2>9, <2>10 DEF Buffering
<1>10. CASE ~(held # 0 /\ Len(d) >= fill)
  <2>1. data' = d /\ left' = held /\ buffer' = buffer /\ chain' = chain
    BY <1>10 DEF BeginUpdate
  <2> HIDE DEF held
  <2>2. left' > 0 => left' + Len(data') < BlockSize
    BY <1>1, <1>2, <1>10, <2>1
  <2>3. (left' + Len(data')) % BlockSize = total'[0] % BlockSize
    BY <1>8, <2>1
  <2>4. StreamIsKept'
    BY <1>2, <1>4, <2>1 DEF StreamIsKept, Held
  <2>5. Len(chain') % BlockSize = 0
    BY <2>1 DEF IInv, BlockDiscipline
  <2> QED
    BY <1>2, <1>3, <1>4, <1>5, <1>6, <1>7, <2>1, <2>2, <2>3, <2>4, <2>5 DEF Buffering
<1> QED
  BY <1>4, <1>9, <1>10

LEMMA NothingPending ==
  ASSUME NEW s \in Seq(Byte), NEW b
  PROVE  Take(b, 0) = <<>> /\ s \o <<>> = s /\ <<>> \in Seq(Byte) /\ Len(<<>>) = 0
<1>1. Take(b, 0) = <<>>
  BY SubSeqEmpty DEF Take
<1>2. s \o <<>> = s /\ <<>> \in Seq(Byte) /\ Len(<<>>) = 0
  BY ConcatEmptySeq, EmptySeq
<1> QED
  BY <1>1, <1>2

LEMMA ProcessBlockStep ==
  ASSUME IInv, ProcessBlock
  PROVE  Buffering'
<1>1. /\ BlockSize \in Nat \ {0}
      /\ chain \in Seq(Byte) /\ data \in Seq(Byte) /\ left \in 0..(BlockSize - 1)
      /\ Len(data) \in Nat /\ Len(data) >= BlockSize /\ Len(chain) \in Nat
  BY Sizes, LenProperties DEF IInv, TypeOK, ProcessBlock
<1>2. /\ pc = "update" /\ pc' = "update" /\ left' = left /\ total' = total
      /\ buffer' = buffer /\ stream' = stream
      /\ chain' = chain \o Take(data, BlockSize) /\ data' = Drop(data, BlockSize)
  BY DEF ProcessBlock, Process
<1>3. left = 0 /\ Len(data) % BlockSize = total[0] % BlockSize
  <2>1. left = 0
    <3>1. left > 0 => left + Len(data) < BlockSize
      BY <1>2 DEF IInv, BlockDiscipline
    <3> QED
      BY <1>1, <3>1
  <2>2. (left + Len(data)) % BlockSize = total[0] % BlockSize
    BY <1>2 DEF IInv, BlockDiscipline
  <2> QED
    BY <1>1, <2>1, <2>2
<1> DEFINE head == Take(data, BlockSize)
<1>4. /\ head \in Seq(Byte) /\ Len(head) = BlockSize
      /\ data' \in Seq(Byte) /\ Len(data') = Len(data) - BlockSize
      /\ head \o data' = data
  <2>1. BlockSize \in 0..Len(data)
    BY <1>1
  <2> QED
    BY <1>1, <1>2, <2>1, TakeDropType
<1> HIDE DEF head
<1>5. chain' \in Seq(Byte) /\ Len(chain') = Len(chain) + BlockSize
  <2>1. chain' = chain \o head
    BY <1>2 DEF head
  <2>2. chain \o head \in Seq(Byte) /\ Len(chain \o head) = Len(chain) + Len(head)
    BY <1>1, <1>4, ConcatProperties
  <2> QED
    BY <1>4, <2>1, <2>2
<1>6. Len(chain') % BlockSize = 0
  <2>1. (Len(chain) + BlockSize * 1) % BlockSize = Len(chain) % BlockSize
    BY <1>1, AddMultiple, Len(chain) \in Int, 1 \in Int, Zenon
  <2>2. Len(chain) % BlockSize = 0
    BY DEF IInv, BlockDiscipline
  <2>3. BlockSize * 1 = BlockSize
    BY <1>1
  <2> QED
    BY <1>5, <2>1, <2>2, <2>3
<1>7. Len(data') % BlockSize = total[0] % BlockSize
  <2>1. Len(data) = Len(data') + BlockSize * 1 /\ Len(data') \in Int
    BY <1>1, <1>4
  <2>2. (Len(data') + BlockSize * 1) % BlockSize = Len(data') % BlockSize
    BY <1>1, <2>1, AddMultiple, 1 \in Int, Zenon
  <2> QED
    BY <1>3, <2>1, <2>2
<1>8. StreamIsKept'
  <2>1. stream = (chain \o Take(buffer, left)) \o data
    BY <1>2 DEF IInv, StreamIsKept, Held
  <2>2. Take(buffer, 0) = <<>> /\ chain \o <<>> = chain /\ chain' \o <<>> = chain'
    BY <1>1, <1>5, NothingPending
  <2>3. stream = chain \o (head \o data')
    BY <1>3, <1>4, <2>1, <2>2
  <2>4. (chain \o head) \o data' = chain \o (head \o data')
    <3>1. chain \in Seq(Byte) /\ head \in Seq(Byte) /\ data' \in Seq(Byte)
      BY <1>1, <1>4
    <3> QED
      BY <3>1, Associative, SMTT(30)
  <2>5. stream' = (chain' \o Take(buffer', left')) \o data'
    BY <1>2, <1>3, <2>2, <2>3, <2>4 DEF head
  <2> QED
    BY <1>2, <2>5 DEF StreamIsKept, Held
<1>9. CounterIsExact'
  BY <1>2 DEF IInv, CounterIsExact
<1>10. (left' + Len(data')) % BlockSize = total'[0] % BlockSize
  BY <1>1, <1>2, <1>3, <1>4, <1>7
<1> QED
  BY <1>1, <1>2, <1>3, <1>4, <1>5, <1>6, <1>8, <1>9, <1>10 DEF Buffering, IInv, TypeOK

LEMMA StoreTailStep ==
  ASSUME IInv, StoreTail
  PROVE  Buffering'
<1>1. /\ BlockSize \in Nat \ {0}
      /\ chain \in Seq(Byte) /\ data \in Seq(Byte) /\ left \in 0..(BlockSize - 1)
      /\ buffer \in [1..BlockSize -> Byte]
      /\ Len(data) \in Nat /\ Len(data) < BlockSize
  BY Sizes, LenProperties DEF IInv, TypeOK, StoreTail
<1>2. /\ pc = "update" /\ pc' # "update" /\ left' = 0 /\ data' = <<>>
      /\ total' = total /\ chain' = chain /\ stream' = stream
      /\ buffer' = MemCpy(buffer, left, data)
  BY DEF StoreTail
<1> DEFINE held == left + Len(data)
<1>3. held < BlockSize /\ held \in Nat /\ held % BlockSize = total[0] % BlockSize
  <2>1. /\ left > 0 => left + Len(data) < BlockSize
        /\ (left + Len(data)) % BlockSize = total[0] % BlockSize
    BY <1>2 DEF IInv, BlockDiscipline
  <2> QED
    BY <1>1, <2>1
<1>4. /\ buffer' \in [1..BlockSize -> Byte]
      /\ Take(buffer', held) = Take(buffer, left) \o data
  <2>1. left \in Nat /\ left + Len(data) <= BlockSize
    BY <1>1, <1>3
  <2>2. /\ MemCpy(buffer, left, data) \in [1..BlockSize -> Byte]
        /\ Take(MemCpy(buffer, left, data), left + Len(data)) = Take(buffer, left) \o data
    BY <1>1, <2>1, CopyExtends
  <2> QED
    BY <1>2, <2>2
<1>5. total'[0] % BlockSize = held
  <2>1. held \in 0..(BlockSize - 1)
    BY <1>1, <1>3
  <2> HIDE DEF held
  <2>2. held % BlockSize = held
    BY <1>1, <2>1, SmallMod, Zenon
  <2> QED
    BY <1>2, <1>3, <2>2
<1>6. StreamIsKept'
  <2>1. stream = (chain \o Take(buffer, left)) \o data
    BY <1>2 DEF IInv, StreamIsKept, Held
  <2> DEFINE kept == Take(buffer, left)
  <2>2. kept \in Seq(Byte)
    BY <1>1, BufferType, left \in 0..BlockSize
  <2> HIDE DEF held, kept
  <2>3. kept \o data \in Seq(Byte)
    BY <1>1, <2>2, ConcatProperties
  <2>4. (chain \o kept) \o data = chain \o (kept \o data)
    BY <1>1, <2>2, Associative, SMTT(30)
  <2>5. stream = chain \o Take(buffer', held)
    BY <1>4, <2>1, <2>4 DEF kept
  <2>6. stream \o <<>> = stream
    BY NothingPending DEF IInv, TypeOK
  <2>7. stream' = (chain' \o Take(buffer', held)) \o data'
    BY <1>2, <2>5, <2>6
  <2> QED
    BY <1>2, <1>5, <2>7 DEF StreamIsKept, Held
<1>7. CounterIsExact' /\ Len(chain') % BlockSize = 0
  BY <1>2 DEF IInv, CounterIsExact, BlockDiscipline
<1> QED
  BY <1>1, <1>2, <1>4, <1>6, <1>7, NothingPending DEF Buffering, IInv, TypeOK
-----------------------------------------------------------------------------
(* Each step keeps the invariant.                                          *)

\* There is always a padding, and it makes whole blocks.
LEMMA PadLengthType ==
  ASSUME NEW n \in Nat
  PROVE  PadLength(n) \in 1..BlockSize /\ (n + PadLength(n) + LenSize) % BlockSize = 0
<1> DEFINE t == [w \in 0..1 |-> n % WordMod]
<1>1. t[0] = n % WordMod
  OBVIOUS
<1> HIDE DEF t
<1>2. PadN(t) = PadLength(n) /\ PadN(t) \in 1..BlockSize /\ (n + PadN(t) + LenSize) % BlockSize = 0
  BY <1>1, PadNIsPadLength
<1> QED
  BY <1>2

LEMMA ZeroIsFresh ==
  /\ 0 % BlockSize = 0 /\ 0 % WordMod = 0 /\ (0 \div WordMod) % WordMod = 0
  /\ 0 \in 0..(BlockSize - 1) /\ 0 \in 0..(WordMod - 1)
  /\ ZeroBlock \in [1..BlockSize -> Byte]
<1>1. \A n \in Nat \ {0} : 0 % n = 0 /\ 0 \div n = 0
  <2> TAKE n \in Nat \ {0}
  <2>1. 0 \in Int /\ 0 \in 0..(n - 1) /\ 0 = n * 0 + 0
    OBVIOUS
  <2>2. (n * 0 + 0) % n = 0 /\ (n * 0 + 0) \div n = 0
    BY <2>1, DivModUnique, Zenon
  <2> QED
    BY <2>1, <2>2
<1>2. BlockSize \in Nat \ {0} /\ WordMod \in Nat \ {0}
  BY Sizes
<1>3. ZeroBlock \in [1..BlockSize -> Byte]
  BY Sizes DEF ZeroBlock
<1> QED
  BY <1>1, <1>2, <1>3

LEMMA HashInitStep ==
  ASSUME IInv, HashInit
  PROVE  IInv'
<1>1. /\ pc = "idle" /\ pc' = "idle" /\ caller = "user" /\ caller' = "user"
      /\ data = <<>> /\ data' = <<>> /\ left' = left /\ msglen' = msglen
      /\ out' = out /\ message' = message /\ status' = "OK"
      /\ fed' = 0 /\ finals' = 0
      /\ chain' = <<>> /\ stream' = <<>> /\ buffer' = ZeroBlock
      /\ total' = [w \in 0..1 |-> 0]
  BY DEF HashInit, IInv, locals
<1>2. <<>> \in Seq(Byte) /\ Len(<<>>) = 0 /\ <<>> \o <<>> = <<>> /\ Take(ZeroBlock, 0) = <<>>
  <2>1. <<>> \in Seq(Byte)
    BY EmptySeq
  <2> QED
    BY <2>1, NothingPending
<1>3. TypeOK'
  BY <1>1, <1>2, ZeroIsFresh, UserAssumption DEF IInv, TypeOK
<1>4. Held' = 0
  BY <1>1, ZeroIsFresh DEF Held
<1>5. StreamIsKept'
  BY <1>1, <1>2, <1>4 DEF StreamIsKept
<1>6. CounterIsExact'
  BY <1>1, <1>2, ZeroIsFresh DEF CounterIsExact
<1>7. BlockDiscipline'
  BY <1>1, <1>2, <1>4, ZeroIsFresh DEF BlockDiscipline
<1> QED
  BY <1>1, <1>3, <1>5, <1>6, <1>7 DEF IInv, FinalProgress

\* The user's update, one that passes bytes and one that passes none.
LEMMA UpdateStep ==
  ASSUME IInv, NEW n \in ChunkSizes, Update(n)
  PROVE  IInv'
<1>1. /\ pc = "idle" /\ caller = "user" /\ caller' = "user" /\ status' = "OK"
      /\ msglen' = msglen /\ out' = out /\ message' = message /\ finals' = finals
      /\ fed' = fed + n
  BY DEF Update, IInv
<1>2. n \in 0..(WordMod - 1) /\ fed' \in 0..MaxLen /\ fed \in Nat /\ n + fed <= MaxLen
  BY <1>1, Sizes, UserAssumption DEF Update, IInv, TypeOK
<1>3. CASE n = 0
  <2>1. UNCHANGED <<chain, total, buffer, data, left, stream, pc>>
    BY <1>3 DEF Update, ctx
  <2>2. TypeOK'
    BY <1>1, <1>2, <2>1 DEF IInv, TypeOK
  <2>3. Held' = Held
    BY <2>1 DEF Held
  <2>4. StreamIsKept' /\ BlockDiscipline' /\ CounterIsExact'
    BY <1>1, <2>1, <2>3 DEF IInv, StreamIsKept, BlockDiscipline, CounterIsExact
  <2> QED
    BY <1>1, <2>1, <2>2, <2>4 DEF IInv, FinalProgress
<1>4. CASE n # 0
  <2> DEFINE d == [i \in 1..n |-> Message[fed + i]]
  <2>1. BeginUpdate(d)
    BY <1>4 DEF Update
  <2>2. d \in [1..n -> Byte]
    BY <1>2, UserAssumption
  <2> HIDE DEF d
  <2>3. d \in Seq(Byte) /\ Len(d) = n /\ Len(d) <= WordMod
    BY <1>2, <2>2, FunctionIsSeq, Sizes
  <2>4. Buffering' /\ pc' = "update"
    BY <1>1, <2>1, <2>3, BeginUpdateStep
  <2>5. TypeOK'
    BY <1>1, <1>2, <2>4 DEF IInv, TypeOK, Buffering
  <2>6. BlockDiscipline'
    BY <1>1, <2>4 DEF Buffering, BlockDiscipline
  <2> QED
    BY <1>1, <2>4, <2>5, <2>6 DEF IInv, FinalProgress, Buffering
<1> QED
  BY <1>3, <1>4

LEMMA ProcessBlockKeeps ==
  ASSUME IInv, ProcessBlock
  PROVE  IInv'
<1>1. /\ pc = "update"
      /\ UNCHANGED <<caller, pc, msglen, status, out, stream, message, fed, finals>>
  BY DEF ProcessBlock
<1>2. Buffering'
  BY ProcessBlockStep
<1>3. TypeOK'
  BY <1>1, <1>2 DEF IInv, TypeOK, Buffering
<1>4. BlockDiscipline'
  BY <1>1, <1>2 DEF Buffering, BlockDiscipline
<1> QED
  BY <1>1, <1>2, <1>3, <1>4 DEF IInv, FinalProgress, Buffering

\* When the length has been stored nothing is held: the padding made it fit.
LEMMA StoreTailKeeps ==
  ASSUME IInv, StoreTail
  PROVE  IInv'
<1>1. /\ pc = "update" /\ data' = <<>>
      /\ pc' = IF caller = "user" THEN "idle" ELSE "final"
      /\ UNCHANGED <<caller, msglen, status, out, stream, message, fed, finals>>
  BY DEF StoreTail
<1>2. Buffering'
  BY StoreTailStep
<1>3. TypeOK'
  BY <1>1, <1>2 DEF IInv, TypeOK, Buffering
<1>4. ASSUME caller = "msglen"
      PROVE  Held' = 0
  <2> DEFINE n == Len(message)
             pad == Padding(PadLength(n))
  <2>1. /\ stream = (message \o pad) \o msglen /\ Len(msglen) = LenSize
        /\ message \in Seq(Byte) /\ msglen \in Seq(Byte) /\ n \in Nat
    BY <1>4, LenProperties DEF IInv, TypeOK, FinalProgress
  <2>2. PadLength(n) \in 1..BlockSize /\ (n + PadLength(n) + LenSize) % BlockSize = 0
    BY <2>1, PadLengthType
  <2>3. pad \in Seq(Byte) /\ Len(pad) = PadLength(n)
    BY <2>2, PaddingType, Sizes, PadLength(n) \in Nat
  <2>4. Len(stream) = n + PadLength(n) + LenSize
    <3> HIDE DEF pad
    <3>1. message \o pad \in Seq(Byte) /\ Len(message \o pad) = n + PadLength(n)
      BY <2>1, <2>3, ConcatProperties
    <3>2. Len((message \o pad) \o msglen) = Len(message \o pad) + Len(msglen)
      BY <2>1, <3>1, ConcatProperties
    <3> QED
      BY <2>1, <3>1, <3>2
  <2>5. Len(stream) \in Int /\ total'[0] = Len(stream) % WordMod
    BY <1>1, <1>2, LenProperties DEF IInv, TypeOK, Buffering, CounterIsExact
  <2>6. total'[0] % BlockSize = Len(stream) % BlockSize
    BY <2>5, BlockPosition
  <2>7. pc' # "update"
    BY <1>1
  <2> HIDE DEF n
  <2> QED
    BY <2>2, <2>4, <2>6, <2>7 DEF Held
<1>5. BlockDiscipline'
  BY <1>1, <1>2, <1>4 DEF Buffering, BlockDiscipline
<1> QED
  BY <1>1, <1>2, <1>3, <1>5 DEF IInv, TypeOK, FinalProgress, Buffering

LEMMA FinalPaddingKeeps ==
  ASSUME IInv, FinalPadding
  PROVE  IInv'
<1> DEFINE n == Len(stream)
           d == Padding(PadN(total))
<1>1. /\ pc = "idle" /\ finals < MaxFinals /\ finals' = finals + 1 /\ status' = "OK"
      /\ caller' = "padding" /\ message' = stream /\ out' = out /\ fed' = fed
      /\ msglen' \in MsgLens(total) /\ BeginUpdate(d)
  BY DEF FinalPadding
<1>2. /\ stream \in Seq(Byte) /\ n \in Nat
      /\ total \in [0..1 -> 0..(WordMod - 1)]
      /\ total[0] = n % WordMod /\ total[1] = (n \div WordMod) % WordMod
  BY LenProperties DEF IInv, TypeOK, CounterIsExact
<1> HIDE DEF n
<1>3. PadN(total) = PadLength(n) /\ PadN(total) \in 1..BlockSize
  BY <1>2, PadNIsPadLength
<1>4. d \in Seq(Byte) /\ Len(d) <= WordMod
  <2>1. BlockSize \in Nat /\ WordMod \in Nat /\ BlockSize <= WordMod
    BY Sizes
  <2>2. PadN(total) \in Nat /\ PadN(total) <= WordMod
    BY <1>3, <2>1
  <2> QED
    BY <2>2, PaddingType
<1>5. Buffering' /\ pc' = "update" /\ stream' = stream \o d
  <2> HIDE DEF d
  <2> QED
    BY <1>1, <1>4, BeginUpdateStep
<1>6. msglen' \in Seq(Byte) /\ Len(msglen') = LenSize /\ (Countable(n) => msglen' = LengthField(n))
  BY <1>1, <1>2, MsgLensType
<1>7. TypeOK'
  BY <1>1, <1>2, <1>5, <1>6, UserAssumption DEF IInv, TypeOK, Buffering
<1>8. BlockDiscipline'
  BY <1>1, <1>5 DEF Buffering, BlockDiscipline
<1>9. FinalProgress'
  BY <1>1, <1>3, <1>5, <1>6 DEF FinalProgress, n
<1> QED
  BY <1>1, <1>5, <1>7, <1>8, <1>9 DEF IInv, Buffering

LEMMA FinalLengthKeeps ==
  ASSUME IInv, FinalLength
  PROVE  IInv'
<1>1. /\ pc = "final" /\ caller = "padding" /\ caller' = "msglen" /\ BeginUpdate(msglen)
      /\ UNCHANGED <<msglen, status, out, message, fed, finals>>
  BY DEF FinalLength
<1>2. /\ msglen \in Seq(Byte) /\ Len(msglen) = LenSize
      /\ stream = message \o Padding(PadLength(Len(message)))
      /\ Countable(Len(message)) => msglen = LengthField(Len(message))
  BY <1>1 DEF IInv, TypeOK, FinalProgress
<1>3. Len(msglen) <= WordMod
  <2>1. /\ BlockSize \in Nat /\ WordMod \in Nat /\ LenSize \in Nat
        /\ LenSize < BlockSize /\ BlockSize <= WordMod
    BY Sizes
  <2> QED
    BY <1>2, <2>1
<1>4. Buffering' /\ pc' = "update" /\ stream' = stream \o msglen
  BY <1>1, <1>2, <1>3, BeginUpdateStep
<1>5. TypeOK'
  BY <1>1, <1>4 DEF IInv, TypeOK, Buffering
<1>6. BlockDiscipline'
  BY <1>1, <1>4 DEF Buffering, BlockDiscipline
<1>7. FinalProgress'
  BY <1>1, <1>2, <1>4 DEF FinalProgress
<1> QED
  BY <1>1, <1>4, <1>5, <1>6, <1>7 DEF IInv, Buffering

LEMMA FinalOutputKeeps ==
  ASSUME IInv, FinalOutput
  PROVE  IInv'
<1>1. /\ pc = "final" /\ pc' = "idle" /\ caller' = "user" /\ out' = chain /\ msglen' = <<>>
      /\ UNCHANGED <<chain, total, buffer, data, left, status, stream, message, fed, finals>>
  BY DEF FinalOutput, ctx
<1>2. TypeOK'
  BY <1>1, EmptySeq DEF IInv, TypeOK
<1>3. Held' = Held
  BY <1>1 DEF Held
<1>4. StreamIsKept' /\ CounterIsExact' /\ BlockDiscipline'
  BY <1>1, <1>3 DEF IInv, StreamIsKept, CounterIsExact, BlockDiscipline
<1> QED
  BY <1>1, <1>2, <1>4 DEF IInv, FinalProgress

LEMMA StutterKeeps ==
  ASSUME IInv, UNCHANGED <<ctx, locals, caller, pc, out, stream, message, fed, finals>>,
         status' \in {"OK", "NULL_PTR"}
  PROVE  IInv'
<1>1. UNCHANGED <<chain, total, buffer, data, left, msglen, caller, pc, out, stream, message,
                  fed, finals>>
  BY DEF ctx, locals
<1>2. TypeOK'
  BY <1>1 DEF IInv, TypeOK
<1>3. Held' = Held
  BY <1>1 DEF Held
<1>4. StreamIsKept' /\ CounterIsExact' /\ BlockDiscipline'
  BY <1>1, <1>3 DEF IInv, StreamIsKept, CounterIsExact, BlockDiscipline
<1> QED
  BY <1>1, <1>2, <1>4 DEF IInv, FinalProgress

LEMMA InitIsSafe == Init => IInv
<1> SUFFICES ASSUME Init
             PROVE  IInv
  OBVIOUS
<1>1. <<>> \in Seq(Byte) /\ Len(<<>>) = 0 /\ <<>> \o <<>> = <<>> /\ Take(ZeroBlock, 0) = <<>>
  <2>1. <<>> \in Seq(Byte)
    BY EmptySeq
  <2> QED
    BY <2>1, NothingPending
<1>2. TypeOK
  BY <1>1, ZeroIsFresh, UserAssumption DEF Init, TypeOK
<1>3. Held = 0
  BY ZeroIsFresh DEF Init, Held
<1>4. StreamIsKept
  BY <1>1, <1>3 DEF Init, StreamIsKept
<1>5. CounterIsExact
  BY <1>1, ZeroIsFresh DEF Init, CounterIsExact
<1>6. BlockDiscipline
  BY <1>1, <1>3, ZeroIsFresh DEF Init, BlockDiscipline
<1> QED
  BY <1>2, <1>4, <1>5, <1>6 DEF IInv, FinalProgress, Init

LEMMA NextIsSafe == IInv /\ [Next]_vars => IInv'
<1> SUFFICES ASSUME IInv, [Next]_vars
             PROVE  IInv'
  OBVIOUS
<1>1. CASE HashInit
  BY <1>1, HashInitStep
<1>2. CASE \E n \in ChunkSizes : Update(n)
  BY <1>2, UpdateStep
<1>3. CASE RejectNull
  BY <1>3, StutterKeeps DEF RejectNull
<1>4. CASE ProcessBlock
  BY <1>4, ProcessBlockKeeps
<1>5. CASE StoreTail
  BY <1>5, StoreTailKeeps
<1>6. CASE FinalPadding
  BY <1>6, FinalPaddingKeeps
<1>7. CASE FinalLength
  BY <1>7, FinalLengthKeeps
<1>8. CASE FinalOutput
  BY <1>8, FinalOutputKeeps
<1>9. CASE UNCHANGED vars
  BY <1>9, StutterKeeps DEF vars, IInv, TypeOK
<1> QED
  BY <1>1, <1>2, <1>3, <1>4, <1>5, <1>6, <1>7, <1>8, <1>9 DEF Next

LEMMA Invariance == Spec => []IInv
<1> QED
  BY InitIsSafe, NextIsSafe, PTL DEF Spec
-----------------------------------------------------------------------------
(* The results.                                                            *)

\* Every state of the streaming hash is well typed: in particular no copy of
\* update leaves the context's buffer and its local left stays below a block.
THEOREM TypeCorrect == Spec => []TypeOK
<1>1. IInv => TypeOK
  BY DEF IInv
<1> QED
  BY <1>1, Invariance, PTL

\* For every block and word size and however the message is cut, no byte of
\* the stream is lost, repeated or moved by update's buffering.
THEOREM StreamKept == Spec => []StreamIsKept
<1>1. IInv => StreamIsKept
  BY DEF IInv
<1> QED
  BY <1>1, Invariance, PTL

\* Only whole blocks are compressed, and final leaves nothing in the buffer.
THEOREM BlocksAreWhole == Spec => []BlockDiscipline
<1>1. IInv => BlockDiscipline
  BY DEF IInv
<1> QED
  BY <1>1, Invariance, PTL

\* The two words of the counter, with update's carry, count the bytes of the
\* stream modulo the square of a word, for updates of every size.
THEOREM CounterExact == Spec => []CounterIsExact
<1>1. IInv => CounterIsExact
  BY DEF IInv
<1> QED
  BY <1>1, Invariance, PTL

\* SHA-1 and SHA-256: the length final appends is the bit count of the
\* message it was called on (sha256.c:350-358), for every message length.
THEOREM LengthEncoded ==
  ASSUME ~Wide
  PROVE  Spec => []LengthIsEncoded
<1>1. IInv => LengthIsEncoded
  BY DEF IInv, FinalProgress, LengthIsEncoded, Countable
<1> QED
  BY <1>1, Invariance, PTL

LEMMA FinalCompressesAll ==
  ASSUME IInv, pc = "final", caller = "msglen"
  PROVE  chain = stream
<1>1. Held = 0 /\ data = <<>> /\ chain \in Seq(Byte)
  BY DEF IInv, BlockDiscipline, TypeOK
<1>2. stream = (chain \o Take(buffer, 0)) \o <<>>
  BY <1>1 DEF IInv, StreamIsKept
<1>3. Take(buffer, 0) = <<>> /\ chain \o <<>> = chain
  BY <1>1, NothingPending
<1> QED
  BY <1>2, <1>3

LEMMA StreamIsPadded ==
  ASSUME IInv, caller = "msglen", Countable(Len(message))
  PROVE  stream = Padded(message)
BY DEF IInv, FinalProgress, Padded

\* SHA-1 and SHA-256: what final has compressed when it writes the digest is
\* the message, its padding and its length, exactly as the standard pads it.
THEOREM DigestComplete ==
  ASSUME ~Wide
  PROVE  Spec => []DigestIsComplete
<1>1. IInv => DigestIsComplete
  BY FinalCompressesAll, StreamIsPadded DEF DigestIsComplete, Countable
<1> QED
  BY <1>1, Invariance, PTL
\* SHA-512 as well, whatever its shifts give: as long as the bits of the message
\* are counted in one word, its length and its digest are the standard's.
THEOREM ShortDigestComplete == Spec => []ShortDigestIsComplete
<1>1. IInv => ShortDigestIsComplete
  BY FinalCompressesAll, StreamIsPadded
  DEF IInv, FinalProgress, ShortDigestIsComplete, LengthIsEncoded, DigestIsComplete
<1> QED
  BY <1>1, Invariance, PTL
-----------------------------------------------------------------------------
(* The streaming hash implements the abstract one.                         *)

\* No message of a behaviour outgrows what SHA-512 counts: those of the user,
\* and those of a final after a final, which have the paddings in them.
AllCountable == Wide => 8 * (MaxLen + MaxFinals * (2 * BlockSize)) < WordMod

\* A final lengthens the stream by two blocks at most.
Growth == Len(Absorbed) <= fed + (IF caller = "user" THEN finals ELSE finals - 1) * (2 * BlockSize)

Begun == caller # "user" => finals >= 1

LEMMA FinalGrows ==
  ASSUME IInv, caller # "user"
  PROVE  Len(message) \in Nat /\ Len(stream) <= Len(message) + 2 * BlockSize
<1> DEFINE n == Len(message)
           pad == Padding(PadLength(n))
<1>1. /\ message \in Seq(Byte) /\ msglen \in Seq(Byte) /\ n \in Nat
      /\ Len(msglen) = LenSize /\ caller \in {"padding", "msglen"}
  BY LenProperties DEF IInv, TypeOK, FinalProgress
<1>2. pad \in Seq(Byte) /\ Len(pad) = PadLength(n) /\ PadLength(n) \in 1..BlockSize
  BY <1>1, PadLengthType, PaddingType, Sizes, PadLength(n) \in Nat
<1>3. \/ stream = message \o pad
      \/ stream = (message \o pad) \o msglen
  BY <1>1 DEF IInv, FinalProgress
<1> HIDE DEF pad
<1>4. message \o pad \in Seq(Byte) /\ Len(message \o pad) = n + PadLength(n)
  BY <1>1, <1>2, ConcatProperties
<1>5. Len((message \o pad) \o msglen) = Len(message \o pad) + Len(msglen)
  BY <1>1, <1>4, ConcatProperties
<1> HIDE DEF n
<1> QED
  BY SMTT(30), <1>1, <1>2, <1>3, <1>4, <1>5, Sizes DEF n

LEMMA GrowthKept == IInv /\ IInv' /\ Growth /\ Begun /\ [Next]_vars => Growth' /\ Begun'
<1> SUFFICES ASSUME IInv, IInv', Growth, Begun, [Next]_vars
             PROVE  Growth' /\ Begun'
  OBVIOUS
<1> DEFINE size == 2 * BlockSize
<1>1. /\ size \in Nat /\ fed \in Nat /\ finals \in Nat
      /\ stream \in Seq(Byte) /\ Len(stream) \in Nat
  BY Sizes, LenProperties, UserAssumption DEF IInv, TypeOK
<1>2. CASE HashInit
  <2>1. Absorbed' = <<>> /\ fed' = 0 /\ finals' = 0 /\ caller' = "user"
    BY <1>2 DEF HashInit, IInv, Absorbed
  <2>2. Len(<<>>) = 0 /\ 0 * size = 0
    BY <1>1
  <2> QED
    BY <2>1, <2>2 DEF Growth, Begun
<1>3. CASE \E n \in ChunkSizes : Update(n)
  <2>1. PICK n \in ChunkSizes : Update(n)
    BY <1>3
  <2>2. /\ caller = "user" /\ caller' = "user" /\ fed' = fed + n /\ finals' = finals
        /\ n \in Nat /\ n + fed <= MaxLen /\ n < WordMod
    BY <1>1, <2>1, Sizes, UserAssumption DEF Update, IInv
  <2>3. CASE n = 0
    <3>1. stream' = stream
      BY <2>1, <2>3 DEF Update
    <3> QED
      BY <1>1, <2>2, <2>3, <3>1 DEF Growth, Begun, Absorbed
  <2>4. CASE n # 0
    <3> DEFINE d == [i \in 1..n |-> Message[fed + i]]
    <3>1. stream' = stream \o d
      BY <2>1, <2>4 DEF Update, BeginUpdate
    <3>2. d \in [1..n -> Byte]
      BY <1>1, <2>2, UserAssumption
    <3> HIDE DEF d
    <3>3. d \in Seq(Byte) /\ Len(d) = n
      BY <2>2, <3>2, FunctionIsSeq
    <3>4. Len(stream') = Len(stream) + n
      BY <1>1, <3>1, <3>3, ConcatProperties
    <3>5. PICK g \in Int : g = finals * size
      BY <1>1
    <3> HIDE DEF size
    <3> QED
      BY <1>1, <2>2, <3>4, <3>5 DEF Growth, Begun, Absorbed, size
  <2> QED
    BY <2>3, <2>4
<1>4. CASE RejectNull \/ UNCHANGED vars
  BY <1>4 DEF RejectNull, vars, Growth, Begun, Absorbed
<1>5. CASE ProcessBlock \/ StoreTail
  BY <1>5 DEF ProcessBlock, StoreTail, Growth, Begun, Absorbed
<1>6. CASE FinalPadding
  <2>1. /\ caller = "user" /\ caller' # "user" /\ message' = stream
        /\ fed' = fed /\ finals' = finals + 1 /\ (finals + 1) - 1 = finals
    BY <1>1, <1>6 DEF FinalPadding, IInv
  <2> QED
    BY <1>1, <2>1 DEF Growth, Begun, Absorbed
<1>7. CASE FinalLength
  BY <1>7 DEF FinalLength, Growth, Begun, Absorbed
<1>8. CASE FinalOutput
  <2>1. /\ caller # "user" /\ caller' = "user" /\ stream' = stream
        /\ fed' = fed /\ finals' = finals
    BY <1>8 DEF FinalOutput
  <2>2. Len(message) \in Nat /\ Len(stream) <= Len(message) + size
    BY <2>1, FinalGrows
  <2>3. finals >= 1 /\ Len(message) <= fed + (finals - 1) * size
    BY <2>1 DEF Growth, Begun, Absorbed
  <2> HIDE DEF size
  <2>4. PICK g \in Int : g = (finals - 1) * size /\ finals * size = g + size
    BY <1>1
  <2> QED
    BY SMTT(30), <1>1, <2>1, <2>2, <2>3, <2>4 DEF Growth, Begun, Absorbed, size
<1> QED
  BY <1>2, <1>3, <1>4, <1>5, <1>6, <1>7, <1>8 DEF Next

LEMMA GrowthInit == Init => Growth /\ Begun
<1> SUFFICES ASSUME Init PROVE Growth /\ Begun
  OBVIOUS
<1>1. Absorbed = <<>> /\ fed = 0 /\ finals = 0 /\ caller = "user"
  BY DEF Init, Absorbed
<1>2. Len(<<>>) = 0 /\ 0 * (2 * BlockSize) = 0
  BY Sizes
<1> QED
  BY <1>1, <1>2 DEF Growth, Begun

LEMMA MessageCountable ==
  ASSUME AllCountable, IInv, Growth, Begun, caller # "user"
  PROVE  Countable(Len(message))
<1> DEFINE size == 2 * BlockSize
<1>1. /\ size \in Nat /\ finals \in 1..MaxFinals /\ MaxFinals \in Nat
      /\ fed \in 0..MaxLen /\ MaxLen \in Nat /\ WordMod \in Nat
      /\ Len(message) \in Nat /\ Len(message) <= fed + (finals - 1) * size
  BY Sizes, FinalGrows, UserAssumption DEF IInv, TypeOK, Growth, Begun, Absorbed
<1>2. Wide => 8 * (MaxLen + MaxFinals * size) < WordMod
  BY DEF AllCountable
<1> HIDE DEF size
<1>3. (finals - 1) * size <= MaxFinals * size
  <2>1. PICK k \in Nat : MaxFinals = (finals - 1) + k
    BY <1>1, MaxFinals - (finals - 1) \in Nat
  <2>2. MaxFinals * size = (finals - 1) * size + k * size /\ k * size \in Nat
    BY <1>1, <2>1
  <2> QED
    BY <1>1, <2>2
<1>4. PICK a \in Int, b \in Int : a = (finals - 1) * size /\ b = MaxFinals * size
  BY <1>1
<1> QED
  BY <1>1, <1>2, <1>3, <1>4 DEF Countable

LEMMA UpdateAbsorbs ==
  ASSUME IInv, NEW n \in ChunkSizes, Update(n)
  PROVE  Hash!Absorb \/ UNCHANGED Hash!vars
<1>1. /\ pc = "idle" /\ caller = "user" /\ caller' = "user" /\ out' = out
      /\ fed + n <= MaxLen /\ fed \in Nat /\ n \in Nat
      /\ stream \in Seq(Byte)
  BY Sizes, UserAssumption DEF Update, IInv, TypeOK
<1>2. CASE n = 0
  <2>1. stream' = stream
    BY <1>2 DEF Update
  <2> QED
    BY <1>1, <2>1 DEF Hash!vars, Absorbed
<1>3. CASE n # 0
  <2> DEFINE d == [i \in 1..n |-> Message[fed + i]]
  <2>1. stream' = stream \o d
    BY <1>3 DEF Update, BeginUpdate
  <2>2. d \in [1..n -> Byte]
    BY <1>1, UserAssumption
  <2> HIDE DEF d
  <2>3. d \in Seq(Byte)
    BY <1>1, <2>2, FunctionIsSeq
  <2>4. /\ stream \o d \in Seq(Byte)
        /\ Len(stream \o d) = Len(stream) + Len(d)
        /\ \A i \in 1..Len(stream) : (stream \o d)[i] = stream[i]
    <3>1. Len(stream) \in Nat /\ Len(d) \in Nat
      BY <1>1, <2>3, LenProperties
    <3> QED
      BY <1>1, <2>3, <3>1, ConcatProperties
  <2>5. Len(stream \o d) >= Len(stream)
    BY <1>1, <2>3, <2>4, LenProperties
  <2> QED
    BY <1>1, <2>1, <2>4, <2>5 DEF Hash!Absorb, Absorbed, Hash!Byte, Byte
<1> QED
  BY <1>2, <1>3

LEMMA StepRefines ==
  ASSUME AllCountable, IInv, IInv', Growth, Begun, [Next]_vars
  PROVE  [Hash!Next]_(Hash!vars)
<1>1. CASE HashInit
  <2>1. Absorbed' = <<>> /\ out' = out
    BY <1>1 DEF HashInit, IInv, Absorbed
  <2> QED
    BY <2>1 DEF Hash!Next, Hash!Restart
<1>2. CASE \E n \in ChunkSizes : Update(n)
  BY <1>2, UpdateAbsorbs DEF Hash!Next
<1>3. CASE RejectNull \/ UNCHANGED vars
  BY <1>3 DEF RejectNull, vars, Hash!vars, Absorbed
<1>4. CASE ProcessBlock \/ StoreTail
  BY <1>4 DEF ProcessBlock, StoreTail, Hash!vars, Absorbed
<1>5. CASE FinalPadding
  BY <1>5 DEF FinalPadding, IInv, Hash!vars, Absorbed
<1>6. CASE FinalLength
  BY <1>6 DEF FinalLength, Hash!vars, Absorbed
<1>7. CASE FinalOutput
  <2>1. /\ pc = "final" /\ caller = "msglen" /\ caller' = "user"
        /\ out' = chain /\ stream' = stream
    BY <1>7 DEF FinalOutput
  <2>2. chain = stream /\ stream = Padded(message)
    BY <2>1, FinalCompressesAll, StreamIsPadded, MessageCountable
  <2>3. Absorbed = message /\ Absorbed' = Padded(message) /\ out' = Padded(message)
    BY <2>1, <2>2 DEF Absorbed
  <2>4. Padded(message) = Hash!Padded(message)
    BY DEF Padded, Hash!Padded, Padding, Hash!Padding, PadLength, Hash!PadLength,
           LengthField, Hash!LengthField, PutUint32BE, Hash!PutUint32BE,
           LowWord, Hash!LowWord, HighWord, Hash!HighWord, PadByte, Hash!PadByte,
           LenSize, Hash!LenSize, WordsPerHalf, Hash!WordsPerHalf
  <2> QED
    BY <2>3, <2>4 DEF Hash!Next, Hash!Digest
<1> QED
  BY <1>1, <1>2, <1>3, <1>4, <1>5, <1>6, <1>7 DEF Next

\* The hashes implement the one-shot hash of the whole message: however the
\* caller cuts it, final's digest is the compression of its padding.  SHA-512
\* does for messages that fit its counting of bits.
THEOREM Refinement ==
  ASSUME AllCountable
  PROVE  Spec => ImplementsHash
<1>1. Init => Hash!Init
  BY DEF Init, Hash!Init, Absorbed
<1>2. IInv /\ IInv' /\ Growth /\ Begun /\ [Next]_vars => [Hash!Next]_(Hash!vars)
  BY StepRefines
<1>3. Spec => [](Growth /\ Begun)
  BY GrowthInit, GrowthKept, Invariance, PTL DEF Spec
<1> QED
  BY <1>1, <1>2, <1>3, Invariance, PTL DEF Spec, ImplementsHash, Hash!Spec
-----------------------------------------------------------------------------
(***************************************************************************)
(* No call of update or final runs forever: it takes final on, or leaves   *)
(* less of its argument, at every step (sha256.c:311-316).                 *)
(***************************************************************************)
LEMMA Advances ==
  ASSUME TypeOK, Next, pc # "idle", pc' # "idle"
  PROVE  Stage' < Stage \/ (Stage' = Stage /\ Len(data') < Len(data))
<1>1. CASE ProcessBlock
  <2>1. BlockSize \in Nat \ {0} /\ data \in Seq(Byte) /\ Len(data) >= BlockSize
    BY <1>1, Sizes DEF ProcessBlock, TypeOK
  <2>2. BlockSize \in 0..Len(data)
    BY <2>1, LenProperties
  <2>3. Len(data') = Len(data) - BlockSize /\ Len(data) \in Nat
    BY <1>1, <2>1, <2>2, TakeDropType, LenProperties DEF ProcessBlock
  <2>4. Stage' = Stage
    BY <1>1 DEF ProcessBlock, Stage
  <2>. QED
    BY <2>1, <2>3, <2>4
<1>2. CASE StoreTail
  <2>1. caller # "user" /\ caller' = caller /\ pc = "update" /\ pc' = "final"
    BY <1>2 DEF StoreTail
  <2>. QED
    BY <2>1 DEF Stage
<1>3. CASE FinalLength
  <2>1. caller = "padding" /\ caller' = "msglen" /\ pc = "final" /\ pc' = "update"
    BY <1>3 DEF FinalLength, BeginUpdate
  <2>. QED
    BY <2>1 DEF Stage
<1>. QED
  BY <1>1, <1>2, <1>3 DEF Next, HashInit, Update, RejectNull, FinalPadding, FinalOutput

THEOREM CallsDoAdvance == Spec => CallsAdvance
<1>1. TypeOK /\ [Next]_vars =>
        [pc # "idle" /\ pc' # "idle" =>
           Stage' < Stage \/ (Stage' = Stage /\ Len(data') < Len(data))]_vars
  BY Advances
<1>. QED
  BY <1>1, TypeCorrect, PTL DEF Spec, CallsAdvance
=============================================================================
