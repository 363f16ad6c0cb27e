---------------------------- MODULE KbkdfProofs -----------------------------
(***************************************************************************)
(* Proofs about Kbkdf: for every size of a byte and of a block, every      *)
(* fixed input and every promised request, in all three modes and with     *)
(* callbacks failing anywhere, what is in key_out is the beginning of the  *)
(* key of SP 800-108.                                                      *)
(***************************************************************************)
EXTENDS Kbkdf, SequenceTheorems, Arithmetic

-----------------------------------------------------------------------------
(***************************************************************************)
(* Sizes, requests and sequences.                                          *)
(***************************************************************************)
LEMMA Sizes ==
  /\ ByteBits \in Nat \ {0} /\ ByteBits >= 2 /\ HmacSize \in Nat \ {0}
  /\ Fixed \in Seq(Byte) /\ ByteMod \in Nat \ {0}
BY KbkdfAssumption, PowerPositive, 2 \in Nat \ {0} DEF ByteMod

LEMMA RequestTypes ==
  ASSUME NEW r \in Requests
  PROVE  /\ r.mode \in Modes /\ r.bits \in Nat /\ r.fixed \in 0..Len(Fixed)
         /\ r.iv \in 0..1 /\ r.rlen \in Nat /\ r.rpos \in Int
BY KbkdfAssumption DEF Request, RLEN

LEMMA ByteIsNat == \A x \in Byte : x \in Nat
BY Sizes DEF Byte

LEMMA FunctionIsSeq ==
  ASSUME NEW S, NEW n \in Nat, NEW f \in [1..n -> S]
  PROVE  f \in Seq(S) /\ Len(f) = n
<1>1. f \in Seq(S)
  BY SeqDef
<1> QED
  BY <1>1, LenProperties

\* A sequence cut in two.
LEMMA Cut ==
  ASSUME NEW S, NEW x \in Seq(S), NEW n \in 0..Len(x)
  PROVE  /\ Take(x, n) \in Seq(S) /\ Len(Take(x, n)) = n
         /\ \A m \in 1..n : Take(x, n)[m] = x[m]
         /\ After(x, n) \in Seq(S) /\ Len(After(x, n)) = Len(x) - n
         /\ \A m \in 1..(Len(x) - n) : After(x, n)[m] = x[n + m]
<1>1. Len(x) \in Nat /\ \A m \in 1..Len(x) : x[m] \in S
  BY LenProperties, ElementOfSeq
<1>2. /\ Take(x, n) \in Seq(S) /\ Len(Take(x, n)) = n
      /\ \A m \in 1..n : Take(x, n)[m] = x[m]
  <2>1. \A m \in 1..n : x[m] \in S
    BY <1>1
  <2>2. 1 \in Int /\ n \in Int
    BY <1>1
  <2>3. /\ SubSeq(x, 1, n) \in Seq(S)
        /\ Len(SubSeq(x, 1, n)) = IF 1 <= n THEN n - 1 + 1 ELSE 0
        /\ \A m \in 1..(n - 1 + 1) : SubSeq(x, 1, n)[m] = x[1 + m - 1]
    BY <2>1, <2>2, SubSeqProperties
  <2> QED
    BY <1>1, <2>3 DEF Take
<1>3. /\ After(x, n) \in Seq(S) /\ Len(After(x, n)) = Len(x) - n
      /\ \A m \in 1..(Len(x) - n) : After(x, n)[m] = x[n + m]
  <2>1. \A m \in (n + 1)..Len(x) : x[m] \in S
    BY <1>1
  <2>2. n + 1 \in Int /\ Len(x) \in Int
    BY <1>1
  <2>3. /\ SubSeq(x, n + 1, Len(x)) \in Seq(S)
        /\ Len(SubSeq(x, n + 1, Len(x))) = IF n + 1 <= Len(x) THEN Len(x) - (n + 1) + 1 ELSE 0
        /\ \A m \in 1..(Len(x) - (n + 1) + 1) :
             SubSeq(x, n + 1, Len(x))[m] = x[(n + 1) + m - 1]
    BY <2>1, <2>2, SubSeqProperties
  <2> QED
    BY <1>1, <2>3 DEF After
<1> QED
  BY <1>2, <1>3

LEMMA CutAtEnds ==
  ASSUME NEW S, NEW x \in Seq(S)
  PROVE  /\ Take(x, 0) = << >> /\ After(x, 0) = x
         /\ Take(x, Len(x)) = x /\ After(x, Len(x)) = << >>
<1>1. Len(x) \in Nat
  BY LenProperties
<1>2. SubSeq(x, 1, Len(x)) = x /\ SubSeq(x, 0 + 1, Len(x)) = x
  BY SubSeqFull
<1>3. SubSeq(x, 1, 0) = << >> /\ SubSeq(x, Len(x) + 1, Len(x)) = << >>
  BY <1>1, SubSeqEmpty
<1> QED
  BY <1>2, <1>3 DEF Take, After

LEMMA CutRejoins ==
  ASSUME NEW S, NEW x \in Seq(S), NEW n \in 0..Len(x)
  PROVE  Take(x, n) \o After(x, n) = x
<1>1. Len(x) \in Nat
  BY LenProperties
<1>2. 1 \in 1..(Len(x) + 1) /\ n \in (1 - 1)..Len(x) /\ Len(x) \in n..Len(x)
  BY <1>1
<1>3. SubSeq(x, 1, n) \o SubSeq(x, n + 1, Len(x)) = SubSeq(x, 1, Len(x))
  BY <1>2, ConcatAdjacentSubSeq, Zenon
<1> QED
  BY <1>3, SubSeqFull DEF Take, After

-----------------------------------------------------------------------------
(***************************************************************************)
(* The bits of bytes: bit e of byte q + 1 of bytes, counted from the most  *)
(* significant one, is in place ByteBits * q + e + 1.                      *)
(***************************************************************************)
BitItems == {<<"bit", 0>>, <<"bit", 1>>}

BitOf(byte, e) == <<"bit", Digit(2, byte, (ByteBits - 1) - e)>>

LEMMA PlaceOfBit ==
  ASSUME NEW len \in Nat, NEW q \in 0..(len - 1), NEW e \in 0..(ByteBits - 1)
  PROVE  /\ (ByteBits * q + e) + 1 \in 1..(ByteBits * len)
         /\ (ByteBits * q + e) \div ByteBits = q
         /\ (ByteBits * q + e) % ByteBits = e
<1>1. ByteBits \in Nat \ {0} /\ q \in Int /\ len \in Int /\ q < len
  BY Sizes
<1>2. ByteBits * q + ByteBits <= ByteBits * len
  BY <1>1, MultiplesApart
<1>3. ByteBits * q \in Nat /\ ByteBits * len \in Nat
  BY <1>1
<1>4. (ByteBits * q + e) \div ByteBits = q /\ (ByteBits * q + e) % ByteBits = e
  BY <1>1, DivModUnique
<1> QED
  BY <1>1, <1>2, <1>3, <1>4

LEMMA PlacesOfBits ==
  ASSUME NEW len \in Nat, NEW n \in 1..(ByteBits * len)
  PROVE  \E q \in 0..(len - 1), e \in 0..(ByteBits - 1) : n = (ByteBits * q + e) + 1
<1> DEFINE q == (n - 1) \div ByteBits
           e == (n - 1) % ByteBits
<1>1. ByteBits \in Nat \ {0} /\ n - 1 \in Int /\ n - 1 >= 0 /\ n <= ByteBits * len
      /\ ByteBits * len \in Nat
  BY Sizes
<1>2. q \in Int /\ e \in 0..(ByteBits - 1) /\ n - 1 = ByteBits * q + e
  BY <1>1, DivMod
<1> HIDE DEF q, e
<1>3. q >= 0
  <2>1. q < 0 => ByteBits * q + ByteBits <= ByteBits * 0
    BY <1>1, <1>2, MultiplesApart
  <2>2. ByteBits * q \in Int
    BY <1>1, <1>2
  <2> QED
    BY <1>1, <1>2, <2>1, <2>2
<1>4. q < len
  <2>1. len < q => ByteBits * len + ByteBits <= ByteBits * q
    BY <1>1, <1>2, MultiplesApart
  <2>2. ByteBits * q \in Int
    BY <1>1, <1>2
  <2>3. len = q => ByteBits * len = ByteBits * q
    OBVIOUS
  <2> QED
    BY <1>1, <1>2, <2>1, <2>2, <2>3
<1>5. q \in 0..(len - 1) /\ n = (ByteBits * q + e) + 1
  BY <1>1, <1>2, <1>3, <1>4, ByteBits * q \in Int
<1> QED
  BY <1>2, <1>5

LEMMA BitType == \A byte \in Nat, e \in 0..(ByteBits - 1) : BitOf(byte, e) \in BitItems
<1> SUFFICES ASSUME NEW byte \in Nat, NEW e \in 0..(ByteBits - 1)
             PROVE  BitOf(byte, e) \in BitItems
  OBVIOUS
<1>1. (ByteBits - 1) - e \in Nat /\ 2 \in Nat \ {0}
  BY Sizes
<1>2. Digit(2, byte, (ByteBits - 1) - e) \in 0..(2 - 1)
  BY <1>1, DigitType
<1> QED
  BY <1>2 DEF BitOf, BitItems

LEMMA BitsOf ==
  ASSUME NEW bytes \in Seq(Byte)
  PROVE  /\ Bits(bytes) \in Seq(BitItems) /\ Len(Bits(bytes)) = ByteBits * Len(bytes)
         /\ \A q \in 0..(Len(bytes) - 1), e \in 0..(ByteBits - 1) :
              Bits(bytes)[(ByteBits * q + e) + 1] = BitOf(bytes[q + 1], e)
<1>1. Len(bytes) \in Nat /\ \A m \in 1..Len(bytes) : bytes[m] \in Nat
  BY LenProperties, ElementOfSeq, ByteIsNat
<1>2. ByteBits * Len(bytes) \in Nat
  BY <1>1, Sizes
<1>3. ASSUME NEW q \in 0..(Len(bytes) - 1), NEW e \in 0..(ByteBits - 1)
      PROVE  Bits(bytes)[(ByteBits * q + e) + 1] = BitOf(bytes[q + 1], e)
  <2>1. /\ (ByteBits * q + e) + 1 \in 1..(ByteBits * Len(bytes))
        /\ (ByteBits * q + e) \div ByteBits = q /\ (ByteBits * q + e) % ByteBits = e
    BY <1>1, PlaceOfBit
  <2>2. ((ByteBits * q + e) + 1) - 1 = ByteBits * q + e
    BY <1>1, Sizes, ByteBits * q \in Int
  <2> QED
    BY <2>1, <2>2, Zenon DEF Bits, BitOf
<1>4. Bits(bytes) \in [1..(ByteBits * Len(bytes)) -> BitItems]
  <2>1. Bits(bytes) = [n \in 1..(ByteBits * Len(bytes)) |-> Bits(bytes)[n]]
    BY DEF Bits
  <2>2. ASSUME NEW n \in 1..(ByteBits * Len(bytes)) PROVE Bits(bytes)[n] \in BitItems
    <3>1. PICK q \in 0..(Len(bytes) - 1), e \in 0..(ByteBits - 1) : n = (ByteBits * q + e) + 1
      BY <1>1, PlacesOfBits
    <3>2. bytes[q + 1] \in Nat
      BY <1>1
    <3> QED
      BY <1>3, <3>1, <3>2, BitType
  <2> QED
    BY <2>1, <2>2
<1> QED
  BY <1>2, <1>3, <1>4, FunctionIsSeq

\* Bits are equal when they are those of each place.
LEMMA SameBits ==
  ASSUME NEW x \in Seq(BitItems), NEW y \in Seq(BitItems), NEW len \in Nat,
         Len(x) = ByteBits * len, Len(y) = ByteBits * len,
         \A q \in 0..(len - 1), e \in 0..(ByteBits - 1) :
           x[(ByteBits * q + e) + 1] = y[(ByteBits * q + e) + 1]
  PROVE  x = y
<1>1. \A n \in 1..Len(x) : x[n] = y[n]
  BY PlacesOfBits
<1> QED
  BY <1>1, SeqEqual

LEMMA BitsOfJoin ==
  ASSUME NEW x \in Seq(Byte), NEW y \in Seq(Byte)
  PROVE  Bits(x \o y) = Bits(x) \o Bits(y)
<1> DEFINE l == Len(x)
           m == Len(y)
<1>1. l \in Nat /\ m \in Nat
  BY LenProperties
<1>2. /\ x \o y \in Seq(Byte) /\ Len(x \o y) = l + m
      /\ \A n \in 1..(l + m) : (x \o y)[n] = IF n <= l THEN x[n] ELSE y[n - l]
  BY ConcatProperties
<1> HIDE DEF l, m
<1>3. /\ Bits(x) \in Seq(BitItems) /\ Len(Bits(x)) = ByteBits * l
      /\ Bits(y) \in Seq(BitItems) /\ Len(Bits(y)) = ByteBits * m
      /\ Bits(x \o y) \in Seq(BitItems) /\ Len(Bits(x \o y)) = ByteBits * (l + m)
  BY <1>2, BitsOf DEF l, m
<1>4. ByteBits * (l + m) = ByteBits * l + ByteBits * m
      /\ ByteBits * l \in Nat /\ ByteBits * m \in Nat /\ l + m \in Nat
  BY <1>1, Sizes
<1>5. /\ Bits(x) \o Bits(y) \in Seq(BitItems)
      /\ Len(Bits(x) \o Bits(y)) = ByteBits * (l + m)
      /\ \A n \in 1..(ByteBits * l + ByteBits * m) :
           (Bits(x) \o Bits(y))[n] = IF n <= ByteBits * l THEN Bits(x)[n] ELSE Bits(y)[n - ByteBits * l]
  <2>1. /\ Bits(x) \o Bits(y) \in Seq(BitItems)
        /\ Len(Bits(x) \o Bits(y)) = Len(Bits(x)) + Len(Bits(y))
        /\ \A n \in 1..(Len(Bits(x)) + Len(Bits(y))) :
             (Bits(x) \o Bits(y))[n] = IF n <= Len(Bits(x)) THEN Bits(x)[n] ELSE Bits(y)[n - Len(Bits(x))]
    BY <1>3, ConcatProperties, Zenon
  <2> QED
    BY <1>3, <1>4, <2>1, Zenon
<1>6. ASSUME NEW q \in 0..((l + m) - 1), NEW e \in 0..(ByteBits - 1)
      PROVE  Bits(x \o y)[(ByteBits * q + e) + 1] = (Bits(x) \o Bits(y))[(ByteBits * q + e) + 1]
  <2> DEFINE n == (ByteBits * q + e) + 1
  <2>1. n \in 1..(ByteBits * l + ByteBits * m)
    BY <1>4, PlaceOfBit
  <2>2. Bits(x \o y)[n] = BitOf((x \o y)[q + 1], e)
    BY <1>2, BitsOf
  <2>3. (x \o y)[q + 1] = IF q < l THEN x[q + 1] ELSE y[(q - l) + 1]
    <3>1. q + 1 \in 1..(l + m) /\ (q + 1) - l = (q - l) + 1
      BY <1>1
    <3>2. q + 1 <= l <=> q < l
      BY <1>1
    <3> QED
      BY <1>2, <3>1, <3>2
  <2>4. CASE q < l
    <3>1. q \in 0..(l - 1)
      BY <1>1, <2>4
    <3>2. n \in 1..(ByteBits * l) /\ Bits(x)[n] = BitOf(x[q + 1], e)
      <4>1. n \in 1..(ByteBits * l)
        BY <1>1, <3>1, PlaceOfBit
      <4>2. Bits(x)[n] = BitOf(x[q + 1], e)
        BY <3>1, BitsOf DEF l
      <4> QED
        BY <4>1, <4>2
    <3>3. n <= ByteBits * l
      BY <1>4, <3>2
    <3> HIDE DEF n
    <3>4. (Bits(x) \o Bits(y))[n] = Bits(x)[n]
      BY <1>5, <2>1, <3>3
    <3>5. Bits(x \o y)[n] = (Bits(x) \o Bits(y))[n]
      BY <2>2, <2>3, <2>4, <3>2, <3>4
    <3> QED
      BY <3>5 DEF n
  <2>5. CASE ~(q < l)
    <3>1. q - l \in 0..(m - 1) /\ ByteBits * q = ByteBits * l + ByteBits * (q - l)
      <4>1. PICK d \in 0..(m - 1) : d = q - l /\ q = l + d
        BY <1>1, <2>5
      <4>2. ByteBits * (l + d) = ByteBits * l + ByteBits * d
        BY <1>1, Sizes
      <4> QED
        BY <4>1, <4>2
    <3>2. (ByteBits * (q - l) + e) + 1 \in 1..(ByteBits * m)
          /\ Bits(y)[(ByteBits * (q - l) + e) + 1] = BitOf(y[(q - l) + 1], e)
      <4>1. (ByteBits * (q - l) + e) + 1 \in 1..(ByteBits * m)
        BY <1>1, <3>1, PlaceOfBit
      <4>2. Bits(y)[(ByteBits * (q - l) + e) + 1] = BitOf(y[(q - l) + 1], e)
        BY <3>1, BitsOf DEF m
      <4> QED
        BY <4>1, <4>2
    <3>3. n - ByteBits * l = (ByteBits * (q - l) + e) + 1 /\ ~(n <= ByteBits * l)
      <4>1. ByteBits * (q - l) \in Nat
        BY <1>1, <2>5, Sizes
      <4> QED
        BY SMTT(30), <1>4, <3>1, <4>1
    <3> HIDE DEF n
    <3>4. (Bits(x) \o Bits(y))[n] = Bits(y)[n - ByteBits * l]
      BY <1>5, <2>1, <3>3
    <3>5. Bits(x \o y)[n] = (Bits(x) \o Bits(y))[n]
      BY <2>2, <2>3, <2>5, <3>2, <3>3, <3>4
    <3> QED
      BY <3>5 DEF n
  <2> QED
    BY <2>4, <2>5
<1> QED
  BY <1>3, <1>4, <1>5, <1>6, SameBits

LEMMA CutOfJoin ==
  ASSUME NEW S, NEW x \in Seq(S), NEW y \in Seq(S)
  PROVE  Take(x \o y, Len(x)) = x /\ After(x \o y, Len(x)) = y
<1> DEFINE xy == x \o y
           l == Len(x)
           m == Len(y)
<1>1. l \in Nat /\ m \in Nat
  BY LenProperties
<1>2. /\ xy \in Seq(S) /\ Len(xy) = l + m
      /\ \A n \in 1..(l + m) : xy[n] = IF n <= l THEN x[n] ELSE y[n - l]
  BY ConcatProperties
<1> HIDE DEF xy, l, m
<1>3. l \in 0..Len(xy)
  BY <1>1, <1>2
<1>4. /\ Take(xy, l) \in Seq(S) /\ Len(Take(xy, l)) = l
      /\ \A n \in 1..l : Take(xy, l)[n] = xy[n]
      /\ After(xy, l) \in Seq(S) /\ Len(After(xy, l)) = Len(xy) - l
      /\ \A n \in 1..(Len(xy) - l) : After(xy, l)[n] = xy[l + n]
  BY <1>2, <1>3, Cut
<1>5. Take(xy, l) = x
  <2>1. \A n \in 1..l : Take(xy, l)[n] = x[n]
    BY <1>1, <1>2, <1>4
  <2> QED
    BY <1>4, <2>1, SeqEqual DEF l
<1>6. After(xy, l) = y
  <2>1. Len(After(xy, l)) = m
    BY <1>1, <1>2, <1>4
  <2>2. \A n \in 1..m : After(xy, l)[n] = y[n]
    <3> TAKE n \in 1..m
    <3>1. l + n \in 1..(l + m) /\ ~(l + n <= l) /\ (l + n) - l = n /\ n \in 1..(Len(xy) - l)
      BY <1>1, <1>2
    <3> QED
      BY <1>2, <1>4, <3>1
  <2> QED
    BY <1>4, <2>1, <2>2, SeqEqual DEF m
<1> QED
  BY <1>5, <1>6 DEF xy, l

\* Bits cut between bytes.
LEMMA BitsCut ==
  ASSUME NEW x \in Seq(Byte), NEW n \in 0..Len(x)
  PROVE  /\ Take(Bits(x), ByteBits * n) = Bits(Take(x, n))
         /\ After(Bits(x), ByteBits * n) = Bits(After(x, n))
<1>1. Take(x, n) \in Seq(Byte) /\ Len(Take(x, n)) = n /\ After(x, n) \in Seq(Byte)
  BY Cut
<1>2. Bits(x) = Bits(Take(x, n)) \o Bits(After(x, n))
  BY <1>1, CutRejoins, BitsOfJoin
<1>3. /\ Bits(Take(x, n)) \in Seq(BitItems) /\ Len(Bits(Take(x, n))) = ByteBits * n
      /\ Bits(After(x, n)) \in Seq(BitItems)
  BY <1>1, BitsOf
<1>4. /\ Take(Bits(Take(x, n)) \o Bits(After(x, n)), Len(Bits(Take(x, n)))) = Bits(Take(x, n))
      /\ After(Bits(Take(x, n)) \o Bits(After(x, n)), Len(Bits(Take(x, n)))) = Bits(After(x, n))
  BY <1>3, CutOfJoin
<1> QED
  BY <1>2, <1>3, <1>4

LEMMA BitsOfNone == Bits(<< >>) = << >>
<1>1. << >> \in Seq(Byte) /\ Len(<< >>) = 0
  BY EmptySeq
<1>2. Bits(<< >>) \in Seq(BitItems) /\ Len(Bits(<< >>)) = ByteBits * 0
  BY <1>1, BitsOf
<1>3. ByteBits * 0 = 0
  BY Sizes
<1> QED
  BY <1>2, <1>3, EmptySeq

-----------------------------------------------------------------------------
(***************************************************************************)
(* A counter that splits a byte: its bits go between those of the byte.    *)
(* Each byte of the splice has m bits of the byte before and the rest of   *)
(* the next one.                                                           *)
(***************************************************************************)
Upper(ctr, byte, m, n) ==
  IF n = 1 THEN byte \div Power(2, ByteBits - m) ELSE ctr[n - 1] % Power(2, m)

Lower(ctr, byte, m, n) ==
  IF n = Len(ctr) + 1 THEN byte % Power(2, ByteBits - m) ELSE ctr[n] \div Power(2, m)

LEMMA Halves ==
  ASSUME NEW m \in 1..(ByteBits - 1)
  PROVE  /\ Power(2, m) \in Nat \ {0} /\ Power(2, ByteBits - m) \in Nat \ {0}
         /\ ByteMod = Power(2, ByteBits - m) * Power(2, m)
         /\ ByteMod = Power(2, m) * Power(2, ByteBits - m)
<1>1. 2 \in Nat \ {0} /\ m \in Nat /\ ByteBits - m \in Nat /\ ByteBits = (ByteBits - m) + m
  BY Sizes
<1>2. Power(2, m) \in Nat \ {0} /\ Power(2, ByteBits - m) \in Nat \ {0}
  BY <1>1, PowerPositive
<1>3. Power(2, (ByteBits - m) + m) = Power(2, ByteBits - m) * Power(2, m)
  BY <1>1, PowerOfSum
<1> QED
  BY <1>1, <1>2, <1>3 DEF ByteMod

LEMMA BelowFactor ==
  ASSUME NEW p \in Nat \ {0}, NEW w \in Nat \ {0}, NEW x \in 0..(w * p - 1)
  PROVE  x \div w \in 0..(p - 1) /\ x % w \in 0..(w - 1)
<1>1. w \in Nat \ {0} /\ x \in Int /\ x >= 0 /\ x < w * p /\ w * p \in Nat
  OBVIOUS
<1>2. x \div w \in Int /\ x % w \in 0..(w - 1) /\ x = w * (x \div w) + (x % w)
  BY <1>1, DivMod
<1> DEFINE q == x \div w
<1> HIDE DEF q
<1>3. q \in Int /\ w * q \in Int /\ x >= w * q /\ x < w * q + w
  BY <1>1, <1>2 DEF q
<1>4. q < 0 => w * q + w <= w * 0
  BY <1>1, <1>3, MultiplesApart
<1>5. p < q => w * p + w <= w * q
  BY <1>1, <1>3, MultiplesApart
<1>6. q = p => w * q = w * p
  OBVIOUS
<1>7. q >= 0 /\ q < p
  BY <1>1, <1>3, <1>4, <1>5, <1>6
<1> QED
  BY <1>2, <1>3, <1>7 DEF q

LEMMA ShiftedOut ==
  ASSUME NEW p \in Nat \ {0}, NEW w \in Nat \ {0}, NEW x \in Nat
  PROVE  (x * w) % (w * p) = w * (x % p)
<1>1. x * w = w * x + 0 /\ x \in Int /\ 0 \in 0..(w - 1) /\ x * w \in Nat
  OBVIOUS
<1>2. (w * x + 0) \div w = x /\ (w * x + 0) % w = 0
  BY <1>1, DivModUnique, Zenon
<1>3. (x * w) % (w * p) = w * (((x * w) \div w) % p) + ((x * w) % w)
  BY <1>1, DivModProduct, Zenon
<1>4. x % p \in Int
  BY DivMod, x \in Int
<1> QED
  BY <1>1, <1>2, <1>3, <1>4

LEMMA SpliceBytes ==
  ASSUME NEW ctr \in Seq(Byte), NEW byte \in Byte, NEW m \in 1..(ByteBits - 1)
  PROVE  /\ Splice(ctr, byte, m) \in Seq(Byte) /\ Len(Splice(ctr, byte, m)) = Len(ctr) + 1
         /\ \A n \in 1..(Len(ctr) + 1) :
              /\ Splice(ctr, byte, m)[n]
                   = Power(2, ByteBits - m) * Upper(ctr, byte, m, n) + Lower(ctr, byte, m, n)
              /\ Upper(ctr, byte, m, n) \in 0..(Power(2, m) - 1)
              /\ Lower(ctr, byte, m, n) \in 0..(Power(2, ByteBits - m) - 1)
<1> DEFINE len == Len(ctr)
           array == Append(ctr, 0)
           shifted == ShiftArrayRight(array, m, BIT_MASK_LEFT(byte, m))
           Joined(n) == Power(2, ByteBits - m) * Upper(ctr, byte, m, n) + Lower(ctr, byte, m, n)
<1>1. PICK p \in Nat \ {0} : p = Power(2, m)
  BY Halves
<1>2. PICK w \in Nat \ {0} : w = Power(2, ByteBits - m)
  BY Halves
<1>3. ByteMod = w * p /\ ByteMod = p * w /\ byte \in 0..(w * p - 1)
  BY <1>1, <1>2, Halves DEF Byte
<1>4. len \in Nat /\ \A n \in 1..len : ctr[n] \in 0..(p * w - 1) /\ ctr[n] \in Nat
  BY <1>3, LenProperties, ElementOfSeq, ByteIsNat DEF Byte
<1>5. /\ Len(array) = len + 1 /\ array[len + 1] = 0
      /\ \A n \in 1..len : array[n] = ctr[n]
  BY <1>4
<1>6. \A n \in 1..(len + 1) :
        /\ Upper(ctr, byte, m, n) \in 0..(p - 1)
        /\ Lower(ctr, byte, m, n) \in 0..(w - 1)
  <2> TAKE n \in 1..(len + 1)
  <2>1. byte \div w \in 0..(p - 1) /\ byte % w \in 0..(w - 1)
    BY <1>3, BelowFactor
  <2>2. n # 1 => ctr[n - 1] % p \in 0..(p - 1)
    <3>1. n # 1 => n - 1 \in 1..len
      BY <1>4
    <3>2. n # 1 => ctr[n - 1] \in 0..(p * w - 1)
      BY <1>4, <3>1
    <3> QED
      BY <3>2, BelowFactor
  <2>3. n # len + 1 => ctr[n] \div p \in 0..(w - 1)
    <3>1. n # len + 1 => n \in 1..len
      BY <1>4
    <3>2. n # len + 1 => ctr[n] \in 0..(p * w - 1)
      BY <1>4, <3>1
    <3> QED
      BY <3>2, BelowFactor
  <2> QED
    BY <1>1, <1>2, <2>1, <2>2, <2>3 DEF Upper, Lower
<1>7. /\ shifted = [n \in 1..(len + 1) |-> shifted[n]]
      /\ \A n \in 1..(len + 1) :
           shifted[n] = (array[n] \div p)
                          + (IF n = 1 THEN BIT_MASK_LEFT(byte, m) ELSE (array[n - 1] * w) % ByteMod)
  BY <1>1, <1>2, <1>5 DEF ShiftArrayRight
<1>8. ASSUME NEW n \in 1..(len + 1)
      PROVE  shifted[n] = w * Upper(ctr, byte, m, n)
                            + (IF n = len + 1 THEN 0 ELSE Lower(ctr, byte, m, n))
  <2>1. (IF n = 1 THEN BIT_MASK_LEFT(byte, m) ELSE (array[n - 1] * w) % ByteMod)
          = w * Upper(ctr, byte, m, n)
    <3>1. CASE n = 1
      <4>1. byte \div w \in 0..(p - 1)
        BY <1>3, BelowFactor
      <4>2. (byte \div w) * w = w * (byte \div w)
        BY <4>1
      <4> QED
        BY <1>2, <3>1, <4>2 DEF BIT_MASK_LEFT, Upper
    <3>2. CASE n # 1
      <4>1. n - 1 \in 1..len
        BY <1>4, <3>2
      <4>2. array[n - 1] = ctr[n - 1] /\ ctr[n - 1] \in Nat
        BY <1>4, <1>5, <4>1
      <4>3. (ctr[n - 1] * w) % (w * p) = w * (ctr[n - 1] % p)
        BY <4>2, ShiftedOut
      <4> QED
        BY <1>1, <1>3, <3>2, <4>2, <4>3 DEF Upper
    <3> QED
      BY <3>1, <3>2
  <2>2. array[n] \div p = IF n = len + 1 THEN 0 ELSE Lower(ctr, byte, m, n)
    <3>1. CASE n = len + 1
      <4>1. 0 \div p = 0
        BY SmallMod, 0 \in 0..(p - 1)
      <4> QED
        BY <1>5, <3>1, <4>1
    <3>2. CASE n # len + 1
      <4>1. n \in 1..len
        BY <1>4, <3>2
      <4> QED
        BY <1>1, <1>5, <3>2, <4>1 DEF Lower
    <3> QED
      BY <3>1, <3>2
  <2>3. Upper(ctr, byte, m, n) \in 0..(p - 1) /\ Lower(ctr, byte, m, n) \in 0..(w - 1)
    BY <1>6
  <2>4. w * Upper(ctr, byte, m, n) \in Int
    BY <2>3
  <2> HIDE DEF array, shifted
  <2>5. shifted[n] = (IF n = len + 1 THEN 0 ELSE Lower(ctr, byte, m, n)) + w * Upper(ctr, byte, m, n)
    BY <1>7, <2>1, <2>2
  <2> QED
    BY <2>3, <2>4, <2>5
<1> HIDE DEF array, shifted
<1>9. Len(shifted) = len + 1
  BY <1>4, <1>7
<1>10. Splice(ctr, byte, m) = [n \in 1..(len + 1) |-> Joined(n)]
  <2>1. Splice(ctr, byte, m) = [shifted EXCEPT ![len + 1] = @ + BIT_MASK_RIGHT(byte, ByteBits - m)]
    BY <1>9 DEF Splice, shifted, array
  <2>2. len + 1 \in 1..(len + 1)
    BY <1>4
  <2>3. BIT_MASK_RIGHT(byte, ByteBits - m) = Lower(ctr, byte, m, len + 1)
    BY DEF BIT_MASK_RIGHT, Lower
  <2>4. \A n \in 1..(len + 1) :
          Joined(n) = IF n = len + 1 THEN shifted[n] + BIT_MASK_RIGHT(byte, ByteBits - m) ELSE shifted[n]
    <3> TAKE n \in 1..(len + 1)
    <3>1. w * Upper(ctr, byte, m, n) \in Int
      BY <1>6
    <3>2. w * Upper(ctr, byte, m, n) + 0 = w * Upper(ctr, byte, m, n)
      BY <3>1
    <3> QED
      BY <1>2, <1>8, <2>3, <3>2
  <2> HIDE DEF Joined, len
  <2> QED
    BY <1>7, <2>1, <2>2, <2>4
<1>11. \A n \in 1..(len + 1) : Joined(n) \in Byte
  <2> TAKE n \in 1..(len + 1)
  <2>1. w * Upper(ctr, byte, m, n) + Lower(ctr, byte, m, n) \in 0..(w * p - 1)
    BY <1>6, BelowProduct
  <2> QED
    BY <1>2, <1>3, <2>1 DEF Byte
<1> HIDE DEF Joined, len
<1>12. /\ Splice(ctr, byte, m) \in Seq(Byte) /\ Len(Splice(ctr, byte, m)) = len + 1
       /\ \A n \in 1..(len + 1) : Splice(ctr, byte, m)[n] = Joined(n)
  <2>1. Splice(ctr, byte, m) \in [1..(len + 1) -> Byte] /\ len + 1 \in Nat
    BY <1>4, <1>10, <1>11
  <2> QED
    BY <1>10, <2>1, FunctionIsSeq
<1> QED
  BY <1>1, <1>2, <1>6, <1>12 DEF Joined, len

\* Bit e of byte q + 1 of the splice.
LEMMA SpliceBit ==
  ASSUME NEW ctr \in Seq(Byte), NEW byte \in Byte, NEW m \in 1..(ByteBits - 1),
         NEW q \in 0..Len(ctr), NEW e \in 0..(ByteBits - 1)
  PROVE  BitOf(Splice(ctr, byte, m)[q + 1], e) =
           IF e < m
           THEN IF q = 0 THEN BitOf(byte, e) ELSE BitOf(ctr[q], (ByteBits - m) + e)
           ELSE IF q = Len(ctr) THEN BitOf(byte, e) ELSE BitOf(ctr[q + 1], e - m)
<1> DEFINE len == Len(ctr)
           c == ByteBits - m
           d == (ByteBits - 1) - e
           up == Upper(ctr, byte, m, q + 1)
           low == Lower(ctr, byte, m, q + 1)
<1>1. /\ c \in Nat /\ d \in Nat /\ m \in Nat /\ len \in Nat /\ 2 \in Nat \ {0}
      /\ q + 1 \in 1..(len + 1) /\ (q + 1) - 1 = q /\ (q + 1 = 1 <=> q = 0)
      /\ (q + 1 = len + 1 <=> q = len)
  BY Sizes, LenProperties
<1>2. /\ Splice(ctr, byte, m)[q + 1] = Power(2, c) * up + low
      /\ up \in Nat /\ low \in 0..(Power(2, c) - 1)
  <2>1. /\ Splice(ctr, byte, m)[q + 1] = Power(2, c) * up + low
        /\ up \in 0..(Power(2, m) - 1) /\ low \in 0..(Power(2, c) - 1)
    BY <1>1, SpliceBytes
  <2> HIDE DEF up
  <2> QED
    BY <2>1
<1>3. byte \in Nat /\ \A k \in 1..len : ctr[k] \in Nat
  BY ElementOfSeq, ByteIsNat
<1>4. /\ (e < m => d >= c /\ d - c = (m - 1) - e /\ d - c \in Nat /\ d - c < m /\ (d - c) + c = d)
      /\ (e >= m => d < c /\ d + m \in Nat)
      /\ (ByteBits - 1) - ((ByteBits - m) + e) = (m - 1) - e
      /\ (ByteBits - 1) - (e - m) = d + m
  BY Sizes
<1> HIDE DEF c, d, up, low
<1>5. CASE e < m
  <2>1. BitOf(Splice(ctr, byte, m)[q + 1], e) = <<"bit", Digit(2, up, d - c)>>
    <3>1. Digit(2, Power(2, c) * up + low, d) = Digit(2, up, d - c)
      BY SMTT(30), <1>1, <1>2, <1>4, <1>5, DigitsJoined
    <3> QED
      BY <1>2, <3>1 DEF BitOf, d
  <2>2. CASE q = 0
    <3>1. up = byte \div Power(2, c)
      BY <1>1, <2>2 DEF up, Upper, c
    <3>2. Digit(2, byte \div Power(2, c), d - c) = Digit(2, byte, (d - c) + c)
      BY SMTT(30), <1>1, <1>3, <1>4, <1>5, DigitsSplit
    <3> QED
      BY <1>4, <1>5, <2>1, <2>2, <3>1, <3>2 DEF BitOf, d
  <2>3. CASE q # 0
    <3>1. up = ctr[q] % Power(2, m)
      BY <1>1, <2>3 DEF up, Upper
    <3>2. PICK v \in Nat : v = ctr[q]
      BY <1>1, <1>3, <2>3
    <3>3. \A f \in Nat : f < m => Digit(2, v % Power(2, m), f) = Digit(2, v, f)
      BY <1>1, DigitsSplit
    <3>4. Digit(2, v % Power(2, m), d - c) = Digit(2, v, d - c)
      BY <1>4, <1>5, <3>3
    <3> QED
      BY <1>4, <1>5, <2>1, <2>3, <3>1, <3>2, <3>4 DEF BitOf
  <2> QED
    BY <2>2, <2>3
<1>6. CASE ~(e < m)
  <2>0. e >= m
    BY <1>6
  <2>1. BitOf(Splice(ctr, byte, m)[q + 1], e) = <<"bit", Digit(2, low, d)>>
    <3>1. Digit(2, Power(2, c) * up + low, d) = Digit(2, low, d)
      BY SMTT(30), <1>1, <1>2, <1>4, <2>0, DigitsJoined
    <3> QED
      BY <1>2, <3>1 DEF BitOf, d
  <2>2. CASE q = len
    <3>1. low = byte % Power(2, c)
      BY <1>1, <2>2 DEF low, Lower, c
    <3>2. Digit(2, byte % Power(2, c), d) = Digit(2, byte, d)
      BY <1>1, <1>3, <1>4, <2>0, DigitsSplit
    <3> QED
      BY <1>6, <2>1, <2>2, <3>1, <3>2 DEF BitOf, d
  <2>3. CASE q # len
    <3>1. low = ctr[q + 1] \div Power(2, m)
      BY <1>1, <2>3 DEF low, Lower
    <3>2. PICK v \in Nat : v = ctr[q + 1]
      BY <1>1, <1>3, <2>3
    <3>3. \A f \in Nat : Digit(2, v \div Power(2, m), f) = Digit(2, v, f + m)
      BY <1>1, DigitsSplit
    <3>4. Digit(2, v \div Power(2, m), d) = Digit(2, v, d + m)
      BY <1>1, <3>3
    <3> QED
      BY <1>4, <1>6, <2>1, <2>3, <3>1, <3>2, <3>4 DEF BitOf
  <2> QED
    BY <2>2, <2>3
<1> QED
  BY <1>5, <1>6

LEMMA JoinedThree ==
  ASSUME NEW S, NEW x \in Seq(S), NEW y \in Seq(S), NEW z \in Seq(S),
         NEW l, l = Len(x), NEW k, k = Len(y), NEW j, j = Len(z)
  PROVE  /\ (x \o y) \o z \in Seq(S) /\ Len((x \o y) \o z) = (l + k) + j
         /\ \A n \in 1..l : ((x \o y) \o z)[n] = x[n]
         /\ \A n \in (l + 1)..(l + k) : ((x \o y) \o z)[n] = y[n - l]
         /\ \A n \in ((l + k) + 1)..((l + k) + j) : ((x \o y) \o z)[n] = z[n - (l + k)]
<1>1. l \in Nat /\ k \in Nat /\ j \in Nat
  BY LenProperties
<1>2. PICK xy \in Seq(S) : xy = x \o y
  BY ConcatProperties
<1>3. Len(xy) = l + k /\ \A n \in 1..(l + k) : xy[n] = IF n <= l THEN x[n] ELSE y[n - l]
  BY <1>2, ConcatProperties
<1>4. PICK xyz \in Seq(S) : xyz = xy \o z
  BY ConcatProperties
<1>5. Len(xyz) = Len(xy) + j /\ \A n \in 1..(Len(xy) + j) : xyz[n] = IF n <= Len(xy) THEN xy[n] ELSE z[n - Len(xy)]
  BY <1>4, ConcatProperties
<1>6. \A n \in 1..l : xyz[n] = x[n]
  BY <1>1, <1>3, <1>5
<1>7. \A n \in (l + 1)..(l + k) : xyz[n] = y[n - l]
  BY <1>1, <1>3, <1>5
<1>8. \A n \in ((l + k) + 1)..((l + k) + j) : xyz[n] = z[n - (l + k)]
  BY <1>1, <1>3, <1>5
<1> QED
  BY <1>2, <1>3, <1>4, <1>5, <1>6, <1>7, <1>8

LEMMA SpliceBits ==
  ASSUME NEW ctr \in Seq(Byte), NEW byte \in Byte, NEW m \in 1..(ByteBits - 1)
  PROVE  Bits(Splice(ctr, byte, m)) =
           (Take(Bits(<<byte>>), m) \o Bits(ctr)) \o After(Bits(<<byte>>), m)
<1> DEFINE len == Len(ctr)
           split == Bits(<<byte>>)
           before == Take(split, m)
           after == After(split, m)
           spliced == Splice(ctr, byte, m)
           joined == (before \o Bits(ctr)) \o after
<1>1. len \in Nat /\ m \in Nat /\ ByteBits - m \in Nat /\ 1 \in Nat
      /\ ByteBits \in Nat /\ ByteBits >= 2 /\ ByteBits * 1 = ByteBits /\ ByteBits * 0 = 0
      /\ ByteBits * len \in Nat /\ len + 1 \in Nat /\ ByteBits * (len + 1) = ByteBits * len + ByteBits
  BY Sizes, LenProperties
<1>2. /\ split \in Seq(BitItems) /\ Len(split) = ByteBits
      /\ \A e \in 0..(ByteBits - 1) : split[e + 1] = BitOf(byte, e)
  <2>1. <<byte>> \in Seq(Byte) /\ Len(<<byte>>) = 1 /\ <<byte>>[1] = byte
    OBVIOUS
  <2>2. /\ split \in Seq(BitItems) /\ Len(split) = ByteBits * 1
        /\ \A q \in 0..(1 - 1), e \in 0..(ByteBits - 1) :
              split[(ByteBits * q + e) + 1] = BitOf(<<byte>>[q + 1], e)
    BY <2>1, BitsOf
  <2>3. ASSUME NEW e \in 0..(ByteBits - 1) PROVE split[e + 1] = BitOf(byte, e)
    <3>1. 0 \in 0..(1 - 1) /\ ByteBits * 0 + e = e /\ 0 + 1 = 1
      BY <1>1
    <3> QED
      BY <2>1, <2>2, <3>1
  <2> HIDE DEF split
  <2> QED
    BY <1>1, <2>2, <2>3
<1> HIDE DEF split
<1>3. /\ before \in Seq(BitItems) /\ Len(before) = m /\ \A n \in 1..m : before[n] = split[n]
      /\ after \in Seq(BitItems) /\ Len(after) = ByteBits - m
      /\ \A n \in 1..(ByteBits - m) : after[n] = split[m + n]
  <2>1. m \in 0..Len(split)
    BY <1>1, <1>2
  <2> QED
    BY <1>2, <2>1, Cut
<1>4. /\ Bits(ctr) \in Seq(BitItems) /\ Len(Bits(ctr)) = ByteBits * len
      /\ \A q \in 0..(len - 1), e \in 0..(ByteBits - 1) :
           Bits(ctr)[(ByteBits * q + e) + 1] = BitOf(ctr[q + 1], e)
  BY BitsOf
<1> HIDE DEF before, after, len
<1>5. /\ joined \in Seq(BitItems) /\ Len(joined) = (m + ByteBits * len) + (ByteBits - m)
      /\ \A n \in 1..m : joined[n] = before[n]
      /\ \A n \in (m + 1)..(m + ByteBits * len) : joined[n] = Bits(ctr)[n - m]
      /\ \A n \in ((m + ByteBits * len) + 1)..((m + ByteBits * len) + (ByteBits - m)) :
           joined[n] = after[n - (m + ByteBits * len)]
  <2>1. PICK x \in Seq(BitItems) : x = before
    BY <1>3
  <2>2. PICK y \in Seq(BitItems) : y = Bits(ctr)
    BY <1>4
  <2>3. PICK z \in Seq(BitItems) : z = after
    BY <1>3
  <2>4. m = Len(x) /\ ByteBits * len = Len(y) /\ ByteBits - m = Len(z) /\ joined = (x \o y) \o z
    BY <1>3, <1>4, <2>1, <2>2, <2>3
  <2>5. joined \in Seq(BitItems) /\ Len(joined) = (Len(x) + Len(y)) + Len(z)
    BY <2>4, JoinedThree
  <2>6. \A n \in 1..Len(x) : joined[n] = x[n]
    BY <2>4, JoinedThree
  <2>7. \A n \in (Len(x) + 1)..(Len(x) + Len(y)) : joined[n] = y[n - Len(x)]
    BY <2>4, JoinedThree
  <2>8. \A n \in ((Len(x) + Len(y)) + 1)..((Len(x) + Len(y)) + Len(z)) : joined[n] = z[n - (Len(x) + Len(y))]
    BY <2>4, JoinedThree
  <2> HIDE DEF joined
  <2>9. joined \in Seq(BitItems) /\ Len(joined) = (m + ByteBits * len) + (ByteBits - m)
    BY <2>4, <2>5
  <2>10. \A n \in 1..m : joined[n] = before[n]
    BY <2>1, <2>4, <2>6
  <2>11. \A n \in (m + 1)..(m + ByteBits * len) : joined[n] = Bits(ctr)[n - m]
    BY <2>2, <2>4, <2>7
  <2>12. \A n \in ((m + ByteBits * len) + 1)..((m + ByteBits * len) + (ByteBits - m)) :
           joined[n] = after[n - (m + ByteBits * len)]
    BY <2>3, <2>4, <2>8
  <2> QED
    BY <2>9, <2>10, <2>11, <2>12
<1>6. spliced \in Seq(Byte) /\ Len(spliced) = len + 1
  BY SpliceBytes DEF len
<1> HIDE DEF spliced, joined
<1>7. /\ Bits(spliced) \in Seq(BitItems) /\ Len(Bits(spliced)) = ByteBits * (len + 1)
      /\ \A q \in 0..((len + 1) - 1), e \in 0..(ByteBits - 1) :
           Bits(spliced)[(ByteBits * q + e) + 1] = BitOf(spliced[q + 1], e)
  BY <1>6, BitsOf
<1>8. Len(joined) = ByteBits * (len + 1)
  BY <1>1, <1>5
<1>9. ASSUME NEW q \in 0..((len + 1) - 1), NEW e \in 0..(ByteBits - 1)
      PROVE  Bits(spliced)[(ByteBits * q + e) + 1] = joined[(ByteBits * q + e) + 1]
  <2>0. q \in 0..len /\ ByteBits * q \in Nat
    BY <1>1
  <2>1. BitOf(spliced[q + 1], e) =
           IF e < m
           THEN IF q = 0 THEN BitOf(byte, e) ELSE BitOf(ctr[q], (ByteBits - m) + e)
           ELSE IF q = len THEN BitOf(byte, e) ELSE BitOf(ctr[q + 1], e - m)
    BY <2>0, SpliceBit DEF spliced, len
  <2> DEFINE n == (ByteBits * q + e) + 1
  <2> SUFFICES BitOf(spliced[q + 1], e) = joined[n]
    BY <1>7
  <2>2. CASE e < m /\ q = 0
    <3>1. n = e + 1 /\ n \in 1..m
      BY <1>1, <2>2
    <3> QED
      BY <1>2, <1>3, <1>5, <2>1, <2>2, <3>1
  <2>3. CASE e < m /\ q # 0
    <3> DEFINE p == q - 1
               f == (ByteBits - m) + e
    <3>1. p \in 0..(len - 1) /\ f \in 0..(ByteBits - 1) /\ p + 1 = q
      BY <1>1, <2>0, <2>3
    <3>2. ByteBits * q = ByteBits * p + ByteBits /\ ByteBits * p \in Nat
      BY <1>1, <2>0, <2>3
    <3>3. (ByteBits * p + f) + 1 \in 1..(ByteBits * len)
      BY <1>1, <3>1, PlaceOfBit
    <3>4. n - m = (ByteBits * p + f) + 1
      BY <1>1, <2>0, <3>2
    <3>5. n \in Int /\ n \in (m + 1)..(m + ByteBits * len)
      BY <1>1, <2>0, <3>3, <3>4
    <3> HIDE DEF n, p, f
    <3>6. joined[n] = BitOf(ctr[q], f)
      BY <1>4, <1>5, <3>1, <3>4, <3>5
    <3> QED
      BY <2>1, <2>3, <3>6 DEF n, f
  <2>4. CASE ~(e < m) /\ q # len
    <3> DEFINE f == e - m
    <3>1. q \in 0..(len - 1) /\ f \in 0..(ByteBits - 1)
      BY <1>1, <2>0, <2>4
    <3>2. (ByteBits * q + f) + 1 \in 1..(ByteBits * len)
      BY <1>1, <3>1, PlaceOfBit
    <3>3. n - m = (ByteBits * q + f) + 1
      BY <1>1, <2>0
    <3>4. n \in Int /\ n \in (m + 1)..(m + ByteBits * len)
      BY <1>1, <2>0, <3>2, <3>3
    <3> HIDE DEF n, f
    <3>5. joined[n] = BitOf(ctr[q + 1], f)
      BY <1>4, <1>5, <3>1, <3>3, <3>4
    <3> QED
      BY <2>1, <2>4, <3>5 DEF n, f
  <2>5. CASE ~(e < m) /\ q = len
    <3>1. ByteBits * q = ByteBits * len
      BY <2>5
    <3>2. n \in ((m + ByteBits * len) + 1)..((m + ByteBits * len) + (ByteBits - m))
          /\ n - (m + ByteBits * len) \in 1..(ByteBits - m) /\ m + (n - (m + ByteBits * len)) = e + 1
      BY <1>1, <2>0, <2>5, <3>1
    <3> HIDE DEF n
    <3>3. joined[n] = after[n - (m + ByteBits * len)]
      BY <1>5, <3>2
    <3>4. after[n - (m + ByteBits * len)] = split[e + 1]
      BY <1>3, <3>2
    <3>5. joined[n] = BitOf(byte, e)
      BY <1>2, <3>3, <3>4
    <3> QED
      BY <2>1, <2>5, <3>5 DEF n
  <2> QED
    BY <2>2, <2>3, <2>4, <2>5
<1> QED
  BY <1>1, <1>5, <1>7, <1>8, <1>9, SameBits DEF joined, spliced, before, after, split

-----------------------------------------------------------------------------
(***************************************************************************)
(* Sequences of whatever elements, joined.                                 *)
(***************************************************************************)
Sequence(x) == \E S : x \in Seq(S)

LEMMA Joined ==
  ASSUME NEW x, NEW y, Sequence(x), Sequence(y)
  PROVE  /\ Sequence(x \o y)
         /\ Len(x) \in Nat /\ Len(y) \in Nat /\ Len(x \o y) = Len(x) + Len(y)
         /\ \A n \in 1..Len(x) : (x \o y)[n] = x[n]
         /\ \A n \in 1..Len(y) : (x \o y)[Len(x) + n] = y[n]
<1>1. PICK S : x \in Seq(S) /\ y \in Seq(S)
  <2>1. PICK S1, S2 : x \in Seq(S1) /\ y \in Seq(S2)
    BY DEF Sequence
  <2>2. x \in Seq(S1 \cup S2) /\ y \in Seq(S1 \cup S2)
    BY <2>1
  <2> QED
    BY <2>2
<1>2. /\ x \o y \in Seq(S) /\ Len(x \o y) = Len(x) + Len(y)
      /\ \A n \in 1..(Len(x) + Len(y)) : (x \o y)[n] = IF n <= Len(x) THEN x[n] ELSE y[n - Len(x)]
  BY <1>1, ConcatProperties
<1>3. Len(x) \in Nat /\ Len(y) \in Nat
  BY <1>1, LenProperties
<1>4. \A n \in 1..Len(x) : (x \o y)[n] = x[n]
  BY <1>2, <1>3
<1>5. \A n \in 1..Len(y) : (x \o y)[Len(x) + n] = y[n]
  <2> TAKE n \in 1..Len(y)
  <2>1. Len(x) + n \in 1..(Len(x) + Len(y)) /\ ~(Len(x) + n <= Len(x)) /\ (Len(x) + n) - Len(x) = n
    BY <1>3
  <2> QED
    BY <1>2, <2>1
<1> QED
  BY <1>2, <1>3, <1>4, <1>5 DEF Sequence

LEMMA JoinedAgain ==
  ASSUME NEW x, NEW y, NEW z, Sequence(x), Sequence(y), Sequence(z)
  PROVE  (x \o y) \o z = x \o (y \o z)
<1>1. PICK S1, S2, S3 : x \in Seq(S1) /\ y \in Seq(S2) /\ z \in Seq(S3)
  BY DEF Sequence
<1> DEFINE S == (S1 \cup S2) \cup S3
<1>2. x \in Seq(S) /\ y \in Seq(S) /\ z \in Seq(S)
  BY <1>1
<1> HIDE DEF S
<1> QED
  BY <1>2, ConcatAssociative

LEMMA JoinedToNone ==
  ASSUME NEW x, Sequence(x)
  PROVE  x \o <<>> = x /\ <<>> \o x = x
BY ConcatEmptySeq DEF Sequence

LEMMA FewAreSequences ==
  /\ Sequence(<<>>)
  /\ \A u : Sequence(<<u>>) /\ Len(<<u>>) = 1 /\ <<u>>[1] = u
<1>1. Sequence(<<>>)
  <2>1. <<>> \in Seq({})
    OBVIOUS
  <2> QED
    BY <2>1 DEF Sequence
<1>2. ASSUME NEW u PROVE Sequence(<<u>>) /\ Len(<<u>>) = 1 /\ <<u>>[1] = u
  <2>1. <<u>> \in Seq({u}) /\ Len(<<u>>) = 1 /\ <<u>>[1] = u
    OBVIOUS
  <2> QED
    BY <2>1 DEF Sequence
<1> QED
  BY <1>1, <1>2

LEMMA HeadAndTail ==
  ASSUME NEW u, NEW x, Sequence(x)
  PROVE  /\ <<u>> \o x # <<>> /\ Sequence(<<u>> \o x)
         /\ Head(<<u>> \o x) = u /\ Tail(<<u>> \o x) = x
<1>1. PICK S : x \in Seq(S)
  BY DEF Sequence
<1> DEFINE V == S \cup {u}
           y == <<u>> \o x
<1>2. x \in Seq(V) /\ <<u>> \in Seq(V) /\ Len(<<u>>) = 1 /\ <<u>>[1] = u /\ Len(x) \in Nat
  BY <1>1
<1> HIDE DEF V
<1>3. /\ y \in Seq(V) /\ Len(y) = 1 + Len(x)
      /\ \A n \in 1..(1 + Len(x)) : y[n] = IF n <= 1 THEN u ELSE x[n - 1]
  <2>1. /\ y \in Seq(V) /\ Len(y) = Len(<<u>>) + Len(x)
        /\ \A n \in 1..(Len(<<u>>) + Len(x)) :
             y[n] = IF n <= Len(<<u>>) THEN <<u>>[n] ELSE x[n - Len(<<u>>)]
    BY <1>2, ConcatProperties
  <2> HIDE DEF y
  <2>2. \A n \in 1..(1 + Len(x)) : n <= 1 => <<u>>[n] = u
    BY <1>2
  <2> QED
    BY <1>2, <2>1, <2>2
<1> HIDE DEF y
<1>4. y # <<>> /\ 1 \in 1..(1 + Len(x))
  BY <1>2, <1>3
<1>5. Head(y) = u /\ Tail(y) \in Seq(V) /\ Len(Tail(y)) = Len(x)
      /\ \A n \in 1..Len(x) : Tail(y)[n] = y[n + 1]
  <2>1. Head(y) = y[1] /\ Tail(y) \in Seq(V) /\ Len(Tail(y)) = Len(y) - 1
        /\ \A n \in 1..(Len(y) - 1) : Tail(y)[n] = y[n + 1]
    BY <1>3, <1>4, HeadTailProperties
  <2> QED
    BY <1>2, <1>3, <1>4, <2>1
<1>6. \A n \in 1..Len(x) : Tail(y)[n] = x[n]
  <2> TAKE n \in 1..Len(x)
  <2>1. n + 1 \in 1..(1 + Len(x)) /\ ~(n + 1 <= 1) /\ (n + 1) - 1 = n
    BY <1>2
  <2> QED
    BY <1>3, <1>5, <2>1
<1>7. Tail(y) = x
  BY <1>2, <1>5, <1>6, SeqEqual
<1> QED
  BY <1>3, <1>4, <1>5, <1>7 DEF y, Sequence

-----------------------------------------------------------------------------
(***************************************************************************)
(* Updates U take the HMAC from what it has absorbed, x, to y.             *)
(***************************************************************************)
Given(u, a, k) ==
  CASE u[2] = "bytes" -> Bits(u[3])
    [] u[2] = "prev"  -> k
    [] u[2] = "A"     -> a

Leads(x, U, y, a, k) ==
  /\ Sequence(U)
  /\ \A j \in 1..Len(U) : U[j][1] = "update"
  /\ \E F : /\ F[0] = x /\ F[Len(U)] = y
            /\ \A j \in 1..Len(U) : F[j] = F[j - 1] \o Given(U[j], a, k)

LEMMA LeadsNowhere ==
  ASSUME NEW x, NEW a, NEW k
  PROVE  Leads(x, <<>>, x, a, k)
<1> DEFINE F == [j \in {0} |-> x]
<1>1. F[0] = x
  OBVIOUS
<1> HIDE DEF F
<1> QED
  BY <1>1, FewAreSequences, Len(<<>>) = 0 DEF Leads

LEMMA LeadsBy ==
  ASSUME NEW u, NEW x, NEW a, NEW k, u[1] = "update"
  PROVE  Leads(x, <<u>>, x \o Given(u, a, k), a, k)
<1> DEFINE F == [j \in 0..1 |-> IF j = 0 THEN x ELSE x \o Given(u, a, k)]
<1>1. F[0] = x /\ F[1] = x \o Given(u, a, k)
  OBVIOUS
<1> HIDE DEF F
<1>2. Sequence(<<u>>) /\ Len(<<u>>) = 1 /\ <<u>>[1] = u
  BY FewAreSequences
<1>3. \A j \in 1..Len(<<u>>) : j = 1 /\ j - 1 = 0
  BY <1>2
<1> QED
  BY <1>1, <1>2, <1>3 DEF Leads

LEMMA LeadsThrough ==
  ASSUME NEW x, NEW y, NEW z, NEW U, NEW V, NEW a, NEW k,
         Leads(x, U, y, a, k), Leads(y, V, z, a, k)
  PROVE  Leads(x, U \o V, z, a, k)
<1> DEFINE l == Len(U)
           m == Len(V)
           UV == U \o V
<1>1. /\ Sequence(UV) /\ l \in Nat /\ m \in Nat /\ Len(UV) = l + m
      /\ \A n \in 1..l : UV[n] = U[n]
      /\ \A n \in 1..m : UV[l + n] = V[n]
  BY Joined DEF Leads
<1>2. PICK F : /\ F[0] = x /\ F[l] = y
               /\ \A j \in 1..l : F[j] = F[j - 1] \o Given(U[j], a, k)
  BY DEF Leads
<1>3. PICK G : /\ G[0] = y /\ G[m] = z
               /\ \A j \in 1..m : G[j] = G[j - 1] \o Given(V[j], a, k)
  BY DEF Leads
<1>4. /\ \A j \in 1..l : U[j][1] = "update"
      /\ \A j \in 1..m : V[j][1] = "update"
  BY DEF Leads
<1> HIDE DEF l, m, UV
<1> DEFINE H == [j \in 0..(l + m) |-> IF j <= l THEN F[j] ELSE G[j - l]]
<1>5. \A j \in 0..l : H[j] = F[j]
  BY <1>1
<1>6. \A j \in 0..m : H[l + j] = G[j]
  <2> TAKE j \in 0..m
  <2>1. l + j \in 0..(l + m) /\ (l + j) - l = j /\ (l + j <= l => j = 0 /\ l + j = l)
    BY <1>1
  <2> QED
    BY <1>2, <1>3, <2>1
<1> HIDE DEF H
<1>7. \A j \in 1..(l + m) : j \notin 1..l => j - l \in 1..m /\ l + (j - l) = j /\ l + ((j - l) - 1) = j - 1
  BY <1>1
<1>8. ASSUME NEW j \in 1..(l + m) PROVE UV[j][1] = "update"
  <2>1. CASE j \in 1..l
    BY <1>1, <1>4, <2>1
  <2>2. CASE j \notin 1..l
    <3>1. PICK n \in 1..m : l + n = j
      BY <1>7, <2>2
    <3>2. UV[l + n] = V[n] /\ V[n][1] = "update"
      BY <1>1, <1>4
    <3> QED
      BY <3>1, <3>2
  <2> QED
    BY <2>1, <2>2
<1>9. ASSUME NEW j \in 1..(l + m) PROVE H[j] = H[j - 1] \o Given(UV[j], a, k)
  <2>1. CASE j \in 1..l
    <3>1. j \in 0..l /\ j - 1 \in 0..l
      BY <1>1, <2>1
    <3> QED
      BY <1>1, <1>2, <1>5, <2>1, <3>1
  <2>2. CASE j \notin 1..l
    <3>1. PICK n \in 1..m : n = j - l /\ l + n = j /\ l + (n - 1) = j - 1
      BY <1>7, <2>2
    <3>2. n \in 0..m /\ n - 1 \in 0..m
      BY <1>1
    <3>3. H[l + n] = G[n] /\ H[l + (n - 1)] = G[n - 1] /\ UV[l + n] = V[n]
      BY <1>1, <1>6, <3>2
    <3>4. G[n] = G[n - 1] \o Given(V[n], a, k)
      BY <1>3
    <3> QED
      BY <3>1, <3>3, <3>4
  <2> QED
    BY <2>1, <2>2
<1>10. H[0] = x /\ H[l + m] = z
  BY <1>1, <1>2, <1>3, <1>5, <1>6, 0 \in 0..l, m \in 0..m
<1>11. Leads(x, UV, z, a, k)
  BY <1>1, <1>8, <1>9, <1>10 DEF Leads
<1> QED
  BY <1>11 DEF UV

\* The first update, and the ones behind it.
LEMMA LeadsOn ==
  ASSUME NEW x, NEW y, NEW U, NEW a, NEW k, Leads(x, U, y, a, k)
  PROVE  \/ U = <<>> /\ x = y
         \/ \E u, V : /\ U = <<u>> \o V /\ u[1] = "update"
                      /\ Leads(x \o Given(u, a, k), V, y, a, k)
<1>1. PICK S : U \in Seq(S)
  BY DEF Leads, Sequence
<1>2. PICK F : /\ F[0] = x /\ F[Len(U)] = y
               /\ \A j \in 1..Len(U) : F[j] = F[j - 1] \o Given(U[j], a, k)
  BY DEF Leads
<1>3. CASE U = <<>>
  BY <1>2, <1>3, Len(<<>>) = 0
<1>4. CASE U # <<>>
  <2> DEFINE u == Head(U)
             V == Tail(U)
             m == Len(V)
  <2>1. /\ u = U[1] /\ V \in Seq(S) /\ Len(U) = m + 1 /\ m \in Nat
        /\ \A n \in 1..m : V[n] = U[n + 1]
    BY <1>1, <1>4, HeadTailProperties, LenProperties
  <2>2. U = <<u>> \o V
    BY <1>1, <1>4
  <2> HIDE DEF u, V, m
  <2> DEFINE G == [j \in 0..m |-> F[j + 1]]
  <2>3. \A j \in 0..m : G[j] = F[j + 1]
    OBVIOUS
  <2> HIDE DEF G
  <2>4. G[0] = x \o Given(u, a, k) /\ G[m] = y
    <3>1. F[1] = F[1 - 1] \o Given(U[1], a, k)
      BY <1>2, <2>1, 1 \in 1..Len(U)
    <3>2. G[0] = F[0 + 1] /\ G[m] = F[m + 1] /\ 0 + 1 = 1 /\ 1 - 1 = 0
      BY <2>1, <2>3, 0 \in 0..m, m \in 0..m
    <3> QED
      BY <1>2, <2>1, <3>1, <3>2, Zenon
  <2>5. \A j \in 1..m : V[j][1] = "update" /\ G[j] = G[j - 1] \o Given(V[j], a, k)
    <3> TAKE j \in 1..m
    <3>1. j + 1 \in 1..Len(U) /\ (j + 1) - 1 = j /\ j \in 0..m /\ j - 1 \in 0..m /\ (j - 1) + 1 = j
      BY <2>1
    <3>2. F[j + 1] = F[(j + 1) - 1] \o Given(U[j + 1], a, k) /\ U[j + 1][1] = "update"
      BY <1>2, <3>1 DEF Leads
    <3> QED
      BY <2>1, <2>3, <3>1, <3>2
  <2>6. Leads(x \o Given(u, a, k), V, y, a, k)
    <3>1. Sequence(V) /\ m = Len(V)
      BY <2>1 DEF Sequence, m
    <3> QED
      BY <2>4, <2>5, <3>1 DEF Leads
  <2>7. u[1] = "update"
    BY <2>1, 1 \in 1..Len(U) DEF Leads
  <2> QED
    BY <2>2, <2>6, <2>7
<1> QED
  BY <1>3, <1>4

-----------------------------------------------------------------------------
(***************************************************************************)
(* The chain of blocks.                                                    *)
(***************************************************************************)
FirstLink(r) == [A |-> FixedBits(r), K |-> IF r.iv > 0 THEN <<IV>> ELSE <<>>]

Chained(r, link) ==
  CASE r.mode = "counter"  -> <<>>
    [] r.mode = "feedback" -> link.K
    [] r.mode = "pipeline" -> Prf(link.A)

NextLink(r, n, link) == [A |-> Prf(link.A), K |-> Prf(Input(r, n, Chained(r, link)))]

IsChain(C, r) == C = [n \in Nat |-> IF n = 0 THEN FirstLink(r) ELSE NextLink(r, n, C[n - 1])]

Links(C, r, m) == \A n \in 0..m : C[n] = IF n = 0 THEN FirstLink(r) ELSE NextLink(r, n, C[n - 1])

LEMMA LinksExist ==
  ASSUME NEW r
  PROVE  \A m \in Nat : \E C : Links(C, r, m)
<1> DEFINE S == {m \in Nat : \E C : Links(C, r, m)}
<1>1. 0 \in S
  <2> DEFINE C == [n \in 0..0 |-> FirstLink(r)]
  <2>1. Links(C, r, 0)
    BY DEF Links
  <2> HIDE DEF C
  <2> QED
    BY <2>1
<1>2. ASSUME NEW m \in Nat, m \in S
      PROVE  m + 1 \in S
  <2>1. PICK C : Links(C, r, m)
    BY <1>2
  <2> DEFINE D == [n \in 0..(m + 1) |-> IF n = m + 1 THEN NextLink(r, n, C[m]) ELSE C[n]]
  <2>2. Links(D, r, m + 1)
    <3>1. \A n \in 0..m : D[n] = C[n]
      BY <1>2
    <3>2. D[m + 1] = NextLink(r, m + 1, C[m])
      OBVIOUS
    <3> HIDE DEF D
    <3> SUFFICES ASSUME NEW n \in 0..(m + 1)
                 PROVE  D[n] = IF n = 0 THEN FirstLink(r) ELSE NextLink(r, n, D[n - 1])
      BY DEF Links
    <3>3. CASE n = m + 1
      <4>1. n # 0 /\ n - 1 = m /\ D[m] = C[m]
        BY <1>2, <3>1, <3>3, m \in 0..m
      <4> QED
        BY <3>2, <3>3, <4>1
    <3>4. CASE n # m + 1 /\ n # 0
      BY <1>2, <2>1, <3>1, <3>4, n \in 0..m, n - 1 \in 0..m DEF Links
    <3>5. CASE n = 0
      BY <1>2, <2>1, <3>1, <3>5, 0 \in 0..m DEF Links
    <3> QED
      BY <3>3, <3>4, <3>5
  <2> HIDE DEF D
  <2> QED
    BY <1>2, <2>2
<1> HIDE DEF S
<1>3. \A m \in Nat : m \in S
  BY <1>1, <1>2, SetInduction
<1> QED
  BY <1>3 DEF S

LEMMA LinksAgree ==
  ASSUME NEW r, NEW m \in Nat, NEW C, NEW D, Links(C, r, m), Links(D, r, m)
  PROVE  \A n \in 0..m : C[n] = D[n]
<1> DEFINE S == {n \in Nat : n <= m => C[n] = D[n]}
<1>1. 0 \in S
  BY 0 \in 0..m DEF Links
<1>2. ASSUME NEW n \in Nat, n \in S
      PROVE  n + 1 \in S
  <2>1. SUFFICES ASSUME n + 1 <= m
                 PROVE  C[n + 1] = D[n + 1]
    OBVIOUS
  <2>2. n + 1 \in 0..m /\ n + 1 # 0 /\ (n + 1) - 1 = n /\ C[n] = D[n]
    BY <1>2, <2>1
  <2>3. C[n + 1] = NextLink(r, n + 1, C[n]) /\ D[n + 1] = NextLink(r, n + 1, D[n])
    BY <2>2 DEF Links
  <2> QED
    BY <2>2, <2>3
<1> HIDE DEF S
<1>3. \A n \in Nat : n \in S
  BY <1>1, <1>2, SetInduction
<1> QED
  BY <1>3 DEF S

LEMMA ChainExists ==
  ASSUME NEW r
  PROVE  \E C : IsChain(C, r)
<1> DEFINE G(m) == CHOOSE C : Links(C, r, m)
           C == [n \in Nat |-> G(n)[n]]
<1>1. \A m \in Nat : Links(G(m), r, m)
  BY LinksExist, Zenon
<1> HIDE DEF G
<1>2. ASSUME NEW n \in Nat
      PROVE  C[n] = IF n = 0 THEN FirstLink(r) ELSE NextLink(r, n, C[n - 1])
  <2>1. G(n)[n] = IF n = 0 THEN FirstLink(r) ELSE NextLink(r, n, G(n)[n - 1])
    BY <1>1 DEF Links
  <2>2. n # 0 => G(n)[n - 1] = G(n - 1)[n - 1]
    <3> SUFFICES ASSUME n # 0 PROVE G(n)[n - 1] = G(n - 1)[n - 1]
      OBVIOUS
    <3>1. n - 1 \in Nat /\ n - 1 \in 0..(n - 1)
      OBVIOUS
    <3>2. Links(G(n), r, n - 1) /\ Links(G(n - 1), r, n - 1)
      BY <1>1, <3>1 DEF Links
    <3> QED
      BY <3>1, <3>2, LinksAgree
  <2> QED
    BY <2>1, <2>2
<1>3. C = [n \in Nat |-> C[n]]
  OBVIOUS
<1> HIDE DEF C
<1>4. IsChain(C, r)
  BY <1>2, <1>3 DEF IsChain
<1> QED
  BY <1>4

LEMMA ChainRecurs ==
  ASSUME NEW r
  PROVE  /\ Chain(r)[0] = FirstLink(r)
         /\ \A n \in Nat \ {0} : Chain(r)[n] = NextLink(r, n, Chain(r)[n - 1])
<1>1. Chain(r) = CHOOSE C : IsChain(C, r)
  BY DEF Chain, IsChain, FirstLink, NextLink, Chained
<1>2. IsChain(Chain(r), r)
  BY <1>1, ChainExists, Zenon
<1>3. \A n \in Nat : Chain(r)[n] = IF n = 0 THEN FirstLink(r) ELSE NextLink(r, n, Chain(r)[n - 1])
  BY <1>2 DEF IsChain
<1> QED
  BY <1>3

-----------------------------------------------------------------------------
(***************************************************************************)
(* The parts of the input of a block.                                      *)
(***************************************************************************)
FixedBytes(r) == Take(Fixed, r.fixed)

LEMMA FixedTypes ==
  ASSUME NEW r \in Requests
  PROVE  /\ FixedBytes(r) \in Seq(Byte) /\ Len(FixedBytes(r)) = r.fixed /\ r.fixed \in Nat
         /\ FixedBits(r) = Bits(FixedBytes(r))
         /\ FixedBits(r) \in Seq(BitItems) /\ Len(FixedBits(r)) = ByteBits * r.fixed
         /\ Sequence(FixedBits(r))
<1>1. r.fixed \in 0..Len(Fixed) /\ Fixed \in Seq(Byte)
  BY RequestTypes, Sizes
<1>2. FixedBytes(r) \in Seq(Byte) /\ Len(FixedBytes(r)) = r.fixed
  BY <1>1, Cut DEF FixedBytes
<1>3. r.fixed \in Nat
  BY <1>1, LenProperties
<1>4. FixedBits(r) = Bits(FixedBytes(r))
  BY DEF FixedBits, FixedBytes
<1>5. FixedBits(r) \in Seq(BitItems) /\ Len(FixedBits(r)) = ByteBits * r.fixed
  BY <1>2, <1>4, BitsOf
<1> QED
  BY <1>2, <1>3, <1>4, <1>5 DEF Sequence

LEMMA CtrTypes ==
  ASSUME NEW n \in Nat, NEW rlen \in Nat
  PROVE  /\ Ctr(n, rlen) \in Seq(Byte)
         /\ Bits(Ctr(n, rlen)) \in Seq(BitItems) /\ Sequence(Bits(Ctr(n, rlen)))
         /\ rlen = 0 => Bits(Ctr(n, rlen)) = <<>>
<1>1. Ctr(n, rlen) \in [1..rlen -> Byte]
  <2>1. ASSUME NEW k \in 1..rlen PROVE Digit(ByteMod, n, rlen - k) \in Byte
    <3>1. rlen - k \in Nat /\ ByteMod \in Nat \ {0}
      BY Sizes
    <3> QED
      BY <3>1, DigitType DEF Byte
  <2> QED
    BY <2>1 DEF Ctr
<1>2. Ctr(n, rlen) \in Seq(Byte) /\ Len(Ctr(n, rlen)) = rlen
  BY <1>1, FunctionIsSeq
<1>3. Bits(Ctr(n, rlen)) \in Seq(BitItems)
  BY <1>2, BitsOf
<1>4. rlen = 0 => Ctr(n, rlen) = <<>>
  BY <1>2, EmptySeq
<1> QED
  BY <1>2, <1>3, <1>4, BitsOfNone DEF Sequence

LEMMA PrfType == \A x : Sequence(Prf(x)) /\ Prf(x) # <<>> /\ Prf(x)[1] = <<"prf", x>>
BY FewAreSequences, Len(<<>>) = 0 DEF Prf

\* Every link is made of sequences, and no PRF is empty.
LEMMA LinkTypes ==
  ASSUME NEW r \in Requests, NEW n \in Nat
  PROVE  /\ Sequence(Chain(r)[n].A) /\ Sequence(Chain(r)[n].K)
         /\ Chain(r)[n].K = <<>> <=> n = 0 /\ r.iv = 0
<1>1. CASE n = 0
  <2>1. Chain(r)[n].A = FixedBits(r) /\ Chain(r)[n].K = IF r.iv > 0 THEN <<IV>> ELSE <<>>
    <3>1. Chain(r)[n] = FirstLink(r)
      BY <1>1, ChainRecurs, Zenon
    <3> QED
      BY <3>1 DEF FirstLink
  <2>2. r.iv \in 0..1
    BY RequestTypes
  <2>3. Sequence(<<IV>>) /\ <<IV>> # <<>>
    BY FewAreSequences, Len(<<>>) = 0
  <2> QED
    BY <1>1, <2>1, <2>2, <2>3, FixedTypes, FewAreSequences
<1>2. CASE n # 0
  <2>1. n \in Nat \ {0}
    BY <1>2
  <2>2. Chain(r)[n] = NextLink(r, n, Chain(r)[n - 1])
    BY <2>1, ChainRecurs
  <2>3. /\ Chain(r)[n].A = Prf(Chain(r)[n - 1].A)
        /\ Chain(r)[n].K = Prf(Input(r, n, Chained(r, Chain(r)[n - 1])))
    BY <2>2 DEF NextLink
  <2> QED
    BY <1>2, <2>3, PrfType
<1> QED
  BY <1>1, <1>2

-----------------------------------------------------------------------------
\* Joining under a name of its own, for the reasoning that needs no elements.
Join(x, y) == x \o y

LEMMA JoinIsSequence == \A x, y : Sequence(x) /\ Sequence(y) => Sequence(Join(x, y))
BY Joined DEF Join

LEMMA JoinAssociates ==
  \A x, y, z : Sequence(x) /\ Sequence(y) /\ Sequence(z) =>
    Join(Join(x, y), z) = Join(x, Join(y, z))
BY JoinedAgain DEF Join

LEMMA JoinNone == \A x : Sequence(x) => Join(x, <<>>) = x /\ Join(<<>>, x) = x
BY JoinedToNone DEF Join

LEMMA PlaceIn ==
  ASSUME NEW n \in Nat \ {0}, NEW pos \in Nat, NEW f \in Nat, pos <= n * f
  PROVE  /\ pos \div n \in 0..f /\ pos % n \in 0..(n - 1) /\ pos = n * (pos \div n) + (pos % n)
         /\ pos % n # 0 => pos \div n < f
         /\ pos \div n = 0 /\ pos % n = 0 <=> pos = 0
<1>1. PICK u \in Int, v \in 0..(n - 1) : u = pos \div n /\ v = pos % n /\ pos = n * u + v
  BY DivMod, pos \in Int
<1>2. n * u \in Int /\ n * f \in Nat /\ n * 0 = 0 /\ 0 \in Int /\ f \in Int
  OBVIOUS
<1>3. u < 0 => n * u + n <= n * 0
  BY <1>2, MultiplesApart
<1>4. f < u => n * f + n <= n * u
  BY <1>2, MultiplesApart
<1>5. 0 < u => n * 0 + n <= n * u
  BY <1>2, MultiplesApart
<1>6. (u = f => n * u = n * f) /\ (u = 0 => n * u = 0)
  OBVIOUS
<1>7. u \in 0..f /\ (v # 0 => u < f) /\ (u = 0 /\ v = 0 <=> pos = 0)
  BY <1>1, <1>2, <1>3, <1>4, <1>5, <1>6
<1> QED
  BY <1>1, <1>7

\* The byte and the bit at which the counter stands.
LEMMA Position ==
  ASSUME NEW r \in Requests, 0 <= r.rpos, r.rpos <= ByteBits * r.fixed,
         NEW q, q = r.rpos \div ByteBits, NEW m, m = r.rpos % ByteBits
  PROVE  /\ q \in 0..r.fixed /\ m \in 0..(ByteBits - 1) /\ r.rpos = ByteBits * q + m
         /\ m # 0 => q < r.fixed
         /\ q = 0 /\ m = 0 <=> r.rpos = 0
<1>1. r.rpos \in Nat /\ r.fixed \in Nat /\ ByteBits \in Nat \ {0}
  BY Sizes, RequestTypes, LenProperties
<1> DEFINE div == r.rpos \div ByteBits
           mod == r.rpos % ByteBits
<1>2. /\ div \in 0..r.fixed /\ mod \in 0..(ByteBits - 1) /\ r.rpos = ByteBits * div + mod
      /\ mod # 0 => div < r.fixed
      /\ div = 0 /\ mod = 0 <=> r.rpos = 0
  BY <1>1, PlaceIn, Zenon
<1>3. q = div /\ m = mod
  OBVIOUS
<1> HIDE DEF div, mod
<1> QED
  BY <1>2, <1>3, Zenon

LEMMA CutAround ==
  ASSUME NEW S, NEW x \in Seq(S), NEW q \in 0..(Len(x) - 1)
  PROVE  x = (Take(x, q) \o <<x[q + 1]>>) \o After(x, q + 1)
<1> DEFINE b == <<x[q + 1]>>
<1>1. Len(x) \in Nat /\ q \in 0..Len(x) /\ q + 1 \in 0..Len(x) /\ q + 1 \in 1..Len(x)
  BY LenProperties
<1>2. b \in Seq(S) /\ Len(b) = 1 /\ b[1] = x[q + 1]
  BY <1>1, ElementOfSeq
<1> HIDE DEF b
<1>3. /\ Take(x, q) \in Seq(S) /\ Len(Take(x, q)) = q /\ \A n \in 1..q : Take(x, q)[n] = x[n]
      /\ Take(x, q + 1) \in Seq(S) /\ Len(Take(x, q + 1)) = q + 1
      /\ \A n \in 1..(q + 1) : Take(x, q + 1)[n] = x[n]
  BY <1>1, Cut
<1>4. /\ Len(Take(x, q) \o b) = q + 1
      /\ \A n \in 1..(q + 1) : (Take(x, q) \o b)[n] = IF n <= q THEN Take(x, q)[n] ELSE b[n - q]
  <2>1. PICK y \in Seq(S) : y = Take(x, q) /\ Len(y) = q
    BY <1>3
  <2>2. Len(y \o b) = q + 1 /\ \A n \in 1..(q + 1) : (y \o b)[n] = IF n <= q THEN y[n] ELSE b[n - q]
    <3>1. Len(y \o b) = Len(y) + Len(b)
          /\ \A n \in 1..(Len(y) + Len(b)) : (y \o b)[n] = IF n <= Len(y) THEN y[n] ELSE b[n - Len(y)]
      BY <1>2, ConcatProperties, Zenon
    <3> QED
      BY <1>2, <2>1, <3>1, Zenon
  <2> QED
    BY <2>1, <2>2, Zenon
<1>5. ASSUME NEW n \in 1..(q + 1) PROVE (Take(x, q) \o b)[n] = Take(x, q + 1)[n]
  <2>1. CASE n <= q
    <3>1. n \in 1..q
      BY <1>1, <2>1
    <3> QED
      BY SMTT(30), <1>3, <1>4, <3>1
  <2>2. CASE ~(n <= q)
    <3>1. n = q + 1 /\ n - q = 1
      BY <1>1, <2>2
    <3> QED
      BY <1>2, <1>3, <1>4, <2>2, <3>1
  <2> QED
    BY <2>1, <2>2
<1>6. Take(x, q) \o b = Take(x, q + 1)
  <2>1. Take(x, q) \o b \in Seq(S)
    BY <1>2, <1>3, ConcatProperties
  <2> QED
    BY <1>3, <1>4, <1>5, <2>1, SeqEqual
<1> QED
  BY <1>1, <1>6, CutRejoins DEF b

LEMMA CutInside ==
  ASSUME NEW S, NEW f \in Seq(S), NEW l \in Seq(S), NEW h \in Seq(S), NEW g \in Seq(S),
         NEW lh, lh = Join(l, h), NEW x, x = Join(Join(f, lh), g),
         NEW n, n = Len(f) + Len(l)
  PROVE  Take(x, n) = Join(f, l) /\ After(x, n) = Join(h, g)
<1>1. PICK fl \in Seq(S) : fl = Join(f, l) /\ Len(fl) = n
  BY ConcatProperties DEF Join
<1>2. PICK hg \in Seq(S) : hg = Join(h, g)
  BY ConcatProperties DEF Join
<1>3. Sequence(f) /\ Sequence(l) /\ Sequence(h) /\ Sequence(g)
  BY Zenon DEF Sequence
<1>4. x = Join(fl, hg)
  <2>1. Join(fl, h) = Join(f, lh)
    BY <1>1, <1>3, JoinAssociates
  <2>2. Sequence(fl)
    BY <1>1, <1>3, JoinIsSequence
  <2>3. Join(Join(fl, h), g) = Join(fl, hg)
    BY <1>2, <1>3, <2>2, JoinAssociates
  <2> QED
    BY <2>1, <2>3
<1>5. Take(Join(fl, hg), Len(fl)) = fl /\ After(Join(fl, hg), Len(fl)) = hg
  BY CutOfJoin DEF Join
<1> QED
  BY <1>1, <1>2, <1>4, <1>5

\* Bits cut within a byte.
LEMMA BitsCutWithin ==
  ASSUME NEW x \in Seq(Byte), NEW q \in 0..(Len(x) - 1), NEW m \in 0..ByteBits,
         NEW byte, byte = x[q + 1]
  PROVE  /\ byte \in Byte /\ Take(x, q) \in Seq(Byte) /\ After(x, q + 1) \in Seq(Byte)
         /\ Take(Bits(x), ByteBits * q + m) = Bits(Take(x, q)) \o Take(Bits(<<byte>>), m)
         /\ After(Bits(x), ByteBits * q + m) = After(Bits(<<byte>>), m) \o Bits(After(x, q + 1))
<1>1. Len(x) \in Nat /\ q \in 0..Len(x) /\ q + 1 \in 0..Len(x) /\ q + 1 \in 1..Len(x)
  BY LenProperties
<1>2. byte \in Byte
  BY <1>1, ElementOfSeq
<1>3. PICK before \in Seq(Byte) : before = Take(x, q) /\ Len(before) = q
  <2>1. Take(x, q) \in Seq(Byte) /\ Len(Take(x, q)) = q
    BY <1>1, Cut, Zenon
  <2> QED
    BY <2>1
<1>4. PICK after \in Seq(Byte) : after = After(x, q + 1)
  <2>1. After(x, q + 1) \in Seq(Byte)
    BY <1>1, Cut, Zenon
  <2> QED
    BY <2>1
<1>5. <<byte>> \in Seq(Byte) /\ Len(<<byte>>) = 1
  BY <1>2
<1> DEFINE split == Bits(<<byte>>)
<1>6. x = (before \o <<byte>>) \o after
  BY <1>3, <1>4, CutAround
<1>7. Bits(x) = (Bits(before) \o split) \o Bits(after)
  <2>1. before \o <<byte>> \in Seq(Byte)
    BY <1>5, ConcatProperties
  <2> QED
    BY <1>5, <1>6, <2>1, BitsOfJoin
<1>8. /\ Bits(before) \in Seq(BitItems) /\ Len(Bits(before)) = ByteBits * q
      /\ split \in Seq(BitItems) /\ Len(split) = ByteBits
      /\ Bits(after) \in Seq(BitItems)
  <2>1. split \in Seq(BitItems) /\ Len(split) = ByteBits * 1
    BY <1>5, BitsOf
  <2>2. Bits(before) \in Seq(BitItems) /\ Len(Bits(before)) = ByteBits * q
    BY <1>3, BitsOf
  <2>3. Bits(after) \in Seq(BitItems)
    BY BitsOf
  <2>4. ByteBits * 1 = ByteBits
    BY Sizes
  <2> QED
    BY <2>1, <2>2, <2>3, <2>4, Zenon
<1> HIDE DEF split
<1>9. /\ Take(split, m) \in Seq(BitItems) /\ Len(Take(split, m)) = m
      /\ After(split, m) \in Seq(BitItems) /\ Take(split, m) \o After(split, m) = split
  <2>1. m \in 0..Len(split)
    BY <1>8
  <2> QED
    <3>1. /\ Take(split, m) \in Seq(BitItems) /\ Len(Take(split, m)) = m
          /\ After(split, m) \in Seq(BitItems)
      BY <1>8, <2>1, Cut, Zenon
    <3>2. Take(split, m) \o After(split, m) = split
      BY <1>8, <2>1, CutRejoins, Zenon
    <3> QED
      BY <3>1, <3>2
<1>10. /\ Take(Bits(x), ByteBits * q + m) = Bits(before) \o Take(split, m)
       /\ After(Bits(x), ByteBits * q + m) = After(split, m) \o Bits(after)
  <2>1. Bits(x) = (Bits(before) \o (Take(split, m) \o After(split, m))) \o Bits(after)
    BY <1>7, <1>9
  <2>2. ByteBits * q + m = Len(Bits(before)) + Len(Take(split, m))
    BY <1>8, <1>9
  <2> QED
    <3> DEFINE l == Take(split, m)
               h == After(split, m)
               f == Bits(before)
               g == Bits(after)
    <3>1. f \in Seq(BitItems) /\ l \in Seq(BitItems) /\ h \in Seq(BitItems) /\ g \in Seq(BitItems)
      BY <1>8, <1>9
    <3> HIDE DEF f, l, h, g
    <3>2. Bits(x) = Join(Join(f, Join(l, h)), g) /\ ByteBits * q + m = Len(f) + Len(l)
      BY <2>1, <2>2 DEF f, l, h, g, Join
    <3>3. Take(Bits(x), ByteBits * q + m) = Join(f, l) /\ After(Bits(x), ByteBits * q + m) = Join(h, g)
      <4>1. \A lh, z, n : /\ lh = Join(l, h) /\ z = Join(Join(f, lh), g) /\ n = Len(f) + Len(l)
                           => Take(z, n) = Join(f, l) /\ After(z, n) = Join(h, g)
        BY <3>1, CutInside
      <4> QED
        BY <3>2, <4>1
    <3> QED
      BY <3>3, Zenon DEF f, l, h, g, Join
<1> QED
  BY <1>2, <1>3, <1>4, <1>10 DEF split

\* The bits of the fixed input before and after the counter.
LEMMA BetweenTwoBytes ==
  ASSUME NEW r \in Requests, 0 <= r.rpos, r.rpos <= ByteBits * r.fixed, AtByte(r),
         NEW q, q = r.rpos \div ByteBits
  PROVE  /\ Take(FixedBytes(r), q) \in Seq(Byte) /\ After(FixedBytes(r), q) \in Seq(Byte)
         /\ Take(FixedBits(r), r.rpos) = Bits(Take(FixedBytes(r), q))
         /\ After(FixedBits(r), r.rpos) = Bits(After(FixedBytes(r), q))
<1>1. q \in 0..r.fixed /\ r.rpos = ByteBits * q + 0
  BY Position DEF AtByte
<1>2. r.rpos = ByteBits * q /\ q \in 0..Len(FixedBytes(r))
  BY <1>1, FixedTypes, Sizes
<1> QED
  BY <1>2, FixedTypes, BitsCut, Cut

LEMMA WithinAByte ==
  ASSUME NEW r \in Requests, 0 <= r.rpos, r.rpos <= ByteBits * r.fixed,
         NEW q, q = r.rpos \div ByteBits, NEW m, m = r.rpos % ByteBits, m # 0,
         NEW byte, byte = FixedBytes(r)[q + 1]
  PROVE  /\ byte \in Byte /\ m \in 1..(ByteBits - 1) /\ q + 1 \in 1..r.fixed
         /\ Take(FixedBytes(r), q) \in Seq(Byte) /\ After(FixedBytes(r), q + 1) \in Seq(Byte)
         /\ Take(FixedBits(r), r.rpos) = Bits(Take(FixedBytes(r), q)) \o Take(Bits(<<byte>>), m)
         /\ After(FixedBits(r), r.rpos) = After(Bits(<<byte>>), m) \o Bits(After(FixedBytes(r), q + 1))
<1>1. /\ q \in 0..r.fixed /\ m \in 0..(ByteBits - 1) /\ r.rpos = ByteBits * q + m
      /\ q < r.fixed /\ r.fixed \in Nat
      /\ FixedBytes(r) \in Seq(Byte) /\ Len(FixedBytes(r)) = r.fixed
      /\ FixedBits(r) = Bits(FixedBytes(r))
  BY Position, FixedTypes
<1> DEFINE x == FixedBytes(r)
           pos == r.rpos
<1> HIDE DEF x, pos
<1>2. m \in 1..(ByteBits - 1) /\ m \in 0..ByteBits /\ q + 1 \in 1..r.fixed /\ q \in 0..(r.fixed - 1)
  <2> DEFINE w == r.fixed
  <2>1. m \in 0..(ByteBits - 1) /\ m # 0 /\ q \in 0..w /\ q < w /\ w \in Nat
    BY <1>1
  <2> HIDE DEF w
  <2>2. m \in 1..(ByteBits - 1) /\ m \in 0..ByteBits
    BY <2>1, Sizes
  <2>3. q + 1 \in 1..w /\ q \in 0..(w - 1)
    BY <2>1
  <2> QED
    BY <2>2, <2>3 DEF w
<1>3. x \in Seq(Byte) /\ q \in 0..(Len(x) - 1) /\ byte = x[q + 1]
  BY <1>1, <1>2 DEF x
<1>4. /\ byte \in Byte /\ Take(x, q) \in Seq(Byte) /\ After(x, q + 1) \in Seq(Byte)
      /\ Take(Bits(x), ByteBits * q + m) = Bits(Take(x, q)) \o Take(Bits(<<byte>>), m)
      /\ After(Bits(x), ByteBits * q + m) = After(Bits(<<byte>>), m) \o Bits(After(x, q + 1))
  BY <1>2, <1>3, BitsCutWithin, ZenonT(40)
<1> QED
  BY <1>1, <1>2, <1>4, Zenon DEF x

-----------------------------------------------------------------------------
(***************************************************************************)
(* The updates of the three modes lead to the input of SP 800-108.         *)
(***************************************************************************)
LEMMA LeadsByBytes ==
  ASSUME NEW x, NEW bytes, NEW a, NEW k
  PROVE  Leads(x, Update(bytes), x \o Bits(bytes), a, k)
<1> DEFINE u == <<"update", "bytes", bytes>>
<1>1. u[1] = "update" /\ Given(u, a, k) = Bits(bytes)
  BY DEF Given
<1>2. Update(bytes) = <<u>>
  BY DEF Update
<1> HIDE DEF u
<1> QED
  BY <1>1, <1>2, LeadsBy

LEMMA LeadsByPrev ==
  ASSUME NEW x, NEW a, NEW k
  PROVE  Leads(x, UpdatePrev, x \o k, a, k)
<1> DEFINE u == <<"update", "prev">>
<1>1. u[1] = "update" /\ Given(u, a, k) = k
  BY DEF Given
<1>2. UpdatePrev = <<u>>
  BY DEF UpdatePrev
<1> HIDE DEF u
<1> QED
  BY <1>1, <1>2, LeadsBy

LEMMA LeadsByA ==
  ASSUME NEW x, NEW a, NEW k
  PROVE  Leads(x, UpdateA, x \o a, a, k)
<1> DEFINE u == <<"update", "A">>
<1>1. u[1] = "update" /\ Given(u, a, k) = a
  BY DEF Given
<1>2. UpdateA = <<u>>
  BY DEF UpdateA
<1> HIDE DEF u
<1> QED
  BY <1>1, <1>2, LeadsBy

LEMMA LeadsWhen ==
  ASSUME NEW x, NEW y, NEW U, NEW cond \in BOOLEAN, NEW a, NEW k,
         Leads(x, U, y, a, k), ~cond => x = y
  PROVE  Leads(x, When(cond, U), y, a, k)
BY LeadsNowhere DEF When

\* The callbacks of a block up to P: the start S and updates that lead to x.
Begun(S, P, x, a, k) == Sequence(S) /\ \E U : P = S \o U /\ Leads(<<>>, U, x, a, k)

LEMMA BegunAtStart == \A S, a, k : Sequence(S) => Begun(S, S, <<>>, a, k)
BY LeadsNowhere, JoinedToNone DEF Begun

LEMMA BegunOn ==
  ASSUME NEW S, NEW P, NEW V, NEW x, NEW y, NEW a, NEW k,
         Begun(S, P, x, a, k), Leads(x, V, y, a, k)
  PROVE  Begun(S, P \o V, y, a, k)
<1>1. PICK U : P = Join(S, U) /\ Leads(<<>>, U, x, a, k)
  BY DEF Begun, Join
<1>2. Sequence(S) /\ Sequence(U) /\ Sequence(V)
  BY <1>1 DEF Begun, Leads
<1>3. Join(P, V) = Join(S, Join(U, V))
  BY <1>1, <1>2, JoinAssociates
<1>4. Leads(<<>>, Join(U, V), y, a, k)
  BY <1>1, LeadsThrough DEF Join
<1> QED
  BY <1>2, <1>3, <1>4 DEF Begun, Join

LEMMA CounterLeads ==
  ASSUME NEW r \in Requests, NEW n \in Nat, NEW pos, NEW x, Sequence(x), NEW a, NEW k
  PROVE  Leads(x, CounterAt(r, n, pos), IF r.rpos = pos THEN x \o Bits(Ctr(n, r.rlen)) ELSE x, a, k)
<1>1. r.rlen \in Nat
  BY RequestTypes
<1>2. Leads(x, Update(Ctr(n, r.rlen)), x \o Bits(Ctr(n, r.rlen)), a, k)
  BY LeadsByBytes
<1>3. r.rlen = 0 => x \o Bits(Ctr(n, r.rlen)) = x
  BY <1>1, CtrTypes, JoinedToNone
<1>4. Leads(x, <<>>, x, a, k)
  BY LeadsNowhere
<1>5. CASE r.rpos = pos /\ r.rlen > 0
  BY <1>2, <1>5 DEF CounterAt, When
<1>6. CASE ~(r.rpos = pos /\ r.rlen > 0)
  <2>1. CounterAt(r, n, pos) = <<>>
    BY <1>6 DEF CounterAt, When
  <2>2. r.rpos = pos => r.rlen = 0
    BY <1>1, <1>6
  <2> QED
    BY <1>3, <1>4, <2>1, <2>2
<1> QED
  BY <1>5, <1>6

\* The fixed input with the counter in it.
Numbered(r, n) ==
  (Take(FixedBits(r), r.rpos) \o Bits(Ctr(n, r.rlen))) \o After(FixedBits(r), r.rpos)

LEMMA FixedCut ==
  ASSUME NEW r \in Requests, 0 <= r.rpos, r.rpos <= ByteBits * r.fixed
  PROVE  /\ Sequence(Take(FixedBits(r), r.rpos)) /\ Sequence(After(FixedBits(r), r.rpos))
         /\ Take(FixedBits(r), r.rpos) \o After(FixedBits(r), r.rpos) = FixedBits(r)
         /\ r.rpos = 0 => Take(FixedBits(r), r.rpos) = <<>> /\ After(FixedBits(r), r.rpos) = FixedBits(r)
<1>1. PICK pos \in Int : pos = r.rpos
  BY RequestTypes
<1>2. FixedBits(r) \in Seq(BitItems) /\ pos \in 0..Len(FixedBits(r))
  BY <1>1, FixedTypes, Sizes
<1>3. Take(FixedBits(r), pos) \in Seq(BitItems) /\ After(FixedBits(r), pos) \in Seq(BitItems)
  BY <1>2, Cut
<1>4. Take(FixedBits(r), pos) \o After(FixedBits(r), pos) = FixedBits(r)
  BY <1>2, CutRejoins
<1>5. Take(FixedBits(r), 0) = <<>> /\ After(FixedBits(r), 0) = FixedBits(r)
  BY <1>2, CutAtEnds
<1> QED
  BY <1>1, <1>3, <1>4, <1>5 DEF Sequence

LEMMA NumberedLeads ==
  ASSUME NEW r \in Requests, NEW n \in Nat, NEW x, Sequence(x), NEW a, NEW k,
         0 <= r.rpos, r.rpos <= ByteBits * r.fixed, BetweenBytes(r)
  PROVE  LET y == IF r.rpos = 0 THEN x \o Bits(Ctr(n, r.rlen)) ELSE x
         IN  Leads(y, FixedAndCounter(r, n), x \o Numbered(r, n), a, k)
<1> DEFINE c == Bits(Ctr(n, r.rlen))
           y == IF r.rpos = 0 THEN x \o c ELSE x
           T == Take(FixedBits(r), r.rpos)
           H == After(FixedBits(r), r.rpos)
           q == r.rpos \div ByteBits
<1>1. /\ Sequence(c) /\ (r.rlen = 0 => c = <<>>) /\ r.rlen \in Nat /\ r.rpos \in Int
  BY RequestTypes, CtrTypes
<1>2. /\ Sequence(T) /\ Sequence(H) /\ Join(T, H) = FixedBits(r)
      /\ (r.rpos = 0 => T = <<>> /\ H = FixedBits(r))
  BY FixedCut DEF Join
<1>3. Numbered(r, n) = Join(Join(T, c), H)
  BY DEF Numbered, Join
<1>4. FixedBits(r) = Bits(FixedBytes(r)) /\ Sequence(FixedBits(r))
  BY FixedTypes
<1> HIDE DEF T, H, c
<1>5. CASE r.rpos = 0
  <2>1. FixedAndCounter(r, n) = Update(FixedBytes(r))
    BY <1>5 DEF FixedAndCounter, FixedBytes
  <2>2. Leads(y, FixedAndCounter(r, n), y \o FixedBits(r), a, k)
    BY <1>4, <2>1, LeadsByBytes
  <2>3. y \o FixedBits(r) = x \o Numbered(r, n)
    <3>1. y = Join(x, c)
      BY <1>5 DEF Join
    <3>2. Join(Join(x, c), FixedBits(r)) = Join(x, Join(c, FixedBits(r)))
      BY <1>1, <1>4, JoinAssociates
    <3>3. Join(T, c) = c
      BY <1>1, <1>2, <1>5, JoinNone
    <3>4. Join(y, FixedBits(r)) = Join(x, Numbered(r, n))
      BY <1>2, <1>3, <1>5, <3>1, <3>2, <3>3
    <3> QED
      BY <3>4 DEF Join
  <2> QED
    BY <2>2, <2>3 DEF c
<1>6. CASE r.rpos # 0 /\ r.rlen = 0
  <2>1. FixedAndCounter(r, n) = Update(FixedBytes(r))
    BY <1>6 DEF FixedAndCounter, FixedBytes
  <2>2. Leads(y, FixedAndCounter(r, n), y \o FixedBits(r), a, k)
    BY <1>4, <2>1, LeadsByBytes
  <2>3. y \o FixedBits(r) = x \o Numbered(r, n)
    BY <1>1, <1>2, <1>3, <1>6, JoinNone DEF Join
  <2> QED
    BY <2>2, <2>3 DEF c
<1>7. CASE r.rpos # 0 /\ r.rlen # 0
  <2>1. r.rpos > 0 /\ r.rlen > 0 /\ AtByte(r) /\ r.rpos # r.fixed
    BY <1>1, <1>7 DEF BetweenBytes
  <2>2. T = Bits(Take(FixedBytes(r), q)) /\ H = Bits(After(FixedBytes(r), q))
    BY <2>1, BetweenTwoBytes DEF T, H
  <2> HIDE DEF q
  <2>3. FixedAndCounter(r, n) =
          (Update(Take(FixedBytes(r), q)) \o Update(Ctr(n, r.rlen))) \o Update(After(FixedBytes(r), q))
    BY <2>1 DEF FixedAndCounter, FixedBytes, q, When
  <2>4. Leads(x, Update(Take(FixedBytes(r), q)), x \o T, a, k)
    BY <2>2, LeadsByBytes
  <2>5. Leads(x \o T, Update(Ctr(n, r.rlen)), (x \o T) \o c, a, k)
    BY LeadsByBytes DEF c
  <2>6. Leads((x \o T) \o c, Update(After(FixedBytes(r), q)), ((x \o T) \o c) \o H, a, k)
    BY <2>2, LeadsByBytes
  <2>7. Leads(x, Update(Take(FixedBytes(r), q)) \o Update(Ctr(n, r.rlen)), (x \o T) \o c, a, k)
    BY <2>4, <2>5, LeadsThrough
  <2>8. Leads(x, FixedAndCounter(r, n), ((x \o T) \o c) \o H, a, k)
    BY <2>3, <2>6, <2>7, LeadsThrough
  <2>9. ((x \o T) \o c) \o H = x \o Numbered(r, n)
    <3>1. Join(Join(x, T), c) = Join(x, Join(T, c)) /\ Sequence(Join(T, c))
      BY <1>1, <1>2, JoinAssociates, JoinIsSequence
    <3>2. Join(Join(x, Join(T, c)), H) = Join(x, Join(Join(T, c), H))
      BY <1>2, <3>1, JoinAssociates
    <3>3. Join(Join(Join(x, T), c), H) = Join(x, Numbered(r, n))
      BY <1>3, <3>1, <3>2
    <3> QED
      BY <3>3 DEF Join
  <2> QED
    BY <1>7, <2>8, <2>9 DEF c
<1> QED
  BY <1>5, <1>6, <1>7

\* The PRF of the key over the input, computed by the callbacks R.
KeyPart(R, input, a, k) == \E U : R = InitStep \o (U \o FinalKey) /\ Leads(<<>>, U, input, a, k)

LEMMA StepsAreSequences ==
  /\ Sequence(InitStep) /\ Sequence(UpdateA) /\ Sequence(FinalA) /\ Sequence(FinalKey)
BY FewAreSequences DEF InitStep, UpdateA, FinalA, FinalKey

LEMMA BegunEnds ==
  ASSUME NEW P, NEW input, NEW a, NEW k, Begun(InitStep, P, input, a, k)
  PROVE  KeyPart(P \o FinalKey, input, a, k)
<1>1. PICK U : P = Join(InitStep, U) /\ Leads(<<>>, U, input, a, k)
  BY DEF Begun, Join
<1>2. Sequence(U)
  BY <1>1 DEF Leads
<1>3. Join(P, FinalKey) = Join(InitStep, Join(U, FinalKey))
  BY <1>1, <1>2, StepsAreSequences, JoinAssociates
<1> QED
  BY <1>1, <1>3 DEF KeyPart, Join

\* A block starts with the PRF of the key, or with that of A.
Starting(r, n, steps, link) ==
  IF r.mode = "pipeline"
  THEN \E R : /\ steps = InitStep \o (UpdateA \o (FinalA \o R))
              /\ KeyPart(R, Input(r, n, Prf(link.A)), Prf(link.A), link.K)
  ELSE \A a : KeyPart(steps, Input(r, n, Chained(r, link)), a, link.K)

LEMMA InputIsNumbered ==
  ASSUME NEW r \in Requests, 0 <= r.rpos, NEW n, NEW x
  PROVE  Input(r, n, x) = x \o Numbered(r, n)
<1>1. ~(r.rpos < 0)
  BY RequestTypes
<1> QED
  BY <1>1 DEF Input, Numbered

LEMMA NumberedType ==
  ASSUME NEW r \in Requests, 0 <= r.rpos, r.rpos <= ByteBits * r.fixed, NEW n \in Nat
  PROVE  Sequence(Numbered(r, n))
<1>1. r.rlen \in Nat
  BY RequestTypes
<1> QED
  BY <1>1, CtrTypes, FixedCut, Joined DEF Numbered

LEMMA CounterBlockStarts ==
  ASSUME NEW r \in Requests, Promised(r), r.rlen <= RLEN, r.mode = "counter",
         NEW n \in Nat, NEW a, NEW k
  PROVE  KeyPart(CounterBlock(r, n), Input(r, n, <<>>), a, k)
<1> DEFINE m == r.rpos % ByteBits
           q == r.rpos \div ByteBits
           fixed == FixedBytes(r)
           ctr == Ctr(n, r.rlen)
           c == Bits(ctr)
           T == Take(FixedBits(r), r.rpos)
           H == After(FixedBits(r), r.rpos)
           p_fixed == q + (IF m > 0 THEN 1 ELSE 0)
           U1 == When(q > 0, Update(Take(fixed, q)))
           U2 == When(r.rlen > 0, Update(IF m > 0 THEN Splice(ctr, fixed[q + 1], m) ELSE ctr))
           U3 == When(p_fixed # r.fixed, Update(After(fixed, p_fixed)))
<1>1. /\ r.rlen \in Nat /\ r.rpos \in Int /\ r.rpos >= 0 /\ r.rpos <= ByteBits * r.fixed
      /\ (r.rlen > 0 \/ AtByte(r))
  <2>1. r.rlen \in Nat /\ r.rpos \in Int
    BY RequestTypes
  <2> QED
    BY <2>1 DEF Promised, RLEN
<1>2. /\ q \in 0..r.fixed /\ m \in 0..(ByteBits - 1) /\ r.rpos = ByteBits * q + m
      /\ (m # 0 => q < r.fixed) /\ (q = 0 /\ m = 0 <=> r.rpos = 0)
  BY <1>1, Position
<1>3. /\ fixed \in Seq(Byte) /\ Len(fixed) = r.fixed /\ r.fixed \in Nat
  BY FixedTypes
<1>4. Sequence(c) /\ (r.rlen = 0 => c = <<>>) /\ ctr \in Seq(Byte)
  BY <1>1, CtrTypes
<1>5. CounterBlock(r, n) = (((InitStep \o U1) \o U2) \o U3) \o FinalKey
  BY DEF CounterBlock, FixedBytes
<1>6. Sequence(T) /\ Sequence(H)
  BY <1>1, FixedCut
<1>7. Input(r, n, <<>>) = Join(Join(T, c), H)
  <2>1. Input(r, n, <<>>) = Join(<<>>, Numbered(r, n))
    BY <1>1, InputIsNumbered DEF Join
  <2>2. Sequence(Numbered(r, n))
    BY <1>1, NumberedType
  <2> QED
    BY <2>1, <2>2, JoinNone DEF Numbered, Join
<1>8. Bits(Take(fixed, 0)) = <<>> /\ Bits(After(fixed, r.fixed)) = <<>>
  <2>1. Take(fixed, 0) = <<>> /\ After(fixed, Len(fixed)) = <<>>
    BY <1>3, CutAtEnds
  <2> QED
    BY <1>3, <2>1, BitsOfNone
<1> SUFFICES \E x, y : /\ Leads(<<>>, U1, x, a, k) /\ Leads(x, U2, y, a, k)
                       /\ Leads(y, U3, Input(r, n, <<>>), a, k)
  <2>1. PICK x, y : /\ Leads(<<>>, U1, x, a, k) /\ Leads(x, U2, y, a, k)
                    /\ Leads(y, U3, Input(r, n, <<>>), a, k)
    OBVIOUS
  <2> HIDE DEF U1, U2, U3
  <2>2. Begun(InitStep, InitStep, <<>>, a, k)
    BY StepsAreSequences, BegunAtStart
  <2>3. Begun(InitStep, InitStep \o U1, x, a, k)
    BY <2>1, <2>2, BegunOn
  <2>4. Begun(InitStep, (InitStep \o U1) \o U2, y, a, k)
    BY <2>1, <2>3, BegunOn
  <2>5. Begun(InitStep, ((InitStep \o U1) \o U2) \o U3, Input(r, n, <<>>), a, k)
    BY <2>1, <2>4, BegunOn
  <2> QED
    BY <1>5, <2>5, BegunEnds
<1> DEFINE x == Bits(Take(fixed, q))
<1>9. Leads(<<>>, U1, x, a, k)
  <2>1. Leads(<<>>, Update(Take(fixed, q)), <<>> \o x, a, k)
    BY LeadsByBytes
  <2>2. Sequence(x) /\ <<>> \o x = x
    <3>1. q \in 0..Len(fixed)
      BY <1>2, <1>3
    <3>2. Take(fixed, q) \in Seq(Byte)
      BY <1>3, <3>1, Cut
    <3>3. Sequence(x)
      BY <3>2, BitsOf DEF Sequence
    <3> QED
      BY <3>3, JoinedToNone
  <2>3. ~(q > 0) => x = <<>>
    <3>1. ~(q > 0) => q = 0
      BY <1>2
    <3> QED
      BY <1>8, <3>1
  <2> HIDE DEF x, q
  <2>4. (q > 0) \in BOOLEAN
    OBVIOUS
  <2> QED
    BY <2>1, <2>2, <2>3, <2>4, LeadsWhen
<1>10. CASE m = 0
  <2>1. AtByte(r)
    BY <1>10 DEF AtByte
  <2>2. T = x /\ H = Bits(After(fixed, q)) /\ p_fixed = q
    BY <1>1, <1>2, <1>10, <2>1, BetweenTwoBytes
  <2>3. U2 = When(r.rlen > 0, Update(ctr)) /\ U3 = When(q # r.fixed, Update(After(fixed, q)))
    BY <1>10, <2>2
  <2> HIDE DEF x, q, T, H, c, m, U1, U2, U3
  <2>4. Leads(x, U2, x \o c, a, k)
    <3>1. Leads(x, Update(ctr), x \o c, a, k)
      BY LeadsByBytes DEF c
    <3>2. ~(r.rlen > 0) => x = x \o c
      <4>1. x \o <<>> = x
        BY <1>6, <2>2, JoinedToNone
      <4>2. ~(r.rlen > 0) => c = <<>>
        BY <1>1, <1>4
      <4> QED
        BY <4>1, <4>2, Zenon
    <3>3. (r.rlen > 0) \in BOOLEAN
      OBVIOUS
    <3> QED
      BY <2>3, <3>1, <3>2, <3>3, LeadsWhen
  <2>5. Leads(x \o c, U3, (x \o c) \o H, a, k)
    <3>1. Leads(x \o c, Update(After(fixed, q)), (x \o c) \o H, a, k)
      BY <2>2, LeadsByBytes
    <3>2. ~(q # r.fixed) => x \o c = (x \o c) \o H
      <4>1. Sequence(x \o c)
        BY <1>4, <1>6, <2>2, Joined
      <4> QED
        BY <1>8, <2>2, <4>1, JoinedToNone
    <3> QED
      BY <2>3, <3>1, <3>2, LeadsWhen
  <2>6. (x \o c) \o H = Input(r, n, <<>>)
    BY <1>7, <2>2 DEF Join
  <2> QED
    BY <1>9, <2>4, <2>5, <2>6
<1>11. CASE m # 0
  <2> DEFINE byte == fixed[q + 1]
             before == Take(Bits(<<byte>>), m)
             after == After(Bits(<<byte>>), m)
             rest == Bits(After(fixed, q + 1))
             s == (before \o c) \o after
  <2>1. /\ byte \in Byte /\ m \in 1..(ByteBits - 1) /\ q + 1 \in 1..r.fixed
        /\ Take(fixed, q) \in Seq(Byte) /\ After(fixed, q + 1) \in Seq(Byte)
        /\ T = x \o before /\ H = after \o rest
    BY <1>1, <1>11, WithinAByte
  <2>2. r.rlen > 0
    BY <1>1, <1>11 DEF AtByte
  <2>3. U2 = Update(Splice(ctr, byte, m)) /\ U3 = When(q + 1 # r.fixed, Update(After(fixed, q + 1)))
    BY SMTT(30), <1>2, <2>1, <2>2 DEF When
  <2>4. Bits(Splice(ctr, byte, m)) = s
    BY <1>4, <2>1, SpliceBits
  <2>5. Sequence(x) /\ Sequence(before) /\ Sequence(after) /\ Sequence(rest) /\ Sequence(s)
    <3>1. <<byte>> \in Seq(Byte) /\ Len(<<byte>>) = 1
      BY <2>1
    <3>2. Bits(<<byte>>) \in Seq(BitItems) /\ Len(Bits(<<byte>>)) = ByteBits * 1
      BY <3>1, BitsOf
    <3> HIDE DEF byte, m, q, fixed, T, H, before, after, x, rest, s
    <3>3. m \in 0..Len(Bits(<<byte>>))
      <4>1. m \in 1..(ByteBits - 1)
        BY <2>1, Zenon
      <4> QED
        BY <3>2, <4>1, Sizes
    <3>4. Sequence(before) /\ Sequence(after)
      <4> DEFINE split == Bits(<<byte>>)
      <4> HIDE DEF split
      <4>1. split \in Seq(BitItems) /\ m \in 0..Len(split)
        BY <3>2, <3>3 DEF split
      <4>2. Take(split, m) \in Seq(BitItems) /\ After(split, m) \in Seq(BitItems)
        BY <4>1, Cut
      <4> QED
        BY <4>2 DEF Sequence, split, before, after
    <3>5. Sequence(x) /\ Sequence(rest)
      BY <2>1, BitsOf DEF Sequence, x, rest
    <3> HIDE DEF c
    <3> QED
      BY <1>4, <3>4, <3>5, Joined DEF s
  <2> HIDE DEF x, q, T, H, c, m, U1, U2, U3, byte, before, after, rest
  <2>6. Leads(x, U2, x \o s, a, k)
    BY <2>3, <2>4, LeadsByBytes
  <2>7. Leads(x \o s, U3, (x \o s) \o rest, a, k)
    <3>1. Leads(x \o s, Update(After(fixed, q + 1)), (x \o s) \o rest, a, k)
      BY LeadsByBytes DEF rest
    <3>2. ~(q + 1 # r.fixed) => x \o s = (x \o s) \o rest
      <4>1. Sequence(x \o s)
        BY <2>5, Joined
      <4> QED
        BY <1>8, <4>1, JoinedToNone DEF rest
    <3> QED
      BY <2>3, <3>1, <3>2, LeadsWhen
  <2>8. (x \o s) \o rest = Input(r, n, <<>>)
    <3>1. s = Join(Join(before, c), after) /\ T = Join(x, before) /\ H = Join(after, rest)
      BY <2>1 DEF Join
    <3> HIDE DEF s
    <3>2. Join(T, c) = Join(x, Join(before, c))
      BY <1>4, <2>5, <3>1, JoinAssociates
    <3>3. Sequence(Join(before, c))
      BY <1>4, <2>5, JoinIsSequence
    <3>4. Join(Join(x, Join(before, c)), after) = Join(x, s)
      BY <2>5, <3>1, <3>3, JoinAssociates
    <3>5. Sequence(Join(T, c))
      BY <1>4, <1>6, JoinIsSequence
    <3>6. Join(Join(Join(T, c), after), rest) = Join(Join(T, c), H)
      BY <2>5, <3>1, <3>5, JoinAssociates
    <3>7. Join(Join(x, s), rest) = Join(Join(T, c), H)
      BY <3>2, <3>4, <3>6
    <3> QED
      BY <1>7, <3>7 DEF Join
  <2> QED
    BY <1>9, <2>6, <2>7, <2>8
<1> QED
  BY <1>2, <1>10, <1>11

\* The callbacks that feedback and double pipeline mode end with.
LEMMA NumberedBegun ==
  ASSUME NEW r \in Requests, NEW n \in Nat, NEW S, NEW P, NEW x, Sequence(x), NEW a, NEW k,
         0 <= r.rpos, r.rpos <= ByteBits * r.fixed, BetweenBytes(r),
         Begun(S, P, x, a, k)
  PROVE  Begun(S, (P \o CounterAt(r, n, 0)) \o FixedAndCounter(r, n), Input(r, n, x), a, k)
<1> DEFINE y == IF r.rpos = 0 THEN x \o Bits(Ctr(n, r.rlen)) ELSE x
<1>1. Leads(x, CounterAt(r, n, 0), y, a, k)
  BY CounterLeads
<1>2. Leads(y, FixedAndCounter(r, n), x \o Numbered(r, n), a, k)
  BY NumberedLeads
<1>3. Input(r, n, x) = x \o Numbered(r, n)
  BY InputIsNumbered
<1> HIDE DEF y
<1>4. Begun(S, P \o CounterAt(r, n, 0), y, a, k)
  BY <1>1, BegunOn
<1> QED
  BY <1>2, <1>3, <1>4, BegunOn

LEMMA FeedbackBlockStarts ==
  ASSUME NEW r \in Requests, Promised(r), r.rlen <= RLEN, r.mode = "feedback",
         NEW n \in Nat \ {0}, NEW a, NEW k, Sequence(k),
         k = <<>> <=> n = 1 /\ r.iv = 0
  PROVE  KeyPart(FeedbackBlock(r, n), Input(r, n, k), a, k)
<1> DEFINE c == Bits(Ctr(n, r.rlen))
           P1 == InitStep \o CounterAt(r, n, -1)
           P2 == P1 \o When(n > 1 \/ r.iv > 0, UpdatePrev)
           P3 == P2 \o CounterAt(r, n, 0)
           P4 == P3 \o FixedAndCounter(r, n)
           x == IF r.rpos = -1 THEN c ELSE <<>>
<1>1. /\ r.rlen \in Nat /\ r.rpos \in Int /\ r.rpos >= -1 /\ r.rpos <= ByteBits * r.fixed
      /\ r.iv \in 0..1 /\ BetweenBytes(r)
  <2>1. r.rlen \in Nat /\ r.rpos \in Int /\ r.iv \in 0..1
    BY RequestTypes
  <2> QED
    BY <2>1 DEF Promised, RLEN
<1>2. Sequence(c)
  BY <1>1, CtrTypes
<1>3. FeedbackBlock(r, n) = P4 \o FinalKey
  BY DEF FeedbackBlock
<1>4. Sequence(x) /\ <<>> \o c = c
  BY <1>2, FewAreSequences, JoinedToNone
<1>5. Begun(InitStep, P1, x, a, k)
  <2>1. Sequence(<<>>)
    BY FewAreSequences
  <2>2. Leads(<<>>, CounterAt(r, n, -1), IF r.rpos = -1 THEN <<>> \o c ELSE <<>>, a, k)
    BY <2>1, CounterLeads
  <2>3. Leads(<<>>, CounterAt(r, n, -1), x, a, k)
    BY <1>4, <2>2
  <2>4. Begun(InitStep, InitStep, <<>>, a, k)
    BY StepsAreSequences, BegunAtStart
  <2> HIDE DEF x
  <2> QED
    BY <2>3, <2>4, BegunOn
<1>6. Begun(InitStep, P2, x \o k, a, k)
  <2>1. Leads(x, UpdatePrev, x \o k, a, k)
    BY LeadsByPrev
  <2>2. (n > 1 \/ r.iv > 0) \in BOOLEAN
    OBVIOUS
  <2>3. ~(n > 1 \/ r.iv > 0) => x = x \o k
    <3>1. ~(n > 1 \/ r.iv > 0) => k = <<>>
      BY <1>1
    <3>2. x \o <<>> = x
      BY <1>4, JoinedToNone
    <3> HIDE DEF x
    <3> QED
      BY <3>1, <3>2, Zenon
  <2> HIDE DEF x, P1
  <2>4. Leads(x, When(n > 1 \/ r.iv > 0, UpdatePrev), x \o k, a, k)
    BY <2>1, <2>2, <2>3, LeadsWhen
  <2> QED
    BY <1>5, <2>4, BegunOn
<1> HIDE DEF P1, P2
<1>7. Begun(InitStep, P4, Input(r, n, k), a, k)
  <2>1. CASE r.rpos >= 0
    <3>1. x \o k = k
      <4>1. x = <<>>
        BY <1>1, <2>1
      <4> QED
        BY <4>1, JoinedToNone
    <3>2. Begun(InitStep, P2, k, a, k) /\ 0 <= r.rpos
      BY <1>1, <1>6, <2>1, <3>1
    <3> QED
      BY <1>1, <3>2, NumberedBegun
  <2>2. CASE r.rpos < 0
    <3>1. r.rpos = -1 /\ x = c
      BY <1>1, <2>2
    <3>2. FixedAndCounter(r, n) = Update(FixedBytes(r))
      BY <3>1 DEF FixedAndCounter, FixedBytes
    <3>3. Input(r, n, k) = (c \o k) \o FixedBits(r)
      BY <2>2 DEF Input
    <3>4. Leads(c \o k, Update(FixedBytes(r)), (c \o k) \o FixedBits(r), a, k)
      BY FixedTypes, LeadsByBytes
    <3>5. Leads(c \o k, CounterAt(r, n, 0), c \o k, a, k)
      <4>1. Sequence(c \o k)
        BY <1>2, Joined
      <4>2. Leads(c \o k, CounterAt(r, n, 0), IF r.rpos = 0 THEN (c \o k) \o c ELSE c \o k, a, k)
        BY <4>1, CounterLeads
      <4>3. r.rpos # 0
        BY <3>1
      <4> QED
        BY <4>2, <4>3
    <3> HIDE DEF c, x
    <3>6. Begun(InitStep, P3, c \o k, a, k)
      BY <1>6, <3>1, <3>5, BegunOn
    <3> HIDE DEF P3
    <3> QED
      BY <3>2, <3>3, <3>4, <3>6, BegunOn
  <2> QED
    BY <1>1, <2>1, <2>2
<1> HIDE DEF P4
<1> QED
  BY <1>3, <1>7, BegunEnds

LEMMA PipelineBlockStarts ==
  ASSUME NEW r \in Requests, Promised(r), r.rlen <= RLEN, r.mode = "pipeline",
         NEW n \in Nat, n <= FullBlocks(r), NEW a, Sequence(a), NEW k
  PROVE  \E R : /\ PipelineBlock(r, n) = InitStep \o (UpdateA \o (FinalA \o R))
                /\ KeyPart(R, Input(r, n, a), a, k)
<1> DEFINE S0 == (InitStep \o UpdateA) \o FinalA
           S == S0 \o InitStep
           P1 == S \o UpdateA
           P2 == P1 \o CounterAt(r, n, -1)
           P3 == P2 \o CounterAt(r, n, 0)
           P4 == P3 \o FixedAndCounter(r, n)
<1>1. /\ r.rlen \in Nat /\ r.rpos \in Int /\ 0 <= r.rpos /\ r.rpos <= ByteBits * r.fixed
      /\ r.rpos # -1 /\ BetweenBytes(r)
  <2>1. r.rlen \in Nat /\ r.rpos \in Int
    BY RequestTypes
  <2> QED
    BY <2>1 DEF Promised, RLEN
<1>2. FullBlocks(r) \in Nat
  <2>1. OutBytes(r) \in Int
    BY RequestTypes, Sizes DEF OutBytes, Modulo
  <2>2. OutBytes(r) >= 0
    BY SMTT(30), RequestTypes, Sizes DEF OutBytes, Modulo
  <2> QED
    BY <2>1, <2>2, Sizes DEF FullBlocks
<1>3. PipelineBlock(r, n) = P4 \o FinalKey
  <2>1. ~(n > FullBlocks(r))
    BY <1>2
  <2> QED
    BY <2>1 DEF PipelineBlock
<1>4. /\ Sequence(S0) /\ Sequence(S) /\ Sequence(InitStep) /\ Sequence(UpdateA)
      /\ Sequence(FinalA) /\ Sequence(FinalKey)
  BY StepsAreSequences, Joined
<1>5. Begun(S, P1, a, a, k)
  <2>1. Leads(<<>>, UpdateA, <<>> \o a, a, k) /\ <<>> \o a = a
    BY LeadsByA, JoinedToNone
  <2>2. Begun(S, S, <<>>, a, k)
    BY <1>4, BegunAtStart
  <2> HIDE DEF S
  <2> QED
    BY <2>1, <2>2, BegunOn
<1>6. Begun(S, P2, a, a, k)
  <2>1. Leads(a, CounterAt(r, n, -1), IF r.rpos = -1 THEN a \o Bits(Ctr(n, r.rlen)) ELSE a, a, k)
    BY CounterLeads
  <2>2. Leads(a, CounterAt(r, n, -1), a, a, k)
    BY <1>1, <2>1
  <2> HIDE DEF P1, S
  <2> QED
    BY <1>5, <2>2, BegunOn
<1>7. Begun(S, P4, Input(r, n, a), a, k)
  <2> HIDE DEF P2, S
  <2> QED
    BY <1>1, <1>6, NumberedBegun
<1> HIDE DEF P4
<1>8. PICK U : P4 = Join(S, U) /\ Leads(<<>>, U, Input(r, n, a), a, k)
  BY <1>7 DEF Begun, Join
<1>9. Sequence(U)
  BY <1>8 DEF Leads
<1> DEFINE V == Join(U, FinalKey)
           R == Join(InitStep, V)
<1>10. Sequence(V) /\ Sequence(R)
  BY <1>4, <1>9, JoinIsSequence
<1>11. Join(P4, FinalKey) = Join(S, V)
  BY <1>4, <1>8, <1>9, JoinAssociates
<1>12. Join(S, V) = Join(S0, R)
  <2>1. S = Join(S0, InitStep)
    BY DEF Join
  <2> HIDE DEF S, S0, V
  <2> QED
    BY <1>4, <1>10, <2>1, JoinAssociates
<1>13. Join(S0, R) = Join(InitStep, Join(UpdateA, Join(FinalA, R)))
  <2>1. S0 = Join(Join(InitStep, UpdateA), FinalA)
    BY DEF Join
  <2> HIDE DEF S, S0, V, R
  <2>2. Sequence(Join(InitStep, UpdateA)) /\ Sequence(Join(FinalA, R))
    BY <1>4, <1>10, JoinIsSequence
  <2>3. Join(S0, R) = Join(Join(InitStep, UpdateA), Join(FinalA, R))
    BY <1>4, <1>10, <2>1, <2>2, JoinAssociates
  <2> QED
    BY <1>4, <2>2, <2>3, JoinAssociates
<1>14. KeyPart(R, Input(r, n, a), a, k)
  BY <1>8 DEF KeyPart, Join
<1> HIDE DEF R
<1>15. PipelineBlock(r, n) = InitStep \o (UpdateA \o (FinalA \o R))
  BY <1>3, <1>11, <1>12, <1>13 DEF Join
<1> QED
  BY <1>14, <1>15

LEMMA DivModNat ==
  ASSUME NEW n \in Nat \ {0}, NEW x \in Nat
  PROVE  /\ x \div n \in Nat /\ x % n \in 0..(n - 1)
         /\ x = n * (x \div n) + (x % n)
<1>1. x <= n * x
  OBVIOUS
<1>2. x \div n \in 0..x /\ x % n \in 0..(n - 1) /\ x = n * (x \div n) + (x % n)
  BY <1>1, PlaceIn, Zenon
<1>3. \A d \in 0..x : d \in Nat
  OBVIOUS
<1> QED
  BY <1>2, <1>3, Zenon

-----------------------------------------------------------------------------
(***************************************************************************)
(* The number of blocks and their sizes.                                   *)
(***************************************************************************)
LEMMA BlockSizes ==
  ASSUME NEW r, r.bits \in Nat
  PROVE  /\ FullBlocks(r) \in Nat /\ Leftover(r) \in 0..(HmacSize - 1)
         /\ OutBytes(r) = HmacSize * FullBlocks(r) + Leftover(r)
         /\ BlockCount(r) \in Nat
         /\ BlockCount(r) = IF Leftover(r) > 0 THEN FullBlocks(r) + 1 ELSE FullBlocks(r)
<1>1. OutBytes(r) \in Nat
  BY Sizes DEF OutBytes, Modulo
<1>2. /\ FullBlocks(r) \in Nat /\ Leftover(r) \in 0..(HmacSize - 1)
      /\ OutBytes(r) = HmacSize * FullBlocks(r) + Leftover(r)
  <2>1. PICK bytes \in Nat : bytes = OutBytes(r)
    BY <1>1
  <2>2. bytes \div HmacSize \in Nat /\ bytes % HmacSize \in 0..(HmacSize - 1)
        /\ bytes = HmacSize * (bytes \div HmacSize) + (bytes % HmacSize)
    <3>1. HmacSize \in Nat \ {0}
      BY Sizes
    <3> QED
      BY <3>1, DivModNat
  <2> QED
    BY <2>1, <2>2 DEF FullBlocks, Leftover
<1> QED
  BY <1>2 DEF BlockCount

\* Every block of a call has bits in key_out, and no more than it is long.
LEMMA OutBitsType ==
  ASSUME NEW r, r.bits \in Nat, NEW n \in 1..BlockCount(r)
  PROVE  OutBits(r, n) \in 1..(ByteBits * HmacSize)
<1> DEFINE bytes == IF n <= FullBlocks(r) THEN HmacSize ELSE Leftover(r)
           s == r.bits % ByteBits
<1>1. bytes \in 1..HmacSize
  BY BlockSizes, Sizes
<1>2. s \in 0..(ByteBits - 1) /\ (Modulo(r) = 1 => s > 1)
  BY Sizes DEF Modulo
<1>3. OutBits(r, n) = IF n = BlockCount(r) /\ Modulo(r) = 1
                      THEN ByteBits * (bytes - 1) + s ELSE ByteBits * bytes
  BY DEF OutBits
<1> HIDE DEF bytes, s
<1>4. PICK b \in 1..HmacSize : b = bytes
  BY <1>1
<1>5. ByteBits * b = ByteBits * (b - 1) + ByteBits /\ ByteBits * (b - 1) \in Nat
      /\ ByteBits * HmacSize \in Nat
  BY Sizes
<1>6. ByteBits * b <= ByteBits * HmacSize
  <2>1. b < HmacSize => ByteBits * b + ByteBits <= ByteBits * HmacSize
    BY Sizes, MultiplesApart, b \in Int, HmacSize \in Int
  <2>2. b = HmacSize => ByteBits * b = ByteBits * HmacSize
    OBVIOUS
  <2> QED
    BY Sizes, <1>5, <2>1, <2>2
<1>7. /\ ByteBits * b \in 1..(ByteBits * HmacSize)
      /\ s > 1 => ByteBits * (b - 1) + s \in 1..(ByteBits * HmacSize)
  BY Sizes, <1>2, <1>5, <1>6
<1> QED
  BY <1>2, <1>3, <1>4, <1>7

\* Entry n of the key, and how many there are.
KeyCount(r) ==
  (r.bits \div (ByteBits * HmacSize)) + (IF r.bits % (ByteBits * HmacSize) = 0 THEN 0 ELSE 1)

KeyEntry(r, n) ==
  [block |-> Chain(r)[n].K[1],
   bits  |-> IF n = KeyCount(r) /\ r.bits % (ByteBits * HmacSize) # 0
             THEN r.bits % (ByteBits * HmacSize) ELSE ByteBits * HmacSize]

\* The blocks written are those of the key, unless it ends one bit into a byte.
LEMMA SizesOfKey ==
  ASSUME NEW r, r.bits \in Nat, r.bits % ByteBits # 1
  PROVE  /\ KeyCount(r) = BlockCount(r)
         /\ \A n \in 1..BlockCount(r) : KeyEntry(r, n) = [block |-> Chain(r)[n].K[1], bits |-> OutBits(r, n)]
<1> DEFINE size == ByteBits * HmacSize
           rest == r.bits % size
<1>1. PICK bits \in Nat : bits = r.bits
  OBVIOUS
<1>2. PICK t \in Nat, s \in 0..(ByteBits - 1) :
        t = bits \div ByteBits /\ s = bits % ByteBits /\ bits = ByteBits * t + s
  <2>1. ByteBits \in Nat \ {0}
    BY Sizes
  <2> QED
    BY <2>1, DivModNat
<1>3. PICK u \in Nat, v \in 0..(HmacSize - 1) :
        u = t \div HmacSize /\ v = t % HmacSize /\ t = HmacSize * u + v
  <2>1. HmacSize \in Nat \ {0}
    BY Sizes
  <2> QED
    BY <2>1, DivModNat
<1>4. bits \div size = u /\ rest = ByteBits * v + s
  <2>1. /\ bits \div size = (bits \div ByteBits) \div HmacSize
        /\ bits % size = ByteBits * ((bits \div ByteBits) % HmacSize) + (bits % ByteBits)
    BY Sizes, DivModProduct
  <2> QED
    BY <1>1, <1>2, <1>3, <2>1
<1>5. s # 1
  BY <1>1, <1>2
<1>6. OutBytes(r) = IF s = 0 THEN HmacSize * u + v ELSE HmacSize * u + (v + 1)
  <2>1. Modulo(r) = IF s = 0 THEN 0 ELSE 1
    BY <1>1, <1>2, <1>5 DEF Modulo
  <2>2. OutBytes(r) = t + Modulo(r)
    BY <1>1, <1>2 DEF OutBytes
  <2>3. HmacSize * u \in Nat
    BY Sizes
  <2> QED
    BY <1>3, <2>1, <2>2, <2>3
<1>7. /\ FullBlocks(r) = IF s # 0 /\ v + 1 = HmacSize THEN u + 1 ELSE u
      /\ Leftover(r) = IF s = 0 THEN v ELSE IF v + 1 = HmacSize THEN 0 ELSE v + 1
  <2>1. CASE s = 0
    <3>1. (HmacSize * u + v) \div HmacSize = u /\ (HmacSize * u + v) % HmacSize = v
      BY Sizes, DivModUnique, u \in Int
    <3> QED
      BY <1>6, <2>1, <3>1 DEF FullBlocks, Leftover
  <2>2. CASE s # 0 /\ v + 1 # HmacSize
    <3>1. v + 1 \in 0..(HmacSize - 1) /\ u \in Int
      BY <2>2, Sizes
    <3>2. (HmacSize * u + (v + 1)) \div HmacSize = u /\ (HmacSize * u + (v + 1)) % HmacSize = v + 1
      BY Sizes, <3>1, DivModUnique
    <3> QED
      BY <1>6, <2>2, <3>2 DEF FullBlocks, Leftover
  <2>3. CASE s # 0 /\ v + 1 = HmacSize
    <3>1. 0 \in 0..(HmacSize - 1) /\ u + 1 \in Int
      BY Sizes
    <3>2. (HmacSize * (u + 1) + 0) \div HmacSize = u + 1 /\ (HmacSize * (u + 1) + 0) % HmacSize = 0
      BY Sizes, <3>1, DivModUnique
    <3>3. HmacSize * u + (v + 1) = HmacSize * (u + 1) + 0
      BY Sizes, <2>3
    <3> QED
      BY <1>6, <2>3, <3>2, <3>3 DEF FullBlocks, Leftover
  <2> QED
    BY <2>1, <2>2, <2>3
<1>8. BlockCount(r) = IF s = 0 /\ v = 0 THEN u ELSE u + 1
  BY <1>7, Sizes DEF BlockCount
<1>9. rest = 0 <=> s = 0 /\ v = 0
  <2>1. ByteBits * v \in Nat /\ (v = 0 => ByteBits * v = 0) /\ (v # 0 => ByteBits * v >= ByteBits)
    BY Sizes
  <2> HIDE DEF rest
  <2> QED
    BY <1>4, <2>1, Sizes
<1>10. KeyCount(r) = BlockCount(r)
  BY <1>1, <1>4, <1>8, <1>9 DEF KeyCount
<1>11. ASSUME NEW n \in 1..BlockCount(r)
       PROVE  OutBits(r, n) = IF n = BlockCount(r) /\ rest # 0 THEN rest ELSE size
  <2> DEFINE bytes == IF n <= FullBlocks(r) THEN HmacSize ELSE Leftover(r)
  <2>1. OutBits(r, n) = IF n = BlockCount(r) /\ s # 0
                        THEN ByteBits * (bytes - 1) + s ELSE ByteBits * bytes
    <3>1. Modulo(r) = 1 <=> s # 0
      BY <1>1, <1>2, <1>5 DEF Modulo
    <3> QED
      BY <1>1, <1>2, <3>1 DEF OutBits
  <2> HIDE DEF size, rest
  <2>2. CASE n = BlockCount(r) /\ rest # 0
    <3>1. n = u + 1
      BY <1>8, <1>9, <2>2
    <3>2. IF s = 0 THEN bytes = v ELSE bytes = v + 1
      BY <1>7, <3>1, Sizes
    <3>3. (v + 1) - 1 = v
      OBVIOUS
    <3>4. ByteBits * v + 0 = ByteBits * v
      BY Sizes
    <3> HIDE DEF bytes
    <3> QED
      BY <1>4, <2>1, <2>2, <3>2, <3>3, <3>4
  <2>3. CASE ~(n = BlockCount(r) /\ rest # 0)
    <3>1. n <= u
      BY <1>8, <1>9, <2>3
    <3>2. bytes = HmacSize
      BY <1>7, <3>1
    <3>3. ~(n = BlockCount(r) /\ s # 0)
      BY <1>9, <2>3
    <3> HIDE DEF bytes
    <3> QED
      BY <2>1, <2>3, <3>2, <3>3 DEF size
  <2> QED
    BY <2>2, <2>3
<1> QED
  BY <1>10, <1>11 DEF KeyEntry

\* Every block of a promised request starts as its mode says.
LEMMA BlockStarts ==
  ASSUME NEW r \in Requests, Promised(r), r.rlen <= RLEN, NEW n \in 1..BlockCount(r)
  PROVE  Starting(r, n, BlockSteps(r, n), Chain(r)[n - 1])
<1> DEFINE link == Chain(r)[n - 1]
           a == Prf(link.A)
<1>1. n \in Nat \ {0} /\ n - 1 \in Nat /\ r.bits \in Nat /\ (n - 1 = 0 <=> n = 1)
  BY RequestTypes, BlockSizes
<1>2. Sequence(link.A) /\ Sequence(link.K) /\ (link.K = <<>> <=> n = 1 /\ r.iv = 0)
  <2>1. /\ Sequence(Chain(r)[n - 1].A) /\ Sequence(Chain(r)[n - 1].K)
        /\ Chain(r)[n - 1].K = <<>> <=> n - 1 = 0 /\ r.iv = 0
    BY <1>1, LinkTypes
  <2> QED
    BY <1>1, <2>1
<1> HIDE DEF link
<1>3. CASE r.mode = "counter"
  <2>1. \A x : KeyPart(CounterBlock(r, n), Input(r, n, <<>>), x, link.K)
    BY <1>1, <1>3, CounterBlockStarts
  <2>2. BlockSteps(r, n) = CounterBlock(r, n) /\ Chained(r, link) = <<>>
    BY <1>3 DEF BlockSteps, Chained
  <2> QED
    BY <1>3, <2>1, <2>2 DEF Starting, link
<1>4. CASE r.mode = "feedback"
  <2>1. \A x : KeyPart(FeedbackBlock(r, n), Input(r, n, link.K), x, link.K)
    BY <1>1, <1>2, <1>4, FeedbackBlockStarts
  <2>2. BlockSteps(r, n) = FeedbackBlock(r, n) /\ Chained(r, link) = link.K
    BY <1>4 DEF BlockSteps, Chained
  <2> QED
    BY <1>4, <2>1, <2>2 DEF Starting, link
<1>5. CASE r.mode = "pipeline"
  <2>1. n <= FullBlocks(r)
    <3>1. Leftover(r) = 0
      BY <1>5, RequestTypes DEF Promised, RLEN
    <3>2. BlockCount(r) = FullBlocks(r) /\ BlockCount(r) \in Nat
      BY <1>1, <3>1, BlockSizes
    <3> QED
      BY <3>2
  <2>2. Sequence(a)
    BY PrfType
  <2>3. \E R : /\ PipelineBlock(r, n) = InitStep \o (UpdateA \o (FinalA \o R))
               /\ KeyPart(R, Input(r, n, a), a, link.K)
    BY <1>1, <1>5, <2>1, <2>2, PipelineBlockStarts
  <2>4. BlockSteps(r, n) = PipelineBlock(r, n)
    BY <1>5 DEF BlockSteps
  <2> QED
    BY <1>5, <2>3, <2>4 DEF Starting, link
<1> QED
  BY <1>3, <1>4, <1>5, RequestTypes DEF Modes

\* The key has an entry for each block.
Entries(r) == {KeyEntry(r, n) : n \in 1..KeyCount(r)}

LEMMA KeyIsSequence ==
  ASSUME NEW r, r.bits \in Nat
  PROVE  /\ KeyCount(r) \in Nat
         /\ DerivedKey(r) \in Seq(Entries(r)) /\ Len(DerivedKey(r)) = KeyCount(r)
         /\ \A n \in 1..KeyCount(r) : DerivedKey(r)[n] = KeyEntry(r, n)
<1> DEFINE key == [n \in 1..KeyCount(r) |-> KeyEntry(r, n)]
<1>1. KeyCount(r) \in Nat
  <2>1. PICK size \in Nat \ {0} : size = ByteBits * HmacSize
    BY Sizes
  <2>2. PICK bits \in Nat : bits = r.bits
    OBVIOUS
  <2>3. bits \div size \in Nat
    BY DivModNat
  <2> QED
    BY <2>1, <2>2, <2>3 DEF KeyCount
<1>2. DerivedKey(r) = key
  BY DEF DerivedKey, KeyCount, KeyEntry
<1>3. key \in [1..KeyCount(r) -> Entries(r)] /\ \A n \in 1..KeyCount(r) : key[n] = KeyEntry(r, n)
  BY DEF Entries
<1> HIDE DEF key
<1>4. key \in Seq(Entries(r)) /\ Len(key) = KeyCount(r)
  BY <1>1, <1>3, FunctionIsSeq
<1> QED
  BY <1>1, <1>2, <1>3, <1>4

-----------------------------------------------------------------------------
(***************************************************************************)
(* Type correctness.                                                       *)
(***************************************************************************)
Steps(x) == Sequence(x) /\ \A n \in 1..Len(x) : Head(x[n]) \in {"init", "update", "final"}

LEMMA FewSteps ==
  /\ Steps(<<>>) /\ Steps(InitStep) /\ Steps(UpdatePrev) /\ Steps(UpdateA)
  /\ Steps(FinalA) /\ Steps(FinalKey)
  /\ \A bytes : Steps(Update(bytes))
<1>1. Steps(<<>>)
  BY FewAreSequences, Len(<<>>) = 0 DEF Steps
<1>2. ASSUME NEW u, Head(u) \in {"init", "update", "final"} PROVE Steps(<<u>>)
  BY <1>2, FewAreSequences DEF Steps
<1>3. /\ Head(<<"init">>) = "init"
      /\ Head(<<"update", "prev">>) = "update" /\ Head(<<"update", "A">>) = "update"
      /\ Head(<<"final", "A">>) = "final" /\ Head(<<"final", "key">>) = "final"
  OBVIOUS
<1>4. ASSUME NEW bytes PROVE Steps(Update(bytes))
  <2>1. Head(<<"update", "bytes", bytes>>) = "update"
    OBVIOUS
  <2> QED
    BY <1>2, <2>1 DEF Update
<1> QED
  BY <1>1, <1>2, <1>3, <1>4 DEF InitStep, UpdatePrev, UpdateA, FinalA, FinalKey

LEMMA StepsJoin == \A x, y : Steps(x) /\ Steps(y) => Steps(x \o y)
<1> SUFFICES ASSUME NEW x, NEW y, Steps(x), Steps(y) PROVE Steps(x \o y)
  OBVIOUS
<1> DEFINE l == Len(x)
           m == Len(y)
           xy == x \o y
<1>1. /\ Sequence(xy) /\ l \in Nat /\ m \in Nat /\ Len(xy) = l + m
      /\ \A n \in 1..l : xy[n] = x[n]
      /\ \A n \in 1..m : xy[l + n] = y[n]
  BY Joined DEF Steps
<1>2. /\ \A n \in 1..l : Head(x[n]) \in {"init", "update", "final"}
      /\ \A n \in 1..m : Head(y[n]) \in {"init", "update", "final"}
  BY DEF Steps
<1> HIDE DEF l, m, xy
<1>3. ASSUME NEW n \in 1..(l + m) PROVE Head(xy[n]) \in {"init", "update", "final"}
  <2>1. CASE n <= l
    <3>1. n \in 1..l
      BY <1>1, <2>1
    <3> QED
      BY <1>1, <1>2, <3>1
  <2>2. CASE ~(n <= l)
    <3>1. PICK j \in 1..m : n = l + j
      <4>1. n - l \in 1..m /\ n = l + (n - l)
        BY <1>1, <2>2
      <4> QED
        BY <4>1
    <3> QED
      BY <1>1, <1>2, <3>1
  <2> QED
    BY <2>1, <2>2
<1> QED
  BY <1>1, <1>3 DEF Steps, xy

LEMMA StepsWhen == \A cond, x : Steps(x) => Steps(When(cond, x))
BY FewSteps DEF When

LEMMA BlockStepsType ==
  ASSUME NEW r, r.mode \in Modes, NEW n
  PROVE  Steps(BlockSteps(r, n))
<1>1. Steps(CounterBlock(r, n))
  BY FewSteps, StepsJoin, StepsWhen DEF CounterBlock
<1>2. \A pos : Steps(CounterAt(r, n, pos))
  BY FewSteps, StepsWhen DEF CounterAt
<1>3. Steps(FixedAndCounter(r, n))
  BY FewSteps, StepsJoin, StepsWhen DEF FixedAndCounter
<1>4. Steps(FeedbackBlock(r, n))
  BY <1>2, <1>3, FewSteps, StepsJoin, StepsWhen DEF FeedbackBlock
<1>5. Steps(PipelineBlock(r, n))
  BY <1>2, <1>3, FewSteps, StepsJoin, StepsWhen DEF PipelineBlock
<1> QED
  BY <1>1, <1>4, <1>5 DEF BlockSteps, Modes

LEMMA StepsLeft ==
  ASSUME NEW x, Steps(x), x # <<>>
  PROVE  Steps(Tail(x))
<1>1. PICK S : x \in Seq(S)
  BY DEF Steps, Sequence
<1>2. /\ Tail(x) \in Seq(S) /\ Len(Tail(x)) = Len(x) - 1 /\ Len(x) \in Nat
      /\ \A n \in 1..(Len(x) - 1) : Tail(x)[n] = x[n + 1]
  BY <1>1, HeadTailProperties, LenProperties
<1>3. ASSUME NEW n \in 1..(Len(x) - 1) PROVE Head(Tail(x)[n]) \in {"init", "update", "final"}
  <2>1. n + 1 \in 1..Len(x)
    BY <1>2
  <2>2. Tail(x)[n] = x[n + 1]
    BY <1>2
  <2> QED
    BY <2>1, <2>2 DEF Steps
<1> QED
  BY <1>2, <1>3 DEF Steps, Sequence

LEMMA Appended ==
  ASSUME NEW x, Sequence(x), NEW e
  PROVE  /\ Sequence(Append(x, e)) /\ Len(x) \in Nat /\ Len(Append(x, e)) = Len(x) + 1
         /\ \A n \in 1..Len(x) : Append(x, e)[n] = x[n]
         /\ Append(x, e)[Len(x) + 1] = e
<1>1. PICK S : x \in Seq(S)
  BY DEF Sequence
<1> DEFINE V == S \cup {e}
<1>2. x \in Seq(V) /\ e \in V /\ Len(x) \in Nat
  BY <1>1, LenProperties
<1> HIDE DEF V
<1>3. /\ Append(x, e) \in Seq(V) /\ Len(Append(x, e)) = Len(x) + 1
      /\ \A n \in 1..Len(x) : Append(x, e)[n] = x[n]
      /\ Append(x, e)[Len(x) + 1] = e
  BY <1>2, AppendProperties
<1> QED
  BY <1>2, <1>3 DEF Sequence

TypeInv ==
  /\ TypeOK
  /\ Steps(todo) /\ Sequence(out)
  /\ ~idle => req \in Requests /\ i \in 1..BlockCount(req)

LEMMA CountOfRequest ==
  \A r \in Requests \cup {NoRequest} : r.bits \in Nat /\ BlockCount(r) \in Nat
<1> SUFFICES ASSUME NEW r \in Requests \cup {NoRequest} PROVE r.bits \in Nat /\ BlockCount(r) \in Nat
  OBVIOUS
<1>1. r.bits \in Nat
  BY RequestTypes DEF NoRequest
<1> QED
  BY <1>1, BlockSizes

LEMMA TypeInvInit == Init => TypeInv
<1> SUFFICES ASSUME Init PROVE TypeInv
  OBVIOUS
<1>1. Steps(<<>>) /\ Sequence(<<>>) /\ Len(<<>>) = 0
  BY FewSteps, FewAreSequences
<1>2. i \in 0..(BlockCount(req) + 1)
  BY CountOfRequest DEF Init
<1> QED
  BY <1>1, <1>2, KbkdfAssumption DEF Init, TypeInv, TypeOK, idle, Steps

LEMMA TypeInvNext == TypeInv /\ [Next]_vars => TypeInv'
<1> SUFFICES ASSUME TypeInv, [Next]_vars
             PROVE  TypeInv'
  OBVIOUS
<1>1. /\ req \in Requests \cup {NoRequest} /\ i \in 0..(BlockCount(req) + 1) /\ BlockCount(req) \in Nat
      /\ Steps(todo) /\ Sequence(out)
      /\ \A k \in 1..Len(out) : out[k].bits \in 1..(ByteBits * HmacSize)
      /\ status \in {"OK", "FAIL"}
      /\ calls \in 0..MaxCalls /\ faults \in 0..MaxFaults
      /\ todo # <<>> => req \in Requests /\ i \in 1..BlockCount(req)
  BY CountOfRequest DEF TypeInv, TypeOK, idle
<1>2. Steps(<<>>) /\ Sequence(<<>>) /\ Len(<<>>) = 0
  BY FewSteps, FewAreSequences
<1>3. MaxCalls \in Nat /\ MaxFaults \in Nat
  BY KbkdfAssumption
<1>4. ASSUME /\ req' \in Requests \cup {NoRequest} /\ i' \in 0..(BlockCount(req') + 1)
             /\ Steps(todo') /\ Sequence(out')
             /\ \A k \in 1..Len(out') : out'[k].bits \in 1..(ByteBits * HmacSize)
             /\ status' \in {"OK", "FAIL"}
             /\ calls' \in 0..MaxCalls /\ faults' \in 0..MaxFaults
             /\ todo' # <<>> => req' \in Requests /\ i' \in 1..BlockCount(req')
      PROVE  TypeInv'
  BY <1>4 DEF TypeInv, TypeOK, idle, Steps
<1>5. ASSUME NEW r \in Requests, Call(r)
      PROVE  TypeInv'
  <2>1. r.mode \in Modes /\ BlockCount(r) \in Nat
    BY RequestTypes, CountOfRequest
  <2>2. Steps(BlockSteps(r, 1))
    BY <2>1, BlockStepsType
  <2>3. /\ req' = r /\ out' = <<>> /\ calls' = calls + 1 /\ calls < MaxCalls /\ faults' = faults
        /\ status' \in {"OK", "FAIL"}
        /\ i' \in {0, 1}
        /\ todo' = <<>> \/ (BlockCount(r) # 0 /\ todo' = BlockSteps(r, 1) /\ i' = 1)
    BY <1>5 DEF Call
  <2>4. i' \in 0..(BlockCount(r) + 1) /\ calls' \in 0..MaxCalls
        /\ (todo' # <<>> => i' \in 1..BlockCount(r))
    BY <1>1, <1>3, <2>1, <2>3
  <2> QED
    BY <1>1, <1>2, <1>4, <2>2, <2>3, <2>4
<1>6. ASSUME todo # <<>>, todo' = Tail(todo), UNCHANGED <<req, i, out, status, calls, faults>>
      PROVE  TypeInv'
  BY <1>1, <1>4, <1>6, StepsLeft
<1>7. CASE HmacInit
  BY <1>6, <1>7 DEF HmacInit, idle
<1>8. CASE HmacUpdate
  BY <1>6, <1>8 DEF HmacUpdate, idle
<1>9. CASE HmacRefuses
  BY <1>1, <1>2, <1>4, <1>9 DEF HmacRefuses
<1>10. CASE HmacFinalA
  BY <1>6, <1>10 DEF HmacFinalA, idle
<1>11. CASE HmacFinalKey
  <2> DEFINE e == [block |-> <<"prf", prf>>, bits |-> OutBits(req, i)]
  <2>1. todo # <<>> /\ req \in Requests /\ i \in 1..BlockCount(req) /\ req.bits \in Nat /\ req.mode \in Modes
    BY <1>1, <1>11, RequestTypes DEF HmacFinalKey, idle
  <2>2. e.bits \in 1..(ByteBits * HmacSize)
    BY <2>1, OutBitsType
  <2> HIDE DEF e
  <2>3. /\ Sequence(Append(out, e)) /\ Len(out) \in Nat /\ Len(Append(out, e)) = Len(out) + 1
        /\ \A n \in 1..Len(out) : Append(out, e)[n] = out[n]
        /\ Append(out, e)[Len(out) + 1] = e
    BY <1>1, Appended
  <2>4. \A k \in 1..Len(Append(out, e)) : Append(out, e)[k].bits \in 1..(ByteBits * HmacSize)
    <3> TAKE k \in 1..Len(Append(out, e))
    <3>1. k \in 1..Len(out) \/ k = Len(out) + 1
      BY <2>3
    <3> QED
      BY <1>1, <2>2, <2>3, <3>1
  <2>5. /\ out' = Append(out, e) /\ i' = i + 1
        /\ todo' = IF i < BlockCount(req) THEN BlockSteps(req, i + 1) ELSE <<>>
        /\ UNCHANGED <<req, status, calls, faults>>
    BY <1>11 DEF HmacFinalKey, e
  <2>6. Steps(BlockSteps(req, i + 1))
    BY <2>1, BlockStepsType
  <2>7. i' \in 0..(BlockCount(req) + 1) /\ (i < BlockCount(req) => i' \in 1..BlockCount(req))
    BY <1>1, <2>1, <2>5
  <2> QED
    BY <1>1, <1>2, <1>4, <2>1, <2>3, <2>4, <2>5, <2>6, <2>7
<1>12. CASE CallbackFails
  <2>1. faults' \in 0..MaxFaults
    BY <1>1, <1>3, <1>12 DEF CallbackFails
  <2> QED
    BY <1>1, <1>2, <1>4, <1>12, <2>1 DEF CallbackFails
<1>13. CASE UNCHANGED vars
  BY <1>1, <1>4, <1>13 DEF vars
<1> QED
  BY <1>5, <1>7, <1>8, <1>9, <1>10, <1>11, <1>12, <1>13 DEF Next

(***************************************************************************)
(* Whatever a caller asks for, promised or not, and wherever a callback    *)
(* fails: a block never has more bits in key_out than the PRF gives, or    *)
(* none, also at the end of the key (kbkdf.c:105-191), and the number of   *)
(* the block stays within the loop.                                        *)
(***************************************************************************)
THEOREM TypeCorrect == Spec => []TypeOK
<1>1. TypeInv => TypeOK
  BY DEF TypeInv
<1> QED
  BY <1>1, TypeInvInit, TypeInvNext, PTL DEF Spec

-----------------------------------------------------------------------------
(***************************************************************************)
(* Where a block stands: callbacks t are still to make, the HMAC has       *)
(* absorbed p, and a is in A.  Double pipeline mode first computes the     *)
(* next A; then the input of the key is absorbed.                          *)
(***************************************************************************)
Goal(r, n, link) == Input(r, n, Chained(r, link))

BeforeA(r, n, link, R) ==
  r.mode = "pipeline" /\ KeyPart(R, Goal(r, n, link), Prf(link.A), link.K)

HasA(r, link, a) == r.mode = "pipeline" => a = Prf(link.A)

Ends(r, n, link, t, p, a) == \E U : t = U \o FinalKey /\ Leads(p, U, Goal(r, n, link), a, link.K)

Doing(r, n, link, t, p, a) ==
  \/ \E R : BeforeA(r, n, link, R) /\ a = link.A /\ t = InitStep \o (UpdateA \o (FinalA \o R))
  \/ \E R : BeforeA(r, n, link, R) /\ a = link.A /\ t = UpdateA \o (FinalA \o R) /\ p = <<>>
  \/ \E R : BeforeA(r, n, link, R) /\ a = link.A /\ t = FinalA \o R /\ p = link.A
  \/ HasA(r, link, a) /\ KeyPart(t, Goal(r, n, link), a, link.K)
  \/ HasA(r, link, a) /\ Ends(r, n, link, t, p, a)

LEMMA KeyPartStarts ==
  ASSUME NEW R, NEW goal, NEW a, NEW k, KeyPart(R, goal, a, k)
  PROVE  /\ Sequence(R) /\ Head(R) = <<"init">>
         /\ \E U : Tail(R) = U \o FinalKey /\ Leads(<<>>, U, goal, a, k)
<1>1. PICK U : R = InitStep \o (U \o FinalKey) /\ Leads(<<>>, U, goal, a, k)
  BY DEF KeyPart
<1>2. Sequence(U \o FinalKey)
  BY <1>1, StepsAreSequences, Joined DEF Leads
<1> DEFINE x == U \o FinalKey
           u == <<"init">>
<1> HIDE DEF x, u
<1>3. R = <<u>> \o x /\ Sequence(x)
  BY <1>1, <1>2 DEF InitStep, x, u
<1>4. Sequence(R) /\ Head(R) = u /\ Tail(R) = x
  BY <1>3, HeadAndTail
<1> QED
  BY <1>1, <1>4 DEF x, u

\* The six things that can be next.
InitsA(r, n, link, t, p, a) ==
  /\ Head(t) = <<"init">> /\ a = link.A
  /\ \E R : BeforeA(r, n, link, R) /\ Tail(t) = UpdateA \o (FinalA \o R)

UpdatesA(r, n, link, t, p, a) ==
  /\ Head(t) = <<"update", "A">> /\ a = link.A /\ p = <<>>
  /\ \E R : BeforeA(r, n, link, R) /\ Tail(t) = FinalA \o R

EndsA(r, n, link, t, p, a) ==
  /\ Head(t) = <<"final", "A">> /\ a = link.A /\ p = link.A
  /\ BeforeA(r, n, link, Tail(t))

InitsKey(r, n, link, t, p, a) ==
  /\ Head(t) = <<"init">> /\ HasA(r, link, a)
  /\ Ends(r, n, link, Tail(t), <<>>, a)

UpdatesKey(r, n, link, t, p, a) ==
  /\ Head(t)[1] = "update" /\ HasA(r, link, a)
  /\ Ends(r, n, link, Tail(t), p \o Given(Head(t), a, link.K), a)

EndsKey(r, n, link, t, p, a) ==
  /\ Head(t) = <<"final", "key">> /\ HasA(r, link, a)
  /\ p = Goal(r, n, link)

LEMMA WhatIsNext ==
  ASSUME NEW r, NEW n, NEW link, NEW t, NEW p, NEW a, Doing(r, n, link, t, p, a)
  PROVE  \/ InitsA(r, n, link, t, p, a) \/ UpdatesA(r, n, link, t, p, a)
         \/ EndsA(r, n, link, t, p, a) \/ InitsKey(r, n, link, t, p, a)
         \/ UpdatesKey(r, n, link, t, p, a) \/ EndsKey(r, n, link, t, p, a)
<1>1. ASSUME NEW R, BeforeA(r, n, link, R)
      PROVE  Sequence(R) /\ Sequence(FinalA \o R) /\ Sequence(UpdateA \o (FinalA \o R))
  BY <1>1, KeyPartStarts, StepsAreSequences, Joined DEF BeforeA
<1>2. \A u, x : Sequence(x) => Head(<<u>> \o x) = u /\ Tail(<<u>> \o x) = x
  BY HeadAndTail
<1>3. CASE \E R : BeforeA(r, n, link, R) /\ a = link.A /\ t = InitStep \o (UpdateA \o (FinalA \o R))
  <2>1. PICK R : BeforeA(r, n, link, R) /\ a = link.A /\ t = InitStep \o (UpdateA \o (FinalA \o R))
    BY <1>3
  <2> DEFINE x == UpdateA \o (FinalA \o R)
  <2>2. t = <<<<"init">>>> \o x /\ Sequence(x)
    BY <1>1, <2>1 DEF InitStep
  <2> HIDE DEF x
  <2>3. Head(t) = <<"init">> /\ Tail(t) = x
    BY <1>2, <2>2
  <2>4. InitsA(r, n, link, t, p, a)
    BY <2>1, <2>3 DEF InitsA, x
  <2> QED
    BY <2>4
<1>4. CASE \E R : BeforeA(r, n, link, R) /\ a = link.A /\ t = UpdateA \o (FinalA \o R) /\ p = <<>>
  <2>1. PICK R : BeforeA(r, n, link, R) /\ a = link.A /\ t = UpdateA \o (FinalA \o R) /\ p = <<>>
    BY <1>4
  <2> DEFINE x == FinalA \o R
  <2>2. t = <<<<"update", "A">>>> \o x /\ Sequence(x)
    BY <1>1, <2>1 DEF UpdateA
  <2> HIDE DEF x
  <2>3. Head(t) = <<"update", "A">> /\ Tail(t) = x
    BY <1>2, <2>2
  <2>4. UpdatesA(r, n, link, t, p, a)
    BY <2>1, <2>3 DEF UpdatesA, x
  <2> QED
    BY <2>4
<1>5. CASE \E R : BeforeA(r, n, link, R) /\ a = link.A /\ t = FinalA \o R /\ p = link.A
  <2>1. PICK R : BeforeA(r, n, link, R) /\ a = link.A /\ t = FinalA \o R /\ p = link.A
    BY <1>5
  <2>2. Head(t) = <<"final", "A">> /\ Tail(t) = R
    BY <1>1, <1>2, <2>1 DEF FinalA
  <2>3. EndsA(r, n, link, t, p, a)
    BY <2>1, <2>2 DEF EndsA
  <2> QED
    BY <2>3
<1>6. CASE HasA(r, link, a) /\ KeyPart(t, Goal(r, n, link), a, link.K)
  <2>1. InitsKey(r, n, link, t, p, a)
    BY <1>6, KeyPartStarts DEF Ends, InitsKey
  <2> QED
    BY <2>1
<1>7. CASE HasA(r, link, a) /\ Ends(r, n, link, t, p, a)
  <2>1. PICK U : t = U \o FinalKey /\ Leads(p, U, Goal(r, n, link), a, link.K)
    BY <1>7 DEF Ends
  <2>2. CASE U = <<>> /\ p = Goal(r, n, link)
    <3>1. t = FinalKey
      BY <2>1, <2>2, StepsAreSequences, JoinedToNone
    <3>2. Head(FinalKey) = <<"final", "key">>
      BY DEF FinalKey
    <3>3. EndsKey(r, n, link, t, p, a)
      BY <1>7, <2>2, <3>1, <3>2 DEF EndsKey
    <3> QED
      BY <3>3
  <2>3. CASE \E u, V : /\ U = <<u>> \o V /\ u[1] = "update"
                       /\ Leads(p \o Given(u, a, link.K), V, Goal(r, n, link), a, link.K)
    <3>1. PICK u, V : /\ U = Join(<<u>>, V) /\ u[1] = "update"
                      /\ Leads(p \o Given(u, a, link.K), V, Goal(r, n, link), a, link.K)
      BY <2>3 DEF Join
    <3>2. Sequence(V) /\ Sequence(<<u>>) /\ Sequence(FinalKey)
      BY <3>1, StepsAreSequences, FewAreSequences DEF Leads
    <3>3. t = Join(<<u>>, Join(V, FinalKey)) /\ Sequence(Join(V, FinalKey))
      BY <2>1, <3>1, <3>2, JoinAssociates, JoinIsSequence DEF Join
    <3>4. Head(t) = u /\ Tail(t) = V \o FinalKey
      BY <1>2, <3>3 DEF Join
    <3>5. Ends(r, n, link, Tail(t), p \o Given(u, a, link.K), a)
      BY <3>1, <3>4 DEF Ends
    <3>6. UpdatesKey(r, n, link, t, p, a)
      BY <1>7, <3>1, <3>4, <3>5 DEF UpdatesKey
    <3> QED
      BY <3>6
  <2>4. \/ U = <<>> /\ p = Goal(r, n, link)
        \/ \E u, V : /\ U = <<u>> \o V /\ u[1] = "update"
                     /\ Leads(p \o Given(u, a, link.K), V, Goal(r, n, link), a, link.K)
    BY <2>1, LeadsOn, ZenonT(40)
  <2> QED
    BY <2>2, <2>3, <2>4
<1> QED
  BY <1>3, <1>4, <1>5, <1>6, <1>7 DEF Doing

LEMMA HeadsDiffer ==
  /\ <<"init">>[1] = "init" /\ <<"update", "A">>[1] = "update"
  /\ <<"final", "A">>[1] = "final" /\ <<"final", "key">>[1] = "final"
  /\ <<"final", "A">>[2] = "A" /\ <<"final", "key">>[2] = "key"
OBVIOUS

LEMMA DoingInit ==
  ASSUME NEW r, NEW n, NEW link, NEW t, NEW p, NEW a, Doing(r, n, link, t, p, a),
         Head(t) = <<"init">>
  PROVE  Doing(r, n, link, Tail(t), <<>>, a)
<1>1. InitsA(r, n, link, t, p, a) \/ InitsKey(r, n, link, t, p, a)
  BY WhatIsNext, HeadsDiffer DEF UpdatesA, EndsA, UpdatesKey, EndsKey
<1> QED
  BY <1>1 DEF InitsA, InitsKey, Doing

LEMMA DoingUpdate ==
  ASSUME NEW r, NEW n, NEW link, NEW t, NEW p, NEW a, Doing(r, n, link, t, p, a),
         Head(t)[1] = "update", Sequence(link.A)
  PROVE  Doing(r, n, link, Tail(t), p \o Given(Head(t), a, link.K), a)
<1>1. UpdatesA(r, n, link, t, p, a) \/ UpdatesKey(r, n, link, t, p, a)
  BY WhatIsNext, HeadsDiffer DEF InitsA, EndsA, InitsKey, EndsKey
<1>2. <<>> \o link.A = link.A
  BY JoinedToNone
<1>3. Given(<<"update", "A">>, a, link.K) = a
  BY <<"update", "A">>[2] = "A" DEF Given
<1>4. CASE UpdatesA(r, n, link, t, p, a)
  <2>1. p \o Given(Head(t), a, link.K) = link.A
    BY <1>2, <1>3, <1>4 DEF UpdatesA
  <2> QED
    BY <1>4, <2>1 DEF UpdatesA, Doing
<1>5. CASE UpdatesKey(r, n, link, t, p, a)
  BY <1>5 DEF UpdatesKey, Doing
<1> QED
  BY <1>1, <1>4, <1>5

LEMMA DoingFinalA ==
  ASSUME NEW r, NEW n, NEW link, NEW t, NEW p, NEW a, Doing(r, n, link, t, p, a),
         Head(t) = <<"final", "A">>
  PROVE  Doing(r, n, link, Tail(t), <<>>, Prf(p))
<1>1. EndsA(r, n, link, t, p, a)
  BY WhatIsNext, HeadsDiffer DEF InitsA, UpdatesA, InitsKey, UpdatesKey, EndsKey
<1> QED
  BY <1>1 DEF EndsA, Doing, BeforeA, HasA

LEMMA DoingFinalKey ==
  ASSUME NEW r, NEW n, NEW link, NEW t, NEW p, NEW a, Doing(r, n, link, t, p, a),
         Head(t) = <<"final", "key">>
  PROVE  HasA(r, link, a) /\ p = Goal(r, n, link)
<1>1. EndsKey(r, n, link, t, p, a)
  BY WhatIsNext, HeadsDiffer DEF InitsA, UpdatesA, EndsA, InitsKey, UpdatesKey
<1> QED
  BY <1>1 DEF EndsKey

LEMMA DoingStarts ==
  ASSUME NEW r, NEW n, NEW link, NEW t, NEW p, NEW a, Starting(r, n, t, link),
         r.mode = "pipeline" => a = link.A
  PROVE  Doing(r, n, link, t, p, a)
<1>1. CASE r.mode = "pipeline"
  <2>1. Goal(r, n, link) = Input(r, n, Prf(link.A))
    BY <1>1 DEF Goal, Chained
  <2> QED
    BY <1>1, <2>1 DEF Starting, Doing, BeforeA
<1>2. CASE r.mode # "pipeline"
  BY <1>2 DEF Starting, Doing, HasA, Goal
<1> QED
  BY <1>1, <1>2

LEMMA DoingIsBusy ==
  ASSUME NEW r, NEW n, NEW link, NEW t, NEW p, NEW a, Doing(r, n, link, t, p, a)
  PROVE  t # <<>>
<1>1. \A u, x : Sequence(x) => <<u>> \o x # <<>>
  BY HeadAndTail
<1>2. ASSUME NEW R, NEW goal, NEW b, NEW k, KeyPart(R, goal, b, k)
      PROVE  R # <<>> /\ Sequence(R)
  <2>1. PICK U : R = InitStep \o (U \o FinalKey) /\ Sequence(U \o FinalKey)
    BY <1>2, StepsAreSequences, Joined DEF KeyPart, Leads
  <2> DEFINE x == U \o FinalKey
  <2> HIDE DEF x
  <2>2. R = InitStep \o x /\ Sequence(x)
    BY <2>1 DEF x
  <2>3. Sequence(InitStep \o x)
    BY <2>2, StepsAreSequences, Joined
  <2> QED
    BY <1>1, <2>2, <2>3 DEF InitStep
<1>3. ASSUME NEW R, BeforeA(r, n, link, R)
      PROVE  Sequence(R) /\ Sequence(FinalA \o R) /\ Sequence(UpdateA \o (FinalA \o R))
  BY <1>2, <1>3, StepsAreSequences, Joined DEF BeforeA
<1>4. ASSUME NEW U, Sequence(U)
      PROVE  U \o FinalKey # <<>>
  <2>1. Len(U \o FinalKey) = Len(U) + Len(FinalKey) /\ Len(U) \in Nat /\ Len(FinalKey) = 1
    BY <1>4, StepsAreSequences, Joined DEF FinalKey
  <2>2. Len(U \o FinalKey) # 0
    BY <2>1
  <2> QED
    BY <2>2, Len(<<>>) = 0
<1>5. ASSUME NEW R, BeforeA(r, n, link, R)
      PROVE  /\ InitStep \o (UpdateA \o (FinalA \o R)) # <<>>
             /\ UpdateA \o (FinalA \o R) # <<>> /\ FinalA \o R # <<>>
  <2> DEFINE x == FinalA \o R
             y == UpdateA \o x
  <2>1. Sequence(R) /\ Sequence(x) /\ Sequence(y)
    BY <1>3, <1>5
  <2>2. FinalA \o R # <<>>
    BY <1>1, <2>1 DEF FinalA
  <2> HIDE DEF x
  <2>3. UpdateA \o x # <<>>
    BY <1>1, <2>1 DEF UpdateA
  <2> HIDE DEF y
  <2>4. InitStep \o y # <<>>
    BY <1>1, <2>1 DEF InitStep
  <2> QED
    BY <2>2, <2>3, <2>4 DEF x, y
<1> QED
  BY <1>2, <1>4, <1>5 DEF Doing, Ends, Leads

-----------------------------------------------------------------------------
(***************************************************************************)
(* The inductive invariant: where the call is in the computation of block  *)
(* i, from the link of the chain before it; what is written; and how much  *)
(* of the key that is when a call has succeeded.                           *)
(***************************************************************************)
Link == Chain(req)[i - 1]

Working ==
  ~idle =>
    /\ status = "OK" /\ req.rlen <= RLEN
    /\ Len(out) = i - 1
    /\ prev = Link.K
    /\ Doing(req, i, Link, todo, prf, A)

Written ==
  /\ Len(out) <= KeyCount(req)
  /\ \A n \in 1..Len(out) : out[n] = KeyEntry(req, n)

Stopped == idle /\ status = "OK" => Len(out) = KeyCount(req)

IInv == TypeInv /\ Working /\ Written /\ Stopped

\* A request that the code is not right for may be under way, or come later.
CInv == TypeInv /\ (Promised(req) => IInv)

LEMMA GoesOn ==
  ASSUME TypeInv', Written', status' = "OK", req'.rlen <= RLEN, Len(out') = i' - 1,
         prev' = Link'.K, Doing(req', i', Link', todo', prf', A')
  PROVE  IInv'
<1>1. todo' # <<>>
  BY DoingIsBusy
<1> QED
  BY <1>1 DEF IInv, Working, Stopped, idle

LEMMA GivesUp ==
  ASSUME TypeInv', Written', todo' = <<>>, status' = "FAIL"
  PROVE  IInv'
BY DEF IInv, Working, Stopped, idle

LEMMA InitIInv == Init => IInv
<1> SUFFICES ASSUME Init PROVE IInv
  OBVIOUS
<1>1. NoRequest.bits = 0 /\ 0 % ByteBits # 1
  <2>1. 0 % ByteBits = 0
    BY Sizes, SmallMod, 0 \in 0..(ByteBits - 1)
  <2> QED
    BY <2>1 DEF NoRequest
<1>2. KeyCount(NoRequest) = BlockCount(NoRequest)
  BY <1>1, SizesOfKey
<1>3. BlockCount(NoRequest) = 0
  <2>1. OutBytes(NoRequest) = 0
    <3>1. 0 % ByteBits = 0 /\ 0 \div ByteBits = 0
      BY Sizes, SmallMod, 0 \in 0..(ByteBits - 1)
    <3> QED
      BY <1>1, <3>1 DEF OutBytes, Modulo
  <2>2. 0 % HmacSize = 0 /\ 0 \div HmacSize = 0
    BY Sizes, SmallMod, 0 \in 0..(HmacSize - 1)
  <2> QED
    BY <2>1, <2>2 DEF BlockCount, FullBlocks, Leftover
<1>4. Len(out) = 0
  BY DEF Init
<1> QED
  BY <1>2, <1>3, <1>4, TypeInvInit DEF Init, IInv, Working, Written, Stopped, idle

LEMMA CountOfKey ==
  ASSUME NEW r \in Requests, Promised(r), r.rlen <= RLEN
  PROVE  /\ KeyCount(r) = BlockCount(r)
         /\ \A n \in 1..BlockCount(r) : KeyEntry(r, n) = [block |-> Chain(r)[n].K[1], bits |-> OutBits(r, n)]
<1>1. r.bits \in Nat /\ r.bits % ByteBits # 1
  BY RequestTypes DEF Promised, RLEN
<1> QED
  BY <1>1, SizesOfKey

LEMMA CallKeepsIInv ==
  ASSUME TypeInv', NEW r \in Requests, Promised(r), Call(r)
  PROVE  IInv'
<1>1. /\ req' = r /\ out' = <<>> /\ A' = FixedBits(r)
      /\ prev' = (IF r.iv > 0 THEN <<IV>> ELSE <<>>)
  BY DEF Call
<1>2. Len(out') = 0
  BY <1>1
<1>3. r.bits \in Nat /\ r.rlen \in Nat /\ BlockCount(r) \in Nat /\ KeyCount(r) \in Nat
  BY RequestTypes, CountOfRequest, KeyIsSequence
<1>4. Written'
  BY <1>1, <1>2, <1>3 DEF Written
<1>5. CASE r.rlen > RLEN
  <2>1. status' = "FAIL" /\ todo' = <<>>
    BY <1>5 DEF Call
  <2> QED
    BY <1>4, <2>1, GivesUp
<1>6. CASE ~(r.rlen > RLEN) /\ BlockCount(r) = 0
  <2>1. todo' = <<>>
    BY <1>6 DEF Call
  <2>2. KeyCount(r) = 0
    BY <1>3, <1>6, CountOfKey DEF RLEN
  <2> QED
    BY <1>1, <1>2, <1>4, <2>1, <2>2 DEF IInv, Working, Stopped, idle
<1>7. CASE ~(r.rlen > RLEN) /\ BlockCount(r) # 0
  <2>1. status' = "OK" /\ i' = 1 /\ todo' = BlockSteps(r, 1) /\ r.rlen <= RLEN
    BY <1>3, <1>7 DEF Call, RLEN
  <2>2. Link' = Chain(r)[0]
    <3>1. i' - 1 = 0
      BY <2>1
    <3> QED
      BY <1>1, <3>1 DEF Link
  <2>3. Chain(r)[0] = FirstLink(r)
    BY ChainRecurs
  <2>4. A' = Link'.A /\ prev' = Link'.K
    BY <1>1, <2>2, <2>3 DEF FirstLink
  <2>5. Starting(r, 1, BlockSteps(r, 1), Link')
    <3>1. 1 \in 1..BlockCount(r) /\ 1 - 1 = 0
      BY <1>3, <1>7
    <3>2. Starting(r, 1, BlockSteps(r, 1), Chain(r)[1 - 1])
      BY <2>1, <3>1, BlockStarts
    <3> QED
      BY <2>2, <3>1, <3>2
  <2>6. Doing(req', i', Link', todo', prf', A')
    BY <1>1, <2>1, <2>4, <2>5, DoingStarts
  <2>7. Len(out') = i' - 1
    BY <1>2, <2>1
  <2> QED
    BY <1>1, <1>4, <2>1, <2>4, <2>6, <2>7, GoesOn
<1> QED
  BY <1>5, <1>6, <1>7

\* What IInv says of a call that goes on.
LEMMA WorkingNow ==
  ASSUME Promised(req), IInv, ~idle
  PROVE  /\ req \in Requests /\ Promised(req) /\ req.rlen <= RLEN
         /\ i \in 1..BlockCount(req) /\ i - 1 \in Nat /\ Len(out) = i - 1
         /\ status = "OK" /\ prev = Link.K /\ Sequence(Link.A)
         /\ Doing(req, i, Link, todo, prf, A)
<1>1. req \in Requests /\ i \in 1..BlockCount(req)
  BY DEF IInv, TypeInv
<1>2. i - 1 \in Nat
  BY <1>1, CountOfRequest
<1>3. Sequence(Link.A)
  BY <1>1, <1>2, LinkTypes DEF Link
<1> QED
  BY <1>1, <1>2, <1>3 DEF IInv, Working

LEMMA HmacInitKeepsIInv == ASSUME Promised(req), IInv, TypeInv', HmacInit PROVE IInv'
<1>1. ~idle /\ Head(todo) = <<"init">> /\ prf' = <<>> /\ todo' = Tail(todo)
  BY DEF HmacInit
<1>2. req' = req /\ i' = i /\ A' = A /\ prev' = prev /\ out' = out /\ status' = status
  BY DEF HmacInit
<1>3. Link' = Link
  BY <1>2 DEF Link
<1>4. Doing(req, i, Link, Tail(todo), <<>>, A)
  BY <1>1, WorkingNow, DoingInit
<1>5. Written'
  BY <1>2 DEF IInv, Written
<1>6. Doing(req', i', Link', todo', prf', A')
  BY <1>1, <1>2, <1>3, <1>4
<1> QED
  BY <1>1, <1>2, <1>3, <1>5, <1>6, WorkingNow, GoesOn

LEMMA HmacUpdateKeepsIInv == ASSUME Promised(req), IInv, TypeInv', HmacUpdate PROVE IInv'
<1>1. ~idle /\ Head(todo)[1] = "update" /\ prf' = prf \o Absorbed /\ todo' = Tail(todo)
  BY DEF HmacUpdate
<1>2. req' = req /\ i' = i /\ A' = A /\ prev' = prev /\ out' = out /\ status' = status
  BY DEF HmacUpdate
<1>3. Link' = Link
  BY <1>2 DEF Link
<1>4. Absorbed = Given(Head(todo), A, Link.K)
  BY <1>1, WorkingNow DEF Absorbed, Given
<1>5. Doing(req, i, Link, Tail(todo), prf \o Absorbed, A)
  BY <1>1, <1>4, WorkingNow, DoingUpdate
<1>6. Written'
  BY <1>2 DEF IInv, Written
<1>7. Doing(req', i', Link', todo', prf', A')
  BY <1>1, <1>2, <1>3, <1>5
<1> QED
  BY <1>1, <1>2, <1>3, <1>6, <1>7, WorkingNow, GoesOn

LEMMA HmacFinalAKeepsIInv == ASSUME Promised(req), IInv, TypeInv', HmacFinalA PROVE IInv'
<1>1. ~idle /\ Head(todo) = <<"final", "A">> /\ A' = Prf(prf) /\ prf' = <<>> /\ todo' = Tail(todo)
  BY DEF HmacFinalA
<1>2. req' = req /\ i' = i /\ prev' = prev /\ out' = out /\ status' = status
  BY DEF HmacFinalA
<1>3. Link' = Link
  BY <1>2 DEF Link
<1>4. Doing(req, i, Link, Tail(todo), <<>>, Prf(prf))
  BY <1>1, WorkingNow, DoingFinalA
<1>5. Written'
  BY <1>2 DEF IInv, Written
<1>6. Doing(req', i', Link', todo', prf', A')
  BY <1>1, <1>2, <1>3, <1>4
<1> QED
  BY <1>1, <1>2, <1>3, <1>5, <1>6, WorkingNow, GoesOn

LEMMA HmacFinalKeyKeepsIInv == ASSUME Promised(req), IInv, TypeInv', HmacFinalKey PROVE IInv'
<1> DEFINE e == [block |-> <<"prf", prf>>, bits |-> OutBits(req, i)]
           count == BlockCount(req)
           next == Chain(req)[i]
<1>1. ~idle /\ Head(todo) = <<"final", "key">>
  BY DEF HmacFinalKey
<1>2. /\ out' = Append(out, e) /\ prev' = Prf(prf) /\ i' = i + 1
      /\ todo' = (IF i < count THEN BlockSteps(req, i + 1) ELSE <<>>)
      /\ req' = req /\ A' = A /\ status' = status
  BY DEF HmacFinalKey
<1>3. /\ req \in Requests /\ Promised(req) /\ req.rlen <= RLEN /\ status = "OK"
      /\ i \in 1..count /\ count \in Nat /\ Len(out) = i - 1 /\ i \in Nat \ {0}
  BY <1>1, WorkingNow, CountOfRequest
<1>4. HasA(req, Link, A) /\ prf = Goal(req, i, Link)
  BY <1>1, WorkingNow, DoingFinalKey
<1>5. next = NextLink(req, i, Link)
  BY <1>3, ChainRecurs DEF Link
<1>6. /\ next.K = Prf(prf) /\ next.K[1] = <<"prf", prf>>
      /\ req.mode = "pipeline" => A = next.A
  <2>1. next.K = Prf(prf) /\ next.A = Prf(Link.A)
    BY <1>4, <1>5 DEF NextLink, Goal
  <2> QED
    BY <1>4, <2>1, PrfType DEF HasA
<1> HIDE DEF next
<1>7. e = KeyEntry(req, i) /\ KeyCount(req) = count
  BY <1>3, <1>6, CountOfKey DEF next
<1> HIDE DEF e, count
<1>8. /\ Sequence(out) /\ Len(out') = i
      /\ \A n \in 1..(i - 1) : out'[n] = out[n]
      /\ out'[i] = e
  <2>1. Sequence(out)
    BY DEF IInv, TypeInv
  <2>2. /\ Len(Append(out, e)) = (i - 1) + 1
        /\ \A n \in 1..(i - 1) : Append(out, e)[n] = out[n]
        /\ Append(out, e)[(i - 1) + 1] = e
    BY <1>3, <2>1, Appended
  <2>3. (i - 1) + 1 = i
    BY <1>3
  <2> QED
    BY <1>2, <2>1, <2>2, <2>3
<1>9. Written'
  <2>1. Len(out') <= KeyCount(req')
    BY <1>2, <1>3, <1>7, <1>8
  <2>2. ASSUME NEW n \in 1..Len(out') PROVE out'[n] = KeyEntry(req', n)
    <3>1. n \in 1..(i - 1) \/ n = i
      BY <1>3, <1>8
    <3>2. \A m \in 1..(i - 1) : out[m] = KeyEntry(req, m)
      BY <1>3 DEF IInv, Written
    <3> QED
      BY <1>2, <1>7, <1>8, <3>1, <3>2
  <2> QED
    BY <2>1, <2>2 DEF Written
<1>10. CASE i < count
  <2>1. i + 1 \in 1..BlockCount(req) /\ (i + 1) - 1 = i
    BY <1>3, <1>10 DEF count
  <2>2. Link' = next
    BY <1>2, <2>1 DEF Link, next
  <2>3. Starting(req, i + 1, BlockSteps(req, i + 1), next)
    <3>1. Starting(req, i + 1, BlockSteps(req, i + 1), Chain(req)[(i + 1) - 1])
      BY <1>3, <2>1, BlockStarts
    <3> QED
      BY <2>1, <3>1 DEF next
  <2>4. Doing(req, i + 1, next, BlockSteps(req, i + 1), prf', A)
    BY <1>6, <2>3, DoingStarts
  <2>5. Doing(req', i', Link', todo', prf', A')
    BY <1>2, <1>10, <2>2, <2>4
  <2>6. Len(out') = i' - 1
    BY <1>2, <1>8, <2>1
  <2>7. prev' = Link'.K
    BY <1>2, <1>6, <2>2
  <2>8. status' = "OK" /\ req'.rlen <= RLEN
    BY <1>2, <1>3
  <2> QED
    BY <1>9, <2>5, <2>6, <2>7, <2>8, GoesOn
<1>11. CASE ~(i < count)
  <2>1. todo' = <<>> /\ Len(out') = KeyCount(req')
    BY <1>2, <1>3, <1>7, <1>8, <1>11
  <2> QED
    BY <1>9, <2>1 DEF IInv, Working, Stopped, idle
<1> QED
  BY <1>10, <1>11

\* A step of a call that goes on keeps the request.
LEMMA StepKeepsIInv ==
  ASSUME Promised(req), IInv, TypeInv', Next, ~\E r \in Requests : Call(r)
  PROVE  IInv'
<1>1. ASSUME todo' = <<>>, status' = "FAIL", UNCHANGED <<req, out>>
      PROVE  IInv'
  <2>1. Written'
    BY <1>1 DEF IInv, Written
  <2> QED
    BY <1>1, <2>1, GivesUp
<1>2. CASE HmacRefuses
  BY <1>1, <1>2 DEF HmacRefuses
<1>3. CASE CallbackFails
  BY <1>1, <1>3 DEF CallbackFails
<1> QED
  BY <1>2, <1>3, HmacInitKeepsIInv, HmacUpdateKeepsIInv, HmacFinalAKeepsIInv,
     HmacFinalKeyKeepsIInv DEF Next

LEMMA NextCInv == CInv /\ [Next]_vars => CInv'
<1> SUFFICES ASSUME CInv, [Next]_vars
             PROVE  CInv'
  OBVIOUS
<1>1. TypeInv'
  BY TypeInvNext DEF CInv
<1>2. CASE UNCHANGED vars
  <2>1. req' = req
    BY <1>2 DEF vars
  <2>2. IInv => IInv'
    BY <1>1, <1>2 DEF vars, IInv, Working, Written, Stopped, Link, idle
  <2> QED
    BY <1>1, <2>1, <2>2 DEF CInv
<1>3. CASE \E r \in Requests : Call(r)
  <2>1. PICK r \in Requests : Call(r)
    BY <1>3
  <2>2. req' = r
    BY <2>1 DEF Call
  <2>3. Promised(r) => IInv'
    BY <1>1, <2>1, CallKeepsIInv
  <2> QED
    BY <1>1, <2>2, <2>3 DEF CInv
<1>4. CASE Next /\ ~\E r \in Requests : Call(r)
  <2>1. req' = req
    BY <1>4 DEF Next, HmacInit, HmacUpdate, HmacRefuses, HmacFinalA, HmacFinalKey, CallbackFails
  <2>2. Promised(req) => IInv'
    BY <1>1, <1>4, StepKeepsIInv DEF CInv
  <2> QED
    BY <1>1, <2>1, <2>2 DEF CInv
<1> QED
  BY <1>2, <1>3, <1>4

LEMMA InitCInv == Init => CInv
BY InitIInv DEF CInv, IInv

LEMMA WrittenIsBeginning == IInv => OutputIsDerivedKey
<1> SUFFICES ASSUME IInv PROVE OutputIsDerivedKey
  OBVIOUS
<1> DEFINE key == DerivedKey(req)
           beginning == Take(key, Len(out))
<1>1. PICK S : out \in Seq(S)
  BY DEF IInv, TypeInv, Sequence
<1> DEFINE V == S \cup Entries(req)
<1>2. req.bits \in Nat
  BY CountOfRequest DEF IInv, TypeInv, TypeOK
<1>3. /\ KeyCount(req) \in Nat
      /\ key \in Seq(Entries(req)) /\ Len(key) = KeyCount(req)
      /\ \A n \in 1..KeyCount(req) : key[n] = KeyEntry(req, n)
  BY <1>2, KeyIsSequence
<1>4. out \in Seq(V) /\ key \in Seq(V) /\ Len(out) \in Nat
  BY <1>1, <1>3, LenProperties
<1>5. /\ Len(out) <= KeyCount(req)
      /\ \A n \in 1..Len(out) : out[n] = KeyEntry(req, n)
  BY DEF IInv, Written
<1> HIDE DEF key, V
<1>6. /\ beginning \in Seq(V) /\ Len(beginning) = Len(out)
      /\ \A n \in 1..Len(out) : beginning[n] = key[n]
  <2>1. Len(out) \in 0..Len(key)
    BY <1>3, <1>4, <1>5
  <2> QED
    BY <1>4, <2>1, Cut
<1>7. \A n \in 1..Len(out) : beginning[n] = out[n]
  <2> TAKE n \in 1..Len(out)
  <2>1. n \in 1..KeyCount(req)
    BY <1>3, <1>4, <1>5
  <2> QED
    BY <1>3, <1>5, <1>6, <2>1, Zenon
<1> HIDE DEF beginning
<1>8. out = beginning
  BY <1>4, <1>6, <1>7, SeqEqual
<1>9. out = SubSeq(key, 1, Len(out))
  BY <1>8 DEF beginning, Take
<1> QED
  BY <1>3, <1>9 DEF OutputIsDerivedKey, IInv, Stopped, key

(***************************************************************************)
(* For a promised request of any size, whatever the width of a byte and of *)
(* the PRF, whatever requests came before it, and wherever a callback      *)
(* fails: what is in key_out is at all times the beginning of the key of   *)
(* SP 800-108, and all of it when the function returns OK (kbkdf.c:77-486).*)
(* The runs kbkdf_pipeline and kbkdf_position show that it takes Promised. *)
(***************************************************************************)
THEOREM PromiseKept == Spec => [](Promised(req) => OutputIsDerivedKey)
<1>1. CInv => (Promised(req) => OutputIsDerivedKey)
  BY WrittenIsBeginning DEF CInv
<1> QED
  BY <1>1, InitCInv, NextCInv, PTL DEF Spec

\* The property itself, when callers make promised requests only.
THEOREM OutputCorrect ==
  ASSUME \A r \in Requests : Promised(r)
  PROVE  Spec => []OutputIsDerivedKey
<1>1. TypeInv => Promised(req)
  <2>1. 0 % ByteBits = 0
    BY Sizes, SmallMod, 0 \in 0..(ByteBits - 1)
  <2>2. /\ NoRequest.bits = 0 /\ NoRequest.rpos = 0 /\ NoRequest.fixed = 0
        /\ NoRequest.mode = "counter" /\ ByteBits * 0 = 0
    BY Sizes DEF NoRequest
  <2>3. Promised(NoRequest)
    BY <2>1, <2>2 DEF Promised, AtByte
  <2> QED
    BY <2>3 DEF TypeInv, TypeOK
<1>2. CInv => OutputIsDerivedKey
  BY <1>1, WrittenIsBeginning DEF CInv
<1> QED
  BY <1>2, InitCInv, NextCInv, PTL DEF Spec
-----------------------------------------------------------------------------
(***************************************************************************)
(* No two blocks of a key are the same: the input of a block determines    *)
(* the value it is chained to and its number.                              *)
(***************************************************************************)
LEMMA SplitEqual ==
  ASSUME NEW x, NEW y, NEW u, NEW v, Sequence(x), Sequence(y), Sequence(u), Sequence(v),
         x \o y = u \o v, Len(x) = Len(u) \/ Len(y) = Len(v)
  PROVE  x = u /\ y = v
<1>1. /\ Len(x) \in Nat /\ Len(y) \in Nat /\ Len(x \o y) = Len(x) + Len(y)
      /\ \A n \in 1..Len(x) : (x \o y)[n] = x[n]
      /\ \A n \in 1..Len(y) : (x \o y)[Len(x) + n] = y[n]
  BY Joined
<1>2. /\ Len(u) \in Nat /\ Len(v) \in Nat /\ Len(u \o v) = Len(u) + Len(v)
      /\ \A n \in 1..Len(u) : (u \o v)[n] = u[n]
      /\ \A n \in 1..Len(v) : (u \o v)[Len(u) + n] = v[n]
  BY Joined
<1>3. Len(x) = Len(u) /\ Len(y) = Len(v)
  BY <1>1, <1>2
<1>4. PICK S1, S2, S3, S4 : x \in Seq(S1) /\ y \in Seq(S2) /\ u \in Seq(S3) /\ v \in Seq(S4)
  BY DEF Sequence
<1> DEFINE S == (S1 \cup S2) \cup (S3 \cup S4)
<1>5. x \in Seq(S) /\ y \in Seq(S) /\ u \in Seq(S) /\ v \in Seq(S)
  BY <1>4
<1> HIDE DEF S
<1>6. (\A n \in 1..Len(x) : x[n] = u[n]) /\ (\A n \in 1..Len(y) : y[n] = v[n])
  BY <1>1, <1>2, <1>3
<1> QED
  BY <1>3, <1>5, <1>6, SeqEqual

LEMMA CancelLeft ==
  ASSUME NEW x, NEW y, NEW z, Sequence(x), Sequence(y), Sequence(z), x \o y = x \o z
  PROVE  y = z
BY SplitEqual

LEMMA CancelRight ==
  ASSUME NEW x, NEW u, NEW y, Sequence(x), Sequence(u), Sequence(y), x \o y = u \o y
  PROVE  x = u
BY SplitEqual

LEMMA BitsDetermine ==
  ASSUME NEW x \in Seq(Byte), NEW y \in Seq(Byte), Len(x) = Len(y), Bits(x) = Bits(y)
  PROVE  x = y
<1>1. Len(x) \in Nat /\ \A n \in 1..Len(x) : x[n] \in Byte /\ y[n] \in Byte
  BY LenProperties, ElementOfSeq
<1>2. ASSUME NEW n \in 1..Len(x) PROVE x[n] = y[n]
  <2>1. PICK a \in Byte, b \in Byte : a = x[n] /\ b = y[n]
    BY <1>1, <1>2
  <2>2. n - 1 \in 0..(Len(x) - 1) /\ (n - 1) + 1 = n
    BY <1>1
  <2>3. ASSUME NEW e \in 0..(ByteBits - 1) PROVE Digit(2, a, e) = Digit(2, b, e)
    <3>1. (ByteBits - 1) - e \in 0..(ByteBits - 1) /\ (ByteBits - 1) - ((ByteBits - 1) - e) = e
      BY Sizes
    <3>2. PICK q \in 0..(Len(x) - 1), d \in 0..(ByteBits - 1) : q = n - 1 /\ d = (ByteBits - 1) - e
      BY <2>2, <3>1
    <3>3. /\ Bits(x)[(ByteBits * q + d) + 1] = BitOf(x[q + 1], d)
          /\ Bits(y)[(ByteBits * q + d) + 1] = BitOf(y[q + 1], d)
      BY BitsOf
    <3>4. q + 1 = n /\ (ByteBits - 1) - d = e
      BY <2>2, <3>1, <3>2
    <3>5. BitOf(a, d) = BitOf(b, d)
      BY <2>1, <3>3, <3>4
    <3> QED
      BY <3>4, <3>5 DEF BitOf
  <2>4. ByteBits \in Nat /\ 2 \in Nat \ {0} /\ a \in Nat /\ b \in Nat
    BY Sizes, ByteIsNat
  <2>5. a % Power(2, ByteBits) = b % Power(2, ByteBits)
    BY <2>3, <2>4, SameDigits
  <2>6. a % ByteMod = a /\ b % ByteMod = b
    BY Sizes, SmallMod DEF Byte
  <2> QED
    BY <2>1, <2>5, <2>6 DEF ByteMod
<1> QED
  BY <1>2, SeqEqual

LEMMA NumbersDiffer ==
  ASSUME NEW rlen \in Nat, NEW j \in 1..Power(ByteMod, rlen), NEW k \in 1..Power(ByteMod, rlen),
         Bits(Ctr(j, rlen)) = Bits(Ctr(k, rlen))
  PROVE  j = k
<1>1. j \in Nat /\ k \in Nat /\ ByteMod \in Nat \ {0} /\ Power(ByteMod, rlen) \in Nat \ {0}
  BY Sizes, PowerPositive
<1>2. Ctr(j, rlen) \in Seq(Byte) /\ Ctr(k, rlen) \in Seq(Byte)
  BY <1>1, CtrTypes
<1>3. Len(Ctr(j, rlen)) = rlen /\ Len(Ctr(k, rlen)) = rlen
  BY <1>2, LenProperties DEF Ctr
<1>4. Ctr(j, rlen) = Ctr(k, rlen)
  BY <1>2, <1>3, BitsDetermine
<1>5. ASSUME NEW e \in 0..(rlen - 1) PROVE Digit(ByteMod, j, e) = Digit(ByteMod, k, e)
  <2>1. rlen - e \in 1..rlen /\ rlen - (rlen - e) = e
    OBVIOUS
  <2>2. Ctr(j, rlen)[rlen - e] = Digit(ByteMod, j, e) /\ Ctr(k, rlen)[rlen - e] = Digit(ByteMod, k, e)
    BY <2>1 DEF Ctr
  <2> QED
    BY <1>4, <2>2
<1>6. j % Power(ByteMod, rlen) = k % Power(ByteMod, rlen)
  BY <1>1, <1>5, SameDigits
<1> HIDE DEF Power
<1> DEFINE P == Power(ByteMod, rlen)
<1>7. P \in Nat \ {0} /\ j \in 1..P /\ k \in 1..P /\ (0 + j) % P = (0 + k) % P
  BY <1>1, <1>6
<1> HIDE DEF P
<1> QED
  BY <1>7, ModCancel, 0 \in Int

LEMMA InputDetermines ==
  ASSUME NEW r \in Requests, -1 <= r.rpos, r.rpos <= ByteBits * r.fixed,
         NEW j \in Nat, NEW k \in Nat, NEW x, NEW y, Sequence(x), Sequence(y),
         Input(r, j, x) = Input(r, k, y)
  PROVE  x = y /\ Bits(Ctr(j, r.rlen)) = Bits(Ctr(k, r.rlen))
<1> DEFINE c == Bits(Ctr(j, r.rlen))
           d == Bits(Ctr(k, r.rlen))
           f == FixedBits(r)
<1>1. Sequence(c) /\ Sequence(d) /\ Len(c) = Len(d)
  <2>1. r.rlen \in Nat
    BY RequestTypes
  <2>2. Ctr(j, r.rlen) \in Seq(Byte) /\ Ctr(k, r.rlen) \in Seq(Byte) /\ Sequence(c) /\ Sequence(d)
    BY <2>1, CtrTypes
  <2>3. Len(Ctr(j, r.rlen)) = r.rlen /\ Len(Ctr(k, r.rlen)) = r.rlen
    BY <2>1, <2>2, LenProperties DEF Ctr
  <2> QED
    BY <2>2, <2>3, BitsOf
<1>2. Sequence(f)
  BY FixedTypes
<1> HIDE DEF c, d, f
<1>3. CASE r.rpos < 0
  <2> DEFINE p == c \o x
             q == d \o y
  <2>1. p \o f = q \o f
    BY <1>3 DEF Input, c, d, f
  <2>2. Sequence(p) /\ Sequence(q)
    BY <1>1, Joined
  <2>3. p = q
    <3> HIDE DEF p, q
    <3> QED
      BY ONLY <1>2, <2>1, <2>2, CancelRight
  <2>4. c = d /\ x = y
    BY ONLY ZenonT(40), <1>1, <2>3, Sequence(x), Sequence(y), SplitEqual
  <2> QED
    BY <2>4 DEF c, d
<1>4. CASE 0 <= r.rpos
  <2> DEFINE t == Take(f, r.rpos)
             a == After(f, r.rpos)
  <2>1. Sequence(t) /\ Sequence(a)
    BY <1>4, FixedCut DEF f
  <2> DEFINE l == t \o c
             m == t \o d
             p == l \o a
             q == m \o a
  <2>2. x \o p = y \o q
    BY <1>4, InputIsNumbered DEF Numbered, c, d, f
  <2> HIDE DEF t, a
  <2>3. Sequence(l) /\ Sequence(m) /\ Len(l) = Len(m)
    BY ONLY <1>1, <2>1, Joined
  <2> HIDE DEF l, m
  <2>4. Sequence(p) /\ Sequence(q) /\ Len(p) = Len(q)
    BY ONLY <2>1, <2>3, Joined
  <2>5. x = y /\ p = q
    <3> HIDE DEF p, q
    <3> QED
      BY ONLY Sequence(x), Sequence(y), <2>2, <2>4, SplitEqual
  <2>6. l = m
    BY ONLY <2>1, <2>3, <2>5, CancelRight DEF p, q
  <2>7. c = d
    BY ONLY <1>1, <2>1, <2>6, CancelLeft DEF l, m
  <2> QED
    BY <2>5, <2>7 DEF c, d
<1> QED
  BY <1>3, <1>4, RequestTypes

(* A chain whose links come each from the one before, and the first from   *)
(* none, never returns to a link it had.                                   *)
LEMMA NeverAgain ==
  ASSUME NEW F, \A n \in Nat : F[0] # F[n + 1],
         \A j, k \in Nat : F[j + 1] = F[k + 1] => F[j] = F[k]
  PROVE  \A j, k \in Nat : F[j] = F[k] => j = k
<1> DEFINE S == {j \in Nat : \A k \in Nat : j < k => F[j] # F[k]}
<1>1. 0 \in S
  <2>1. ASSUME NEW k \in Nat, 0 < k PROVE F[0] # F[k]
    BY <2>1, k - 1 \in Nat, (k - 1) + 1 = k
  <2> QED
    BY <2>1
<1>2. ASSUME NEW j \in Nat, j \in S PROVE j + 1 \in S
  <2>1. ASSUME NEW k \in Nat, j + 1 < k PROVE F[j + 1] # F[k]
    BY <1>2, <2>1, k - 1 \in Nat, (k - 1) + 1 = k, j < k - 1
  <2> QED
    BY <2>1
<1> HIDE DEF S
<1>3. \A j \in Nat : j \in S
  BY <1>1, <1>2, SetInduction
<1>4. \A j, k \in Nat : j < k => F[j] # F[k]
  BY <1>3 DEF S
<1> QED
  BY <1>4

LEMMA PrfDetermines == \A x, y : Prf(x) = Prf(y) => x = y
BY DEF Prf

LEMMA KeyDiffers ==
  ASSUME NEW r \in Requests, Promised(r), r.rlen <= RLEN, NEW N \in Nat,
         r.mode = "counter" => N <= Power(ByteMod, r.rlen),
         NEW j \in 1..N, NEW k \in 1..N, Chain(r)[j].K[1] = Chain(r)[k].K[1]
  PROVE  j = k
<1> DEFINE before(n) == Chained(r, Chain(r)[n - 1])
<1>1. /\ j \in Nat \ {0} /\ k \in Nat \ {0} /\ j - 1 \in Nat /\ k - 1 \in Nat
      /\ -1 <= r.rpos /\ r.rpos <= ByteBits * r.fixed
  BY RequestTypes DEF Promised, RLEN
<1>2. ASSUME NEW n \in Nat \ {0}
      PROVE  /\ Chain(r)[n].A = Prf(Chain(r)[n - 1].A)
             /\ Chain(r)[n].K = Prf(Input(r, n, before(n)))
             /\ Sequence(before(n))
  <2>1. Chain(r)[n] = NextLink(r, n, Chain(r)[n - 1])
    BY ChainRecurs
  <2>2. n - 1 \in Nat
    OBVIOUS
  <2>3. Sequence(Chain(r)[n - 1].K)
    BY <2>2, LinkTypes
  <2>4. Sequence(before(n))
    BY <2>3, PrfType, FewAreSequences, RequestTypes DEF Chained, Modes
  <2> QED
    BY <2>1, <2>4 DEF NextLink
<1>3. Input(r, j, before(j)) = Input(r, k, before(k))
  BY <1>1, <1>2, PrfType
<1> HIDE DEF before
<1>4. before(j) = before(k) /\ Bits(Ctr(j, r.rlen)) = Bits(Ctr(k, r.rlen))
  BY <1>1, <1>2, <1>3, InputDetermines
<1>5. CASE r.mode = "counter"
  <2>1. r.rlen \in Nat /\ ByteMod \in Nat \ {0}
    BY RequestTypes, Sizes
  <2>2. Power(ByteMod, r.rlen) \in Nat
    BY <2>1, PowerPositive
  <2>3. j \in 1..Power(ByteMod, r.rlen) /\ k \in 1..Power(ByteMod, r.rlen)
    BY <1>5, <2>2
  <2> QED
    BY <1>4, <2>1, <2>3, NumbersDiffer
<1>6. CASE r.mode = "feedback"
  <2> DEFINE F == [n \in Nat |-> Chain(r)[n].K]
  <2>1. \A n \in Nat : F[0] # F[n + 1]
    <3>1. SUFFICES ASSUME NEW n \in Nat PROVE Chain(r)[0].K # Chain(r)[n + 1].K
      OBVIOUS
    <3>2. n + 1 \in Nat \ {0}
      OBVIOUS
    <3>3. Chain(r)[0].K \in {<<>>, <<IV>>}
      <4>1. Chain(r)[0] = FirstLink(r)
        BY ChainRecurs, Zenon
      <4> QED
        BY <4>1 DEF FirstLink
    <3>4. Chain(r)[n + 1].K[1] = <<"prf", Input(r, n + 1, before(n + 1))>> /\ Chain(r)[n + 1].K # <<>>
      BY <1>2, <3>2, PrfType
    <3>5. <<IV>>[1] # <<"prf", Input(r, n + 1, before(n + 1))>>
      BY DEF IV
    <3> QED
      BY <3>3, <3>4, <3>5
  <2>2. \A a, b \in Nat : F[a + 1] = F[b + 1] => F[a] = F[b]
    <3>1. SUFFICES ASSUME NEW a \in Nat, NEW b \in Nat, Chain(r)[a + 1].K = Chain(r)[b + 1].K
                   PROVE  Chain(r)[a].K = Chain(r)[b].K
      OBVIOUS
    <3>2. a + 1 \in Nat \ {0} /\ b + 1 \in Nat \ {0} /\ (a + 1) - 1 = a /\ (b + 1) - 1 = b
      OBVIOUS
    <3>3. Input(r, a + 1, before(a + 1)) = Input(r, b + 1, before(b + 1))
      BY <1>2, <3>1, <3>2, PrfDetermines
    <3>4. before(a + 1) = before(b + 1)
      BY <1>1, <1>2, <3>2, <3>3, InputDetermines
    <3> QED
      BY <1>6, <3>2, <3>4 DEF before, Chained
  <2>3. Chain(r)[j].K = Chain(r)[k].K
    BY <1>1, <1>2, <1>3
  <2>4. F[j] = F[k] /\ j \in Nat /\ k \in Nat
    BY <1>1, <2>3
  <2> HIDE DEF F
  <2> QED
    BY <2>1, <2>2, <2>4, NeverAgain
<1>7. CASE r.mode = "pipeline"
  <2> DEFINE F == [n \in Nat |-> Chain(r)[n].A]
  <2>1. \A n \in Nat : F[0] # F[n + 1]
    <3>1. SUFFICES ASSUME NEW n \in Nat PROVE Chain(r)[0].A # Chain(r)[n + 1].A
      OBVIOUS
    <3>2. n + 1 \in Nat \ {0} /\ (n + 1) - 1 = n
      OBVIOUS
    <3>3. Chain(r)[0].A = FixedBits(r) /\ FixedBits(r) \in Seq(BitItems)
      <4>1. Chain(r)[0] = FirstLink(r)
        BY ChainRecurs, Zenon
      <4> QED
        BY <4>1, FixedTypes DEF FirstLink
    <3>4. Chain(r)[n + 1].A = Prf(Chain(r)[n].A)
      BY <1>2, <3>2
    <3>5. Prf(Chain(r)[n].A)[1] = <<"prf", Chain(r)[n].A>> /\ Len(Prf(Chain(r)[n].A)) = 1
      BY FewAreSequences DEF Prf
    <3>6. ASSUME Prf(Chain(r)[n].A) \in Seq(BitItems) PROVE FALSE
      <4>1. Prf(Chain(r)[n].A)[1] \in BitItems
        BY <3>5, <3>6, ElementOfSeq
      <4> QED
        BY <3>5, <4>1 DEF BitItems
    <3> QED
      BY <3>3, <3>4, <3>6
  <2>2. \A a, b \in Nat : F[a + 1] = F[b + 1] => F[a] = F[b]
    <3>1. SUFFICES ASSUME NEW a \in Nat, NEW b \in Nat, Chain(r)[a + 1].A = Chain(r)[b + 1].A
                   PROVE  Chain(r)[a].A = Chain(r)[b].A
      OBVIOUS
    <3>2. a + 1 \in Nat \ {0} /\ b + 1 \in Nat \ {0} /\ (a + 1) - 1 = a /\ (b + 1) - 1 = b
      OBVIOUS
    <3> QED
      BY <1>2, <3>1, <3>2, PrfDetermines
  <2>3. Chain(r)[j].A = Chain(r)[k].A
    BY <1>1, <1>2, <1>4, <1>7 DEF before, Chained
  <2>4. F[j] = F[k] /\ j \in Nat /\ k \in Nat
    BY <1>1, <2>3
  <2> HIDE DEF F
  <2> QED
    BY <2>1, <2>2, <2>4, NeverAgain
<1> QED
  BY <1>5, <1>6, <1>7, RequestTypes DEF Modes

\* A request whose counter is too long writes nothing.
Refused == req.rlen > RLEN => idle /\ out = <<>>

LEMMA RefusedAlways == Spec => []Refused
<1>1. Init => Refused
  BY DEF Init, Refused, NoRequest, RLEN, idle
<1>2. Refused /\ [Next]_vars => Refused'
  BY DEF Refused, Next, vars, Call, HmacInit, HmacUpdate, HmacRefuses, HmacFinalA, HmacFinalKey,
         CallbackFails, idle
<1> QED
  BY <1>1, <1>2, PTL DEF Spec

(***************************************************************************)
(* For a promised request no block of key_out repeats another: in the      *)
(* chained modes never, in counter mode while ctr_rlen bytes tell the      *)
(* numbers of the blocks apart (kbkdf.c:93-191).                           *)
(***************************************************************************)
THEOREM BlocksAreDifferent == Spec => [](Promised(req) => BlocksDiffer)
<1>1. CInv /\ Refused => (Promised(req) => BlocksDiffer)
  <2>1. SUFFICES ASSUME CInv, Refused, Promised(req),
                        req.mode = "counter" => Len(out) <= Power(ByteMod, req.rlen),
                        NEW j \in 1..Len(out), NEW k \in 1..Len(out), out[j].block = out[k].block
                 PROVE  j = k
    BY DEF BlocksDiffer
  <2>2. Written /\ TypeInv /\ Len(out) \in Nat
    <3>1. Written /\ TypeInv
      BY <2>1 DEF CInv, IInv
    <3> QED
      BY <3>1, LenProperties DEF TypeInv, Sequence
  <2>3. Chain(req)[j].K[1] = Chain(req)[k].K[1]
    <3>1. out[j] = KeyEntry(req, j) /\ out[k] = KeyEntry(req, k)
      BY <2>2 DEF Written
    <3>2. \A n : KeyEntry(req, n).block = Chain(req)[n].K[1]
      BY DEF KeyEntry
    <3> QED
      BY <2>1, <3>1, <3>2
  <2>4. req \in Requests
    <3>1. req.bits \in Nat /\ Len(out) <= KeyCount(req) /\ Len(out) >= 1
      BY <2>1, <2>2, CountOfRequest DEF Written, TypeInv, TypeOK
    <3>2. KeyCount(NoRequest) = 0
      <4>1. PICK size \in Nat \ {0} : size = ByteBits * HmacSize
        BY Sizes
      <4>2. 0 % size = 0 /\ 0 \div size = 0
        BY SmallMod, 0 \in 0..(size - 1)
      <4> QED
        BY <4>1, <4>2 DEF KeyCount, NoRequest
    <3> QED
      BY <2>2, <3>1, <3>2 DEF TypeInv, TypeOK
  <2>5. req.rlen <= RLEN
    <3>1. out # <<>>
      BY <2>1, <2>2, Len(<<>>) = 0
    <3> QED
      BY <2>1, <2>4, <3>1, RequestTypes DEF Refused, RLEN
  <2> QED
    BY <2>1, <2>2, <2>3, <2>4, <2>5, KeyDiffers
<1> QED
  BY <1>1, InitCInv, NextCInv, RefusedAlways, PTL DEF Spec
=============================================================================
