---------------------------- MODULE Pbkdf2Proofs ----------------------------
(***************************************************************************)
(* Proofs about Pbkdf2: for every hash size, counter, number of iterations *)
(* and way to fail, what is in out is the beginning of the derived key, as *)
(* long as the lengths asked for have fewer blocks than the bytes of the   *)
(* counter that are incremented can number.                                *)
(***************************************************************************)
EXTENDS Pbkdf2, SequenceTheorems, Arithmetic

\* 2^24 - 1 blocks: the increment never carries into ctr[0].
Numbered(len) == len <= ULen * (Power(ByteMod, CtrLen - 1) - 1)

-----------------------------------------------------------------------------
(***************************************************************************)
(* The iterates of a block, which are all different.                       *)
(***************************************************************************)
FirstItems(n) == <<<<"salt">>, <<"ctr", INT(n)>>>>

IsIterates(F, n) == F = [k \in Nat |-> IF k = 0 THEN Prf(FirstItems(n)) ELSE Prf(<<F[k - 1]>>)]

Starts(F, n, m) ==
  \A k \in 0..m : F[k] = IF k = 0 THEN Prf(FirstItems(n)) ELSE Prf(<<F[k - 1]>>)

LEMMA StartsExist ==
  ASSUME NEW n
  PROVE  \A m \in Nat : \E F : Starts(F, n, m)
<1> DEFINE S == {m \in Nat : \E F : Starts(F, n, m)}
<1>1. 0 \in S
  <2> DEFINE F == [k \in 0..0 |-> Prf(FirstItems(n))]
  <2>1. Starts(F, n, 0)
    BY DEF Starts
  <2> HIDE DEF F
  <2> QED
    BY <2>1
<1>2. ASSUME NEW m \in Nat, m \in S
      PROVE  m + 1 \in S
  <2>1. PICK F : Starts(F, n, m)
    BY <1>2
  <2> DEFINE G == [k \in 0..(m + 1) |-> IF k = m + 1 THEN Prf(<<F[m]>>) ELSE F[k]]
  <2>2. Starts(G, n, m + 1)
    <3>1. \A k \in 0..m : G[k] = F[k]
      BY <1>2
    <3>2. G[m + 1] = Prf(<<F[m]>>)
      OBVIOUS
    <3> HIDE DEF G
    <3> SUFFICES ASSUME NEW k \in 0..(m + 1)
                 PROVE  G[k] = IF k = 0 THEN Prf(FirstItems(n)) ELSE Prf(<<G[k - 1]>>)
      BY DEF Starts
    <3>3. CASE k = m + 1
      BY <1>2, <3>1, <3>2, <3>3
    <3>4. CASE k # m + 1 /\ k # 0
      BY <1>2, <2>1, <3>1, <3>4, k \in 0..m, k - 1 \in 0..m DEF Starts
    <3>5. CASE k = 0
      BY <1>2, <2>1, <3>1, <3>5, 0 \in 0..m DEF Starts
    <3> QED
      BY <3>3, <3>4, <3>5
  <2> HIDE DEF G
  <2> QED
    BY <1>2, <2>2
<1> HIDE DEF S
<1>3. \A m \in Nat : m \in S
  BY <1>1, <1>2, SetInduction
<1> QED
  BY <1>3 DEF S

LEMMA StartsAgree ==
  ASSUME NEW n, NEW m \in Nat, NEW F, NEW G, Starts(F, n, m), Starts(G, n, m)
  PROVE  \A k \in 0..m : F[k] = G[k]
<1> DEFINE S == {k \in Nat : k <= m => F[k] = G[k]}
<1>1. 0 \in S
  BY 0 \in 0..m DEF Starts
<1>2. ASSUME NEW k \in Nat, k \in S
      PROVE  k + 1 \in S
  <2>1. SUFFICES ASSUME k + 1 <= m
                 PROVE  F[k + 1] = G[k + 1]
    OBVIOUS
  <2>2. k + 1 \in 0..m /\ k + 1 # 0 /\ (k + 1) - 1 = k /\ F[k] = G[k]
    BY <1>2, <2>1
  <2>3. F[k + 1] = Prf(<<F[k]>>) /\ G[k + 1] = Prf(<<G[k]>>)
    BY <2>2 DEF Starts
  <2> QED
    BY <2>2, <2>3
<1> HIDE DEF S
<1>3. \A k \in Nat : k \in S
  BY <1>1, <1>2, SetInduction
<1> QED
  BY <1>3 DEF S

LEMMA IteratesExist ==
  ASSUME NEW n
  PROVE  \E F : IsIterates(F, n)
<1> DEFINE G(m) == CHOOSE F : Starts(F, n, m)
           F == [k \in Nat |-> G(k)[k]]
<1>1. \A m \in Nat : Starts(G(m), n, m)
  BY StartsExist, Zenon
<1> HIDE DEF G
<1>2. ASSUME NEW k \in Nat
      PROVE  F[k] = IF k = 0 THEN Prf(FirstItems(n)) ELSE Prf(<<F[k - 1]>>)
  <2>1. G(k)[k] = IF k = 0 THEN Prf(FirstItems(n)) ELSE Prf(<<G(k)[k - 1]>>)
    BY <1>1 DEF Starts
  <2>2. k # 0 => G(k)[k - 1] = G(k - 1)[k - 1]
    <3> SUFFICES ASSUME k # 0 PROVE G(k)[k - 1] = G(k - 1)[k - 1]
      OBVIOUS
    <3>1. k - 1 \in Nat /\ k - 1 \in 0..(k - 1)
      OBVIOUS
    <3>2. Starts(G(k), n, k - 1) /\ Starts(G(k - 1), n, k - 1)
      BY <1>1, <3>1 DEF Starts
    <3> QED
      BY <3>1, <3>2, StartsAgree
  <2> QED
    BY <2>1, <2>2
<1>3. F = [k \in Nat |-> F[k]]
  OBVIOUS
<1> HIDE DEF F
<1>4. IsIterates(F, n)
  BY <1>2, <1>3 DEF IsIterates
<1> QED
  BY <1>4

LEMMA IteratesRecur ==
  ASSUME NEW n
  PROVE  /\ Iterates(n)[0] = Prf(FirstItems(n))
         /\ \A k \in Nat : Iterates(n)[k + 1] = Prf(<<Iterates(n)[k]>>)
<1>1. IsIterates(Iterates(n), n)
  BY IteratesExist, Zenon DEF Iterates, IsIterates, FirstItems
<1>2. \A k \in Nat : Iterates(n)[k] = IF k = 0 THEN Prf(FirstItems(n)) ELSE Prf(<<Iterates(n)[k - 1]>>)
  BY <1>1 DEF IsIterates
<1>3. \A k \in Nat : k + 1 \in Nat /\ k + 1 # 0 /\ (k + 1) - 1 = k
  OBVIOUS
<1> QED
  BY <1>2, <1>3

LEMMA IteratesDiffer ==
  ASSUME NEW n
  PROVE  \A j \in Nat : \A k \in Nat : j < k => Iterates(n)[j] # Iterates(n)[k]
<1> DEFINE It == Iterates(n)
           S == {j \in Nat : \A k \in Nat : j < k => It[j] # It[k]}
<1>0. It[0] = Prf(FirstItems(n)) /\ \A k \in Nat : It[k + 1] = Prf(<<It[k]>>)
  BY IteratesRecur
<1> HIDE DEF It
<1>1. 0 \in S
  <2> SUFFICES ASSUME NEW k \in Nat, 0 < k PROVE It[0] # It[k]
    OBVIOUS
  <2>1. It[k] = Prf(<<It[k - 1]>>)
    BY <1>0, k - 1 \in Nat, (k - 1) + 1 = k
  <2>2. FirstItems(n) # <<It[k - 1]>>
    BY DEF FirstItems
  <2> QED
    BY <1>0, <2>1, <2>2 DEF Prf
<1>2. ASSUME NEW j \in Nat, j \in S
      PROVE  j + 1 \in S
  <2> SUFFICES ASSUME NEW k \in Nat, j + 1 < k PROVE It[j + 1] # It[k]
    OBVIOUS
  <2>1. It[k] = Prf(<<It[k - 1]>>)
    BY <1>0, k - 1 \in Nat, (k - 1) + 1 = k
  <2>2. It[j] # It[k - 1]
    BY <1>2, k - 1 \in Nat, j < k - 1
  <2> QED
    BY <1>0, <2>1, <2>2 DEF Prf
<1> HIDE DEF S
<1>3. \A j \in Nat : j \in S
  BY <1>1, <1>2, SetInduction
<1> QED
  BY <1>3 DEF S, It

\* The xor of one iterate more is the block of one iteration more.
LEMMA BlockGrows ==
  ASSUME NEW n, NEW c \in Nat \ {0}
  PROVE  /\ Block(n, 1) = {Prf(FirstItems(n))}
         /\ Iterate(n, 1) = Prf(FirstItems(n))
         /\ Iterate(n, c + 1) = Prf(<<Iterate(n, c)>>)
         /\ Xor(Block(n, c), Iterate(n, c + 1)) = Block(n, c + 1)
<1>1. Iterate(n, 1) = Prf(FirstItems(n))
  BY IteratesRecur DEF Iterate
<1>2. Iterate(n, c + 1) = Prf(<<Iterate(n, c)>>)
  BY IteratesRecur, c - 1 \in Nat, (c - 1) + 1 = c, (c + 1) - 1 = c DEF Iterate
<1>3. Block(n, 1) = {Iterate(n, 1)}
  BY 1..1 = {1} DEF Block
<1>4. Iterate(n, c + 1) \notin Block(n, c)
  <2> SUFFICES ASSUME NEW j \in 1..c PROVE Iterate(n, j) # Iterate(n, c + 1)
    BY DEF Block
  <2> QED
    BY IteratesDiffer, j - 1 \in Nat, c \in Nat, (c + 1) - 1 = c, j - 1 < c DEF Iterate
<1>5. Block(n, c + 1) = Block(n, c) \cup {Iterate(n, c + 1)}
  BY 1..(c + 1) = (1..c) \cup {c + 1} DEF Block
<1> QED
  BY <1>1, <1>2, <1>3, <1>4, <1>5 DEF Xor
-----------------------------------------------------------------------------
(***************************************************************************)
(* The counter.                                                            *)
(***************************************************************************)
LEMMA Sizes ==
  /\ ByteMod \in Nat \ {0} /\ ByteMod >= 2
  /\ CtrLen \in Nat \ {0} /\ CtrLen >= 2 /\ CtrLen - 1 \in Nat
  /\ ULen \in Nat \ {0}
BY Pbkdf2Assumption

LEMMA INTType == \A n \in Nat : INT(n) \in Counter
<1> SUFFICES ASSUME NEW n \in Nat, NEW k \in 0..(CtrLen - 1)
             PROVE  Digit(ByteMod, n, CtrLen - 1 - k) \in 0..(ByteMod - 1)
  BY DEF INT, Counter
<1> QED
  BY Sizes, DigitType, CtrLen - 1 - k \in Nat

LEMMA FirstCounter == [Zero EXCEPT ![CtrLen - 1] = 1] = INT(1)
<1>1. ASSUME NEW k \in 0..(CtrLen - 1)
      PROVE  Digit(ByteMod, 1, CtrLen - 1 - k) = IF k = CtrLen - 1 THEN 1 ELSE 0
  <2>1. CASE k = CtrLen - 1
    <3>1. CtrLen - 1 - k = 0 /\ Power(ByteMod, 0) = 1
      BY Sizes, PowerType, <2>1
    <3>2. 1 \div 1 = 1 /\ 1 % ByteMod = 1
      BY Sizes, SmallMod, 1 \in 0..(ByteMod - 1)
    <3> QED
      BY <2>1, <3>1, <3>2 DEF Digit
  <2>2. CASE k # CtrLen - 1
    <3> DEFINE e == CtrLen - 1 - k
    <3>1. e \in Nat /\ e - 1 \in Nat /\ (e - 1) + 1 = e
      BY Sizes, <2>2
    <3> HIDE DEF e
    <3>2. Power(ByteMod, e) = ByteMod * Power(ByteMod, e - 1) /\ Power(ByteMod, e - 1) \in Nat \ {0}
      BY Sizes, PowerType, PowerPositive, <3>1
    <3>3. ByteMod * Power(ByteMod, e - 1) >= ByteMod
      BY Sizes, <3>2
    <3>4. 1 \in 0..(Power(ByteMod, e) - 1)
      <4>1. Power(ByteMod, e) \in Nat
        BY Sizes, PowerType, <3>1
      <4> QED
        BY Sizes, <3>2, <3>3, <4>1
    <3> QED
      BY Sizes, DigitOfSmall, <2>2, <3>1, <3>4 DEF e
  <2> QED
    BY <2>1, <2>2
<1> QED
  BY <1>1 DEF Zero, INT

LEMMA CounterMoves ==
  ASSUME NEW n \in Nat, n + 1 <= Power(ByteMod, CtrLen - 1) - 1
  PROVE  Increment(INT(n)) = INT(n + 1)
<1> DEFINE c == INT(n)
           last == CtrLen - 1
           Carries(k) == \A m \in (k + 1)..(CtrLen - 1) : c[m] = ByteMod - 1
<1>1. \A k \in 0..last : last - k \in Nat /\ c[k] = Digit(ByteMod, n, last - k)
  BY Sizes DEF INT
<1> HIDE DEF c
<1>2. ASSUME NEW k \in 0..last
      PROVE  Carries(k) <=> AllLast(ByteMod, n, last - k)
  <2>1. ASSUME AllLast(ByteMod, n, last - k), NEW m \in (k + 1)..last
        PROVE  c[m] = ByteMod - 1
    <3>1. m \in 0..last /\ last - m \in 0..((last - k) - 1)
      BY Sizes
    <3> QED
      BY <1>1, <2>1, <3>1 DEF AllLast
  <2>2. ASSUME Carries(k), NEW j \in 0..((last - k) - 1)
        PROVE  Digit(ByteMod, n, j) = ByteMod - 1
    <3>1. last - j \in (k + 1)..(CtrLen - 1) /\ last - j \in 0..last /\ last - (last - j) = j
      BY Sizes
    <3> QED
      BY <1>1, <2>2, <3>1
  <2> QED
    BY <2>1, <2>2 DEF AllLast
<1>3. ASSUME NEW k \in 0..last
      PROVE  Digit(ByteMod, n + 1, last - k) =
               IF k > 0 /\ Carries(k) THEN (c[k] + 1) % ByteMod ELSE c[k]
  <2>1. CASE k > 0
    BY Sizes, <1>1, <1>2, <2>1, DigitOfSuccessor
  <2>2. CASE k = 0
    <3>1. Power(ByteMod, last) \in Nat
      BY Sizes, PowerType
    <3>2. n \in 0..(Power(ByteMod, last) - 1) /\ n + 1 \in 0..(Power(ByteMod, last) - 1)
      BY <3>1
    <3>3. Digit(ByteMod, n, last) = 0 /\ Digit(ByteMod, n + 1, last) = 0
      BY Sizes, DigitOfSmall, <3>2
    <3> QED
      BY Sizes, <1>1, <2>2, <3>3
  <2> QED
    BY Sizes, <2>1, <2>2
<1> HIDE DEF Carries
<1>4. Increment(c) = [k \in 0..last |-> IF k > 0 /\ Carries(k) THEN (c[k] + 1) % ByteMod ELSE c[k]]
  BY DEF Increment, Carries
<1>5. INT(n + 1) = [k \in 0..last |-> Digit(ByteMod, n + 1, last - k)]
  BY DEF INT
<1> QED
  BY <1>3, <1>4, <1>5 DEF c
-----------------------------------------------------------------------------
(***************************************************************************)
(* The derived key, block by block.                                        *)
(***************************************************************************)
Count(len) == (len \div ULen) + (IF len % ULen = 0 THEN 0 ELSE 1)

KeyBlock(len, c, n) ==
  [block |-> Block(n, c), bytes |-> IF n <= len \div ULen THEN ULen ELSE len % ULen]

Pieces(len, c) == {KeyBlock(len, c, n) : n \in 1..Count(len)}

LEMMA CountType == \A len \in Nat : Count(len) \in Nat
<1> SUFFICES ASSUME NEW len \in Nat PROVE Count(len) \in Nat
  OBVIOUS
<1>1. len \div ULen \in Nat
  BY Sizes
<1> QED
  BY <1>1 DEF Count

LEMMA KeyIsSequence ==
  ASSUME NEW len \in Nat, NEW c
  PROVE  /\ DerivedKey(len, c) \in Seq(Pieces(len, c))
         /\ Len(DerivedKey(len, c)) = Count(len)
         /\ \A n \in 1..Count(len) : DerivedKey(len, c)[n] = KeyBlock(len, c, n)
<1> DEFINE key == [n \in 1..Count(len) |-> KeyBlock(len, c, n)]
<1>1. DerivedKey(len, c) = key
  BY DEF DerivedKey, Count, KeyBlock
<1>2. key \in [1..Count(len) -> Pieces(len, c)]
  BY DEF Pieces
<1>3. \A n \in 1..Count(len) : key[n] = KeyBlock(len, c, n)
  OBVIOUS
<1> HIDE DEF key
<1>4. key \in Seq(Pieces(len, c))
  BY <1>2, CountType, SeqDef
<1>5. Len(key) = Count(len)
  BY <1>2, <1>4, CountType, LenProperties
<1> QED
  BY <1>1, <1>3, <1>4, <1>5

\* What is left after m whole blocks is the next block and the ones behind it.
LEMMA NextBlock ==
  ASSUME NEW m \in Nat, NEW left \in Nat \ {0}, NEW c
  PROVE  LET len == ULen * m + left
         IN  /\ m + 1 <= Count(len)
             /\ KeyBlock(len, c, m + 1) =
                  [block |-> Block(m + 1, c), bytes |-> IF left < ULen THEN left ELSE ULen]
             /\ left <= ULen => Count(len) = m + 1
<1> DEFINE len == ULen * m + left
           q == left \div ULen
           r == left % ULen
<1>1. q \in Nat /\ r \in 0..(ULen - 1) /\ left = ULen * q + r
  <2>1. left \in Int /\ ULen \in Nat \ {0}
    BY Sizes
  <2>2. q \in Int /\ r \in 0..(ULen - 1) /\ left = ULen * q + r
    BY <2>1, DivMod, Zenon
  <2> HIDE DEF q, r
  <2>3. q <= -1 => ULen * q + ULen <= ULen * 0
    BY <2>1, <2>2, MultiplesApart
  <2> QED
    BY <2>1, <2>2, <2>3
<1>2. left + ULen * m = len
  BY Sizes
<1>3. (left + ULen * m) \div ULen = q + m /\ (left + ULen * m) % ULen = r
  <2>1. left \in Int /\ m \in Int /\ ULen \in Nat \ {0}
    BY Sizes
  <2> QED
    BY <2>1, AddMultiple, Zenon
<1>4. len \div ULen = q + m /\ len % ULen = r
  BY <1>2, <1>3
<1> HIDE DEF len, q, r
<1>5. CASE left < ULen
  <2>1. q = 0
    <3>1. q >= 1 => ULen * q >= ULen
      BY Sizes, <1>1
    <3>2. ULen * q \in Nat
      BY Sizes, <1>1
    <3> QED
      BY Sizes, <1>1, <1>5, <3>1, <3>2
  <2>2. r = left
    BY Sizes, <1>1, <2>1
  <2> QED
    BY Sizes, <1>4, <1>5, <2>1, <2>2 DEF Count, KeyBlock, len
<1>6. CASE left >= ULen
  <2>1. q >= 1
    BY Sizes, <1>1, <1>6
  <2>2. left = ULen => q = 1 /\ r = 0
    <3> SUFFICES ASSUME left = ULen PROVE q = 1 /\ r = 0
      OBVIOUS
    <3>1. ULen * q \in Nat /\ (q >= 2 => ULen * q >= ULen * 2)
      BY Sizes, <1>1
    <3>2. q = 1
      BY Sizes, <1>1, <2>1, <3>1
    <3> QED
      BY Sizes, <1>1, <3>2
  <2>3. m + 1 <= q + m
    BY <1>1, <2>1
  <2>4. m + 1 <= Count(len)
    BY <1>1, <1>4, <2>3 DEF Count
  <2>5. KeyBlock(len, c, m + 1) = [block |-> Block(m + 1, c), bytes |-> ULen]
    BY <1>4, <2>3 DEF KeyBlock
  <2>6. left <= ULen => Count(len) = m + 1
    BY Sizes, <1>4, <1>6, <2>2 DEF Count
  <2> QED
    BY Sizes, <1>6, <2>4, <2>5, <2>6 DEF len
<1> QED
  BY Sizes, <1>5, <1>6
-----------------------------------------------------------------------------
(***************************************************************************)
(* Type correctness needs that a call at work was given an iteration count *)
(* other than zero; the rest of the invariant is in TypeOK.                *)
(***************************************************************************)
TypeInv == TypeOK /\ (pc # "idle" => iters # 0)

LEMMA IncrementType == \A c \in Counter : Increment(c) \in Counter
<1> SUFFICES ASSUME NEW c \in Counter, NEW k \in 0..(CtrLen - 1)
             PROVE  /\ c[k] \in 0..(ByteMod - 1)
                    /\ (c[k] + 1) % ByteMod \in 0..(ByteMod - 1)
  BY DEF Increment, Counter
<1>1. c[k] \in 0..(ByteMod - 1)
  BY DEF Counter
<1>2. c[k] + 1 \in Int /\ ByteMod \in Nat \ {0}
  BY <1>1, Sizes
<1> QED
  BY <1>1, <1>2, DivMod

LEMMA ZeroType == Zero \in Counter /\ [Zero EXCEPT ![CtrLen - 1] = 1] \in Counter
BY Sizes DEF Zero, Counter

LEMMA TypeInvInit == Init => TypeInv
BY Pbkdf2Assumption, ZeroType DEF Init, TypeInv, TypeOK

LEMMA TypeInvNext == TypeInv /\ [Next]_vars => TypeInv'
<1> SUFFICES ASSUME TypeInv, [Next]_vars
             PROVE  TypeInv'
  OBVIOUS
<1> USE DEF TypeInv, TypeOK
<1>1. ASSUME NEW c \in Iterations, NEW len \in OutLengths, Call(c, len)
      PROVE  TypeInv'
  <2>1. c \in Nat /\ len \in Nat
    BY Pbkdf2Assumption
  <2>2. ctr' \in Counter /\ calls' \in 0..MaxCalls
    BY <1>1, ZeroType, Pbkdf2Assumption DEF Call
  <2> QED
    BY <1>1, <2>1, <2>2 DEF Call
<1>2. CASE HmacInit
  <2>1. iters \in Nat
    BY Pbkdf2Assumption
  <2> QED
    BY <1>2, <2>1 DEF HmacInit
<1>3. CASE HmacUpdate
  <2>1. iters \in Nat
    BY Pbkdf2Assumption
  <2> QED
    BY <1>3, <2>1 DEF HmacUpdate
<1>4. CASE HmacFinal
  BY <1>4 DEF HmacFinal
<1>5. CASE Emit
  <2>1. ctr' \in Counter
    BY <1>5, IncrementType DEF Emit
  <2>2. out_len' \in 0..asked
    BY <1>5, Pbkdf2Assumption DEF Emit
  <2> QED
    BY <1>5, <2>1, <2>2 DEF Emit
<1>6. CASE CallbackFails
  BY <1>6, Pbkdf2Assumption DEF CallbackFails
<1>7. CASE UNCHANGED vars
  BY <1>7 DEF vars
<1> QED
  BY <1>1, <1>2, <1>3, <1>4, <1>5, <1>6, <1>7 DEF Next

(***************************************************************************)
(* Whatever a caller asks for and wherever a callback fails, the variables *)
(* keep their types: i stays within the iterations asked for and the       *)
(* length left within the length asked for (pbkdf2.c:65-128).              *)
(***************************************************************************)
THEOREM TypeCorrect == Spec => []TypeOK
<1>1. TypeInv => TypeOK
  BY DEF TypeInv
<1> QED
  BY <1>1, TypeInvInit, TypeInvNext, PTL DEF Spec
-----------------------------------------------------------------------------
(***************************************************************************)
(* The inductive invariant: where each point of the call is in the         *)
(* computation of block n, what is written, and how much is left.          *)
(***************************************************************************)
Computing(n) ==
  /\ pc = "salt" => prf = <<>>
  /\ pc = "ctr" => prf = <<<<"salt">>>>
  /\ pc = "first" => prf = FirstItems(n)
  /\ pc = "rekey" => U = Iterate(n, 1) /\ T = Block(n, 1)
  /\ pc = "loop" => prf = <<>> /\ U = Iterate(n, i) /\ T = Block(n, i)
  /\ pc = "next" => prf = <<U>> /\ U = Iterate(n, i) /\ T = Block(n, i)
  /\ pc = "again" => U = Iterate(n, i + 1) /\ T = Block(n, i)

Working ==
  pc # "idle" =>
    /\ status = "OK"
    /\ out_len # 0
    /\ asked = ULen * Len(out) + out_len
    /\ ctr = INT(Len(out) + 1)
    /\ Computing(Len(out) + 1)

Written ==
  /\ out \in Seq(Pieces(asked, iters))
  /\ Len(out) <= Count(asked)
  /\ \A n \in 1..Len(out) : out[n] = KeyBlock(asked, iters, n)

Stopped == pc = "idle" /\ status = "OK" => Len(out) = Count(asked)

IInv == TypeInv /\ Working /\ Written /\ Stopped

LEMMA AppendSecond == ASSUME NEW a, NEW b PROVE Append(<<a>>, b) = <<a, b>>
<1> DEFINE S == {a, b}
<1>1. a \in S /\ b \in S
  OBVIOUS
<1> HIDE DEF S
<1>2. <<a>> \in Seq(S) /\ Len(<<a>>) = 1 /\ <<a>>[1] = a
  BY <1>1
<1>3. <<a, b>> \in Seq(S) /\ Len(<<a, b>>) = 2 /\ <<a, b>>[1] = a /\ <<a, b>>[2] = b
  BY <1>1
<1>4. /\ Append(<<a>>, b) \in Seq(S) /\ Len(Append(<<a>>, b)) = 2
      /\ Append(<<a>>, b)[1] = a /\ Append(<<a>>, b)[2] = b
  BY <1>1, <1>2, AppendProperties, 1 \in 1..1
<1>5. \A k \in 1..2 : Append(<<a>>, b)[k] = <<a, b>>[k]
  BY <1>3, <1>4
<1> QED
  BY <1>3, <1>4, <1>5, SeqEqual

LEMMA NothingWritten ==
  ASSUME NEW len \in Nat, NEW c
  PROVE  /\ <<>> \in Seq(Pieces(len, c))
         /\ Len(<<>>) = 0 /\ 0 <= Count(len)
         /\ \A n \in 1..0 : <<>>[n] = KeyBlock(len, c, n)
BY CountType

LEMMA InitIInv == Init => IInv
<1> SUFFICES ASSUME Init PROVE IInv
  OBVIOUS
<1>1. TypeInv
  BY TypeInvInit
<1>2. Working
  BY DEF Init, Working
<1>3. Written
  BY NothingWritten DEF Init, Written
<1>4. Stopped
  <2>1. 0 \div ULen = 0 /\ 0 % ULen = 0
    BY Sizes, SmallMod, 0 \in 0..(ULen - 1)
  <2>2. Len(<<>>) = 0
    OBVIOUS
  <2> QED
    BY <2>1, <2>2 DEF Init, Stopped, Count
<1> QED
  BY <1>1, <1>2, <1>3, <1>4 DEF IInv

\* The steps that compute a block write nothing.
LEMMA Computed ==
  ASSUME IInv, TypeInv', pc # "idle", pc' # "idle",
         UNCHANGED <<ctr, iters, out_len, out, status, asked>>,
         Computing(Len(out) + 1)'
  PROVE  IInv'
BY DEF IInv, Working, Written, Stopped

LEMMA CallKeepsIInv ==
  ASSUME pc = "idle", TypeInv', NEW c \in Iterations, NEW len \in OutLengths, Call(c, len)
  PROVE  IInv'
<1>1. len \in Nat
  BY Pbkdf2Assumption
<1>2. Written'
  BY <1>1, NothingWritten DEF Call, Written
<1>3. CASE c = 0 \/ len = 0
  BY <1>2, <1>3 DEF Call, IInv, Working, Stopped
<1>4. CASE ~(c = 0 \/ len = 0)
  <2>1. Len(out') = 0 /\ ULen * 0 + len = len /\ 0 + 1 = 1
    BY <1>1, Sizes DEF Call
  <2>2. ctr' = INT(1)
    BY <1>4, FirstCounter DEF Call
  <2>3. pc' = "init" /\ status' = "OK" /\ out_len' = len /\ asked' = len
    BY <1>4 DEF Call
  <2>4. Working'
    BY <1>4, <2>1, <2>2, <2>3 DEF Working, Computing
  <2> QED
    BY <1>2, <2>3, <2>4 DEF IInv, Stopped
<1> QED
  BY <1>3, <1>4

LEMMA HmacInitKeepsIInv == ASSUME IInv, TypeInv', HmacInit PROVE IInv'
<1> DEFINE n == Len(out) + 1
<1>1. pc # "idle" /\ pc' # "idle" /\ UNCHANGED <<ctr, U, iters, out_len, out, status, asked>>
  BY DEF HmacInit
<1>2. Computing(n)
  BY <1>1 DEF IInv, Working
<1>3. Computing(n)'
  <2>1. n' = n
    BY <1>1
  <2> HIDE DEF n
  <2>2. CASE pc = "init"
    BY <2>1, <2>2 DEF HmacInit, Computing
  <2>3. CASE pc = "rekey"
    BY <1>2, <2>1, <2>3 DEF HmacInit, Computing
  <2>4. CASE pc = "again"
    <3>1. i \in Nat \ {0}
      BY <2>4, Pbkdf2Assumption DEF IInv, TypeInv, TypeOK
    <3>2. T' = Block(n, i + 1) /\ U' = Iterate(n, i + 1)
      BY <1>1, <1>2, <2>4, <3>1, BlockGrows DEF HmacInit, Computing
    <3> QED
      BY <2>1, <2>4, <3>2 DEF HmacInit, Computing
  <2> QED
    BY <2>2, <2>3, <2>4 DEF HmacInit
<1> QED
  BY <1>1, <1>3, Computed

LEMMA HmacUpdateKeepsIInv == ASSUME IInv, TypeInv', HmacUpdate PROVE IInv'
<1> DEFINE n == Len(out) + 1
<1>1. pc # "idle" /\ pc' # "idle" /\ UNCHANGED <<ctr, U, T, i, iters, out_len, out, status, asked>>
  BY DEF HmacUpdate
<1>2. Computing(n) /\ ctr = INT(n)
  BY <1>1 DEF IInv, Working
<1>3. Computing(n)'
  <2>1. n' = n
    BY <1>1
  <2> HIDE DEF n
  <2>2. CASE pc = "salt"
    <3>1. Append(<<>>, <<"salt">>) = <<<<"salt">>>>
      OBVIOUS
    <3> QED
      BY <1>2, <2>1, <2>2, <3>1 DEF HmacUpdate, Computing
  <2>3. CASE pc = "ctr"
    <3>1. Append(<<<<"salt">>>>, <<"ctr", INT(n)>>) = FirstItems(n)
      BY AppendSecond, Zenon DEF FirstItems
    <3> QED
      BY <1>2, <2>1, <2>3, <3>1 DEF HmacUpdate, Computing
  <2>4. CASE pc = "loop"
    <3>1. Append(<<>>, U) = <<U>>
      OBVIOUS
    <3> QED
      BY <1>1, <1>2, <2>1, <2>4, <3>1 DEF HmacUpdate, Computing
  <2> QED
    BY <2>2, <2>3, <2>4 DEF HmacUpdate
<1> QED
  BY <1>1, <1>3, Computed

LEMMA HmacFinalKeepsIInv == ASSUME IInv, TypeInv', HmacFinal PROVE IInv'
<1> DEFINE n == Len(out) + 1
<1>1. pc # "idle" /\ pc' # "idle" /\ UNCHANGED <<ctr, i, iters, out_len, out, status, asked>>
  BY DEF HmacFinal
<1>2. Computing(n)
  BY <1>1 DEF IInv, Working
<1>3. Computing(n)'
  <2>1. n' = n
    BY <1>1
  <2> HIDE DEF n
  <2>2. CASE pc = "first"
    BY <1>2, <2>1, <2>2, BlockGrows, 1 \in Nat \ {0} DEF HmacFinal, Computing
  <2>3. CASE pc = "next"
    <3>1. i \in Nat \ {0}
      BY <2>3, Pbkdf2Assumption DEF IInv, TypeInv, TypeOK
    <3>2. U' = Iterate(n, i + 1) /\ T' = Block(n, i)
      BY <1>2, <2>3, <3>1, BlockGrows DEF HmacFinal, Computing
    <3> QED
      BY <1>1, <2>1, <2>3, <3>2 DEF HmacFinal, Computing
  <2> QED
    BY <2>2, <2>3 DEF HmacFinal
<1> QED
  BY <1>1, <1>3, Computed

LEMMA FailureKeepsIInv == ASSUME IInv, TypeInv', CallbackFails PROVE IInv'
BY DEF IInv, CallbackFails, Working, Written, Stopped

\* A block more is written, the last one when the call stops.
LEMMA EmitKeepsIInv ==
  ASSUME Numbered(asked), IInv, TypeInv', Emit
  PROVE  IInv'
<1> DEFINE m == Len(out)
           use == IF out_len < ULen THEN out_len ELSE ULen
<1>1. /\ pc = "loop" /\ i >= iters /\ i = iters
      /\ m \in Nat /\ out_len \in Nat \ {0} /\ asked \in OutLengths
      /\ asked = ULen * m + out_len
  BY Pbkdf2Assumption DEF IInv, TypeInv, TypeOK, Working, Written, Emit
<1>2. T = Block(m + 1, iters) /\ ctr = INT(m + 1)
  BY <1>1 DEF IInv, Working, Computing
<1>3. /\ m + 1 <= Count(asked)
      /\ KeyBlock(asked, iters, m + 1) = [block |-> T, bytes |-> use]
      /\ out_len <= ULen => Count(asked) = m + 1
  BY <1>1, <1>2, NextBlock
<1>4. /\ out' = Append(out, [block |-> T, bytes |-> use]) /\ out_len' = out_len - use
      /\ pc' = IF out_len' = 0 THEN "idle" ELSE "init"
      /\ UNCHANGED <<iters, status, asked>> /\ ctr' = Increment(ctr)
  BY DEF Emit
<1>5. /\ out' \in Seq(Pieces(asked, iters)) /\ Len(out') = m + 1
      /\ \A n \in 1..(m + 1) : out'[n] = KeyBlock(asked, iters, n)
  <2>1. out \in Seq(Pieces(asked, iters)) /\ \A n \in 1..m : out[n] = KeyBlock(asked, iters, n)
    BY DEF IInv, Written
  <2>2. KeyBlock(asked, iters, m + 1) \in Pieces(asked, iters)
    BY <1>1, <1>3 DEF Pieces
  <2>3. out' = Append(out, KeyBlock(asked, iters, m + 1))
    BY <1>3, <1>4
  <2> HIDE DEF use
  <2> QED
    BY <2>1, <2>2, <2>3, AppendProperties
<1>6. Written'
  BY <1>3, <1>4, <1>5 DEF Written
<1>7. CASE out_len <= ULen
  <2>1. pc' = "idle"
    BY <1>1, <1>4, <1>7, Sizes
  <2> QED
    BY <1>3, <1>4, <1>5, <1>6, <1>7, <2>1 DEF IInv, Working, Stopped
<1>8. CASE out_len > ULen
  <2>1. out_len' = out_len - ULen /\ out_len' # 0 /\ pc' = "init"
    BY <1>1, <1>4, <1>8, Sizes
  <2>2. ULen * (m + 1) = ULen * m + ULen
    BY <1>1, Sizes
  <2>3. asked' = ULen * Len(out') + out_len'
    BY <1>1, <1>4, <1>5, <2>1, <2>2, Sizes
  <2>4. (m + 1) + 1 <= Power(ByteMod, CtrLen - 1) - 1
    <3>1. PICK top \in Int : top = Power(ByteMod, CtrLen - 1) - 1
      BY Sizes, PowerType
    <3>2. ULen * m + out_len <= ULen * top
      BY <1>1, <3>1 DEF Numbered
    <3>3. ULen * (m + 1) < ULen * top
      BY <1>1, <1>8, <2>2, <3>1, <3>2, Sizes
    <3>4. top <= m + 1 => ULen * top <= ULen * (m + 1)
      BY <1>1, <3>1, Sizes, MultiplesApart
    <3> QED
      BY SMTT(30), <1>1, <3>1, <3>3, <3>4, Sizes
  <2>5. ctr' = INT(Len(out') + 1)
    BY <1>1, <1>2, <1>4, <1>5, <2>4, CounterMoves, m + 1 \in Nat
  <2>6. status' = "OK"
    BY <1>1, <1>4 DEF IInv, Working
  <2>7. Working'
    BY <2>1, <2>3, <2>5, <2>6 DEF Working, Computing
  <2> QED
    BY <1>6, <2>1, <2>7 DEF IInv, Stopped
<1> QED
  BY <1>1, <1>7, <1>8, Sizes

(***************************************************************************)
(* A call that needs more numbers may be under way, or have come before:   *)
(* nothing is known of it but its types, and the next call starts afresh.  *)
(***************************************************************************)
CInv == TypeInv /\ (Numbered(asked) => IInv)

LEMMA InitCInv == Init => CInv
BY InitIInv DEF CInv, IInv

LEMMA NextCInv == CInv /\ [Next]_vars => CInv'
<1> SUFFICES ASSUME CInv, [Next]_vars
             PROVE  CInv'
  OBVIOUS
<1>1. TypeInv'
  BY TypeInvNext DEF CInv
<1>2. CASE UNCHANGED vars
  <2>1. asked' = asked
    BY <1>2 DEF vars
  <2>2. IInv => IInv'
    BY <1>1, <1>2 DEF vars, IInv, Working, Computing, Written, Stopped
  <2> QED
    BY <1>1, <2>1, <2>2 DEF CInv
<1>3. CASE \E c \in Iterations, len \in OutLengths : Call(c, len)
  <2>1. PICK c \in Iterations, len \in OutLengths : Call(c, len)
    BY <1>3
  <2>2. pc = "idle"
    BY <2>1 DEF Call
  <2>3. IInv'
    BY <1>1, <2>1, <2>2, CallKeepsIInv
  <2> QED
    BY <1>1, <2>3 DEF CInv
<1>4. CASE HmacInit \/ HmacUpdate \/ HmacFinal \/ Emit \/ CallbackFails
  <2>1. asked' = asked
    BY <1>4 DEF HmacInit, HmacUpdate, HmacFinal, Emit, CallbackFails
  <2>2. Numbered(asked) => IInv'
    BY <1>1, <1>4, HmacInitKeepsIInv, HmacUpdateKeepsIInv, HmacFinalKeepsIInv,
       EmitKeepsIInv, FailureKeepsIInv DEF CInv
  <2> QED
    BY <1>1, <2>1, <2>2 DEF CInv
<1> QED
  BY <1>2, <1>3, <1>4 DEF Next

LEMMA WrittenIsBeginning == IInv => OutputIsDerivedKey
<1> SUFFICES ASSUME IInv PROVE OutputIsDerivedKey
  OBVIOUS
<1> DEFINE key == DerivedKey(asked, iters)
           S == Pieces(asked, iters)
           beginning == SubSeq(key, 1, Len(out))
<1>1. asked \in Nat
  BY Pbkdf2Assumption DEF IInv, TypeInv, TypeOK
<1>2. /\ key \in Seq(S) /\ Len(key) = Count(asked)
      /\ \A n \in 1..Count(asked) : key[n] = KeyBlock(asked, iters, n)
  BY <1>1, KeyIsSequence
<1>3. /\ out \in Seq(S) /\ Len(out) \in Nat /\ Len(out) <= Len(key)
      /\ \A n \in 1..Len(out) : out[n] = KeyBlock(asked, iters, n)
  BY <1>2, LenProperties DEF IInv, Written
<1> HIDE DEF key, S
<1>4. /\ beginning \in Seq(S) /\ Len(beginning) = Len(out)
      /\ \A n \in 1..Len(out) : beginning[n] = key[n]
  <2>1. 1 \in 1..(Len(key) + 1) /\ Len(out) \in 0..Len(key) /\ Len(key) \in Nat
    BY <1>1, <1>2, <1>3, CountType
  <2> QED
    BY <1>2, <1>3, <2>1
<1>5. ASSUME NEW n \in 1..Len(out)
      PROVE  beginning[n] = out[n]
  <2>1. n \in 1..Count(asked)
    BY <1>1, <1>2, <1>3, CountType
  <2> QED
    BY <1>2, <1>3, <1>4, <2>1, Zenon
<1> HIDE DEF beginning
<1>6. out = beginning
  BY <1>3, <1>4, <1>5, SeqEqual
<1> QED
  BY <1>2, <1>6 DEF OutputIsDerivedKey, IInv, Stopped, key, beginning

(***************************************************************************)
(* For every call whose block numbers fit in the bytes of the increment    *)
(* (2^24 - 1 blocks), whatever calls came before it, whatever the hash size *)
(* and the iterations and wherever a callback fails: what is in out is the *)
(* beginning of the derived key of RFC 2898 and, when the function returns *)
(* OK, all of it (pbkdf2.c:65-128).                                        *)
(***************************************************************************)
THEOREM OutputCorrect == Spec => [](Numbered(asked) => OutputIsDerivedKey)
<1>1. CInv => (Numbered(asked) => OutputIsDerivedKey)
  BY WrittenIsBeginning DEF CInv
<1> QED
  BY <1>1, InitCInv, NextCInv, PTL DEF Spec

(***************************************************************************)
(* Under the same bound the counter of every block of the call is the      *)
(* number of the block, through all the carries between its bytes          *)
(* (pbkdf2.c:119-127); the run pbkdf2_wrap shows that one block more       *)
(* breaks it.                                                              *)
(***************************************************************************)
THEOREM CounterCorrect == Spec => [](Numbered(asked) => CounterIsBlockNumber)
<1>1. CInv => (Numbered(asked) => CounterIsBlockNumber)
  BY DEF CInv, IInv, Working, CounterIsBlockNumber
<1> QED
  BY <1>1, InitCInv, NextCInv, PTL DEF Spec
-----------------------------------------------------------------------------
(***************************************************************************)
(* Every step of a call ends it or leaves less to do: for any number of    *)
(* iterations, any length, and callbacks that fail anywhere                *)
(* (pbkdf2.c:65-128).                                                      *)
(***************************************************************************)
LEMMA WorkIs ==
  /\ pc = "init" => Work = 3 * iters + 4
  /\ pc = "salt" => Work = 3 * iters + 3
  /\ pc = "ctr" => Work = 3 * iters + 2
  /\ pc = "first" => Work = 3 * iters + 1
  /\ pc = "rekey" => Work = 3 * iters
  /\ pc = "loop" => Work = 3 * (iters - i)
  /\ pc = "next" => Work = 3 * (iters - i) - 1
  /\ pc = "again" => Work = 3 * (iters - i) - 2
BY DEF Work

LEMMA Shrinks ==
  ASSUME TypeInv, TypeInv', Next, pc # "idle", pc' # "idle"
  PROVE  /\ out_len' \in Nat /\ Work' \in Nat
         /\ out_len' < out_len \/ (out_len' = out_len /\ Work' < Work)
<1>1. /\ out_len \in Nat /\ out_len' \in Nat /\ iters \in Nat \ {0}
      /\ pc = "loop" => i \in 1..iters
      /\ pc \in {"next", "again"} => i \in 1..(iters - 1)
      /\ asked \in Nat /\ asked' \in Nat
  BY Pbkdf2Assumption DEF TypeInv, TypeOK
<1>2. /\ pc' = "init" => Work' = 3 * iters' + 4
      /\ pc' = "salt" => Work' = 3 * iters' + 3
      /\ pc' = "ctr" => Work' = 3 * iters' + 2
      /\ pc' = "first" => Work' = 3 * iters' + 1
      /\ pc' = "rekey" => Work' = 3 * iters'
      /\ pc' = "loop" => Work' = 3 * (iters' - i')
      /\ pc' = "next" => Work' = 3 * (iters' - i') - 1
      /\ pc' = "again" => Work' = 3 * (iters' - i') - 2
  BY DEF Work
<1>3. CASE HmacInit
  BY <1>1, <1>2, <1>3, WorkIs DEF HmacInit
<1>4. CASE HmacUpdate
  BY <1>1, <1>2, <1>4, WorkIs DEF HmacUpdate
<1>5. CASE HmacFinal
  BY <1>1, <1>2, <1>5, WorkIs DEF HmacFinal
<1>6. CASE Emit
  <2>1. out_len' < out_len /\ pc' = "init" /\ iters' = iters
    BY <1>1, <1>6, Pbkdf2Assumption DEF Emit
  <2>. QED
    BY <1>1, <1>2, <2>1
<1>. QED
  BY <1>3, <1>4, <1>5, <1>6 DEF Next, Call, CallbackFails

THEOREM CallsShrink == Spec => CallShrinks
<1>1. TypeInv /\ TypeInv' /\ [Next]_vars =>
        [pc # "idle" /\ pc' # "idle" =>
           /\ out_len' \in Nat /\ Work' \in Nat
           /\ out_len' < out_len \/ (out_len' = out_len /\ Work' < Work)]_vars
  BY Shrinks
<1>. QED
  BY <1>1, TypeInvInit, TypeInvNext, PTL DEF Spec, CallShrinks
=============================================================================
