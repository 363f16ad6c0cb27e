-------------------------- MODULE PrimitivesProofs --------------------------
(***************************************************************************)
(* Proofs about the primitives.                                            *)
(*                                                                         *)
(* AesCipher: decryption goes back through the states of encryption, for   *)
(* every key, every block and every pair of substitution tables that are   *)
(* inverse to each other.                                                  *)
(*                                                                         *)
(* AesModes: every mode puts out what the standard defines, and changes    *)
(* nothing else but the byte behind its buffer, for every block cipher,    *)
(* every size of a block and every call.                                   *)
(*                                                                         *)
(* Rc4: s stays a permutation of the bytes, and a second pass gives the    *)
(* data back, for every number of rounds, key, message and number of       *)
(* skipped bytes.                                                          *)
(*                                                                         *)
(* Drbg: no seed is hashed twice before all have been, for every size of   *)
(* the seed and every seed to start from.                                  *)
(***************************************************************************)
EXTENDS Rc4, AesCipher, AesModes, Drbg, Arithmetic

-----------------------------------------------------------------------------
Block == [0..15 -> Byte]

(***************************************************************************)
(* Bytes as sets of bits: their sum is the symmetric difference.           *)
(***************************************************************************)
LEMMA XorByteType == \A x, y \in Byte : XorBits(x, y) \in Byte
BY DEF XorBits, Byte

LEMMA XorTwice == \A x, y : XorBits(XorBits(x, y), y) = x
BY DEF XorBits

LEMMA XorSelf == \A x : XorBits(x, x) = {} /\ XorBits(x, {}) = x /\ XorBits({}, x) = x
BY DEF XorBits

LEMMA XorCommutes == \A x, y : XorBits(x, y) = XorBits(y, x)
BY DEF XorBits

LEMMA XorAssociates == \A x, y, z : XorBits(XorBits(x, y), z) = XorBits(x, XorBits(y, z))
BY DEF XorBits

\* The bits of a byte that was shifted.
LEMMA XtimeBits ==
  ASSUME NEW x \in Byte, NEW b
  PROVE  b \in xtime(x) <=>
           /\ b \in 0..7
           /\ (b # 0 /\ b - 1 \in x) # (7 \in x /\ b \in {0, 1, 3, 4})
BY DEF xtime, XorBits, Byte

LEMMA XtimeType == \A x \in Byte : xtime(x) \in Byte
BY XtimeBits DEF Byte

(***************************************************************************)
(* The shift is linear, and with it all products by constants.             *)
(***************************************************************************)
LEMMA XtimeLinear ==
  ASSUME NEW x \in Byte, NEW y \in Byte
  PROVE  xtime(XorBits(x, y)) = XorBits(xtime(x), xtime(y))
<1>1. XorBits(x, y) \in Byte
  BY XorByteType
<1>2. ASSUME NEW b \in 0..7
      PROVE  b \in xtime(XorBits(x, y)) <=> b \in XorBits(xtime(x), xtime(y))
  BY <1>1, XtimeBits DEF XorBits
<1>3. xtime(XorBits(x, y)) \subseteq 0..7 /\ XorBits(xtime(x), xtime(y)) \subseteq 0..7
  BY <1>1, XtimeType, XorByteType DEF Byte
<1>. QED
  BY <1>2, <1>3

(***************************************************************************)
(* The products by the coefficients of the two vectors, each as a sum of   *)
(* shifts, applied to a sum and to a shift.                                *)
(***************************************************************************)
Coefficients == {1, 2, 3, 9, 11, 13, 14}

LEMMA Products ==
  ASSUME NEW x
  PROVE  /\ gf_mult(1, x) = x
         /\ gf_mult(2, x) = x2(x)
         /\ gf_mult(3, x) = XorBits(x2(x), x)
         /\ gf_mult(9, x) = XorBits(x8(x), x)
         /\ gf_mult(11, x) = XorBits(XorBits(x8(x), x2(x)), x)
         /\ gf_mult(13, x) = XorBits(XorBits(x8(x), x4(x)), x)
         /\ gf_mult(14, x) = XorBits(XorBits(x8(x), x4(x)), x2(x))
BY DEF gf_mult

LEMMA ShiftsType ==
  ASSUME NEW x \in Byte
  PROVE  x2(x) \in Byte /\ x4(x) \in Byte /\ x8(x) \in Byte
BY XtimeType DEF x2, x4, x8

LEMMA ShiftsLinear ==
  ASSUME NEW x \in Byte, NEW y \in Byte
  PROVE  /\ x2(XorBits(x, y)) = XorBits(x2(x), x2(y))
         /\ x4(XorBits(x, y)) = XorBits(x4(x), x4(y))
         /\ x8(XorBits(x, y)) = XorBits(x8(x), x8(y))
<1>1. x2(XorBits(x, y)) = XorBits(x2(x), x2(y))
  BY XtimeLinear DEF x2
<1>2. x4(XorBits(x, y)) = XorBits(x4(x), x4(y))
  BY XtimeLinear, XtimeType DEF x4
<1>3. x8(XorBits(x, y)) = XorBits(x8(x), x8(y))
  BY XtimeLinear, XtimeType DEF x8
<1>. QED
  BY <1>1, <1>2, <1>3

LEMMA ProductType == \A a \in Coefficients, x \in Byte : gf_mult(a, x) \in Byte
<1> SUFFICES ASSUME NEW a \in Coefficients, NEW x \in Byte PROVE gf_mult(a, x) \in Byte
  OBVIOUS
<1>1. x2(x) \in Byte /\ x4(x) \in Byte /\ x8(x) \in Byte
  BY ShiftsType
<1>. QED
  BY <1>1, Products, XorByteType DEF Coefficients

(***************************************************************************)
(* Sums of four, and the sum of a square of sixteen by rows and columns.   *)
(***************************************************************************)
Sum4(a, b, c, d) == XorBits(XorBits(a, b), XorBits(c, d))

LEMMA Interchange ==
  \A a, b, c, d : XorBits(XorBits(a, b), XorBits(c, d)) = XorBits(XorBits(a, c), XorBits(b, d))
BY DEF XorBits

LEMMA SumOfSums ==
  ASSUME NEW a0, NEW a1, NEW a2, NEW a3, NEW b0, NEW b1, NEW b2, NEW b3
  PROVE  XorBits(Sum4(a0, a1, a2, a3), Sum4(b0, b1, b2, b3)) =
           Sum4(XorBits(a0, b0), XorBits(a1, b1), XorBits(a2, b2), XorBits(a3, b3))
<1>1. XorBits(Sum4(a0, a1, a2, a3), Sum4(b0, b1, b2, b3)) =
        XorBits(XorBits(XorBits(a0, a1), XorBits(b0, b1)), XorBits(XorBits(a2, a3), XorBits(b2, b3)))
  BY Interchange DEF Sum4
<1>2. /\ XorBits(XorBits(a0, a1), XorBits(b0, b1)) = XorBits(XorBits(a0, b0), XorBits(a1, b1))
      /\ XorBits(XorBits(a2, a3), XorBits(b2, b3)) = XorBits(XorBits(a2, b2), XorBits(a3, b3))
  BY Interchange
<1>. QED
  BY <1>1, <1>2 DEF Sum4

LEMMA Transposed ==
  ASSUME NEW a0, NEW a1, NEW a2, NEW a3, NEW b0, NEW b1, NEW b2, NEW b3,
         NEW c0, NEW c1, NEW c2, NEW c3, NEW d0, NEW d1, NEW d2, NEW d3
  PROVE  Sum4(Sum4(a0, a1, a2, a3), Sum4(b0, b1, b2, b3), Sum4(c0, c1, c2, c3), Sum4(d0, d1, d2, d3)) =
           Sum4(Sum4(a0, b0, c0, d0), Sum4(a1, b1, c1, d1), Sum4(a2, b2, c2, d2), Sum4(a3, b3, c3, d3))
<1> DEFINE AB == XorBits(Sum4(a0, a1, a2, a3), Sum4(b0, b1, b2, b3))
           CD == XorBits(Sum4(c0, c1, c2, c3), Sum4(d0, d1, d2, d3))
<1>1. AB = Sum4(XorBits(a0, b0), XorBits(a1, b1), XorBits(a2, b2), XorBits(a3, b3))
  BY SumOfSums
<1>2. CD = Sum4(XorBits(c0, d0), XorBits(c1, d1), XorBits(c2, d2), XorBits(c3, d3))
  BY SumOfSums
<1>3. XorBits(AB, CD) = Sum4(XorBits(XorBits(a0, b0), XorBits(c0, d0)), XorBits(XorBits(a1, b1), XorBits(c1, d1)),
                             XorBits(XorBits(a2, b2), XorBits(c2, d2)), XorBits(XorBits(a3, b3), XorBits(c3, d3)))
  <2> HIDE DEF AB, CD
  <2>. QED
    BY <1>1, <1>2, SumOfSums
<1>. QED
  BY <1>3 DEF Sum4

LEMMA ProductOfXor ==
  ASSUME NEW a \in Coefficients, NEW x \in Byte, NEW y \in Byte
  PROVE  gf_mult(a, XorBits(x, y)) = XorBits(gf_mult(a, x), gf_mult(a, y))
<1> DEFINE z == XorBits(x, y)
<1>1. x2(z) = XorBits(x2(x), x2(y)) /\ x4(z) = XorBits(x4(x), x4(y)) /\ x8(z) = XorBits(x8(x), x8(y))
  BY ShiftsLinear
<1>2. \A p, q, r, t : XorBits(XorBits(p, q), XorBits(r, t)) = XorBits(XorBits(p, r), XorBits(q, t))
  BY Interchange
<1> HIDE DEF z
<1>3. gf_mult(1, z) = z /\ gf_mult(2, z) = XorBits(gf_mult(2, x), gf_mult(2, y))
  BY <1>1, Products
<1>4. gf_mult(3, z) = XorBits(gf_mult(3, x), gf_mult(3, y))
  BY <1>1, <1>2, Products DEF z
<1>5. gf_mult(9, z) = XorBits(gf_mult(9, x), gf_mult(9, y))
  BY <1>1, <1>2, Products DEF z
<1>6. gf_mult(11, z) = XorBits(gf_mult(11, x), gf_mult(11, y))
  <2>1. XorBits(x8(z), x2(z)) = XorBits(XorBits(x8(x), x2(x)), XorBits(x8(y), x2(y)))
    BY <1>1, <1>2
  <2>. QED
    BY <2>1, <1>2, Products DEF z
<1>7. gf_mult(13, z) = XorBits(gf_mult(13, x), gf_mult(13, y))
  <2>1. XorBits(x8(z), x4(z)) = XorBits(XorBits(x8(x), x4(x)), XorBits(x8(y), x4(y)))
    BY <1>1, <1>2
  <2>. QED
    BY <2>1, <1>2, Products DEF z
<1>8. gf_mult(14, z) = XorBits(gf_mult(14, x), gf_mult(14, y))
  <2>1. XorBits(x8(z), x4(z)) = XorBits(XorBits(x8(x), x4(x)), XorBits(x8(y), x4(y)))
    BY <1>1, <1>2
  <2>. QED
    BY <2>1, <1>1, <1>2, Products
<1>9. gf_mult(1, z) = XorBits(gf_mult(1, x), gf_mult(1, y))
  BY <1>3, Products DEF z
<1>. QED
  BY <1>3, <1>4, <1>5, <1>6, <1>7, <1>8, <1>9 DEF Coefficients, z

Distributes(a, p, q, r, t) ==
  gf_mult(a, Sum4(p, q, r, t)) =
    Sum4(gf_mult(a, p), gf_mult(a, q), gf_mult(a, r), gf_mult(a, t))

LEMMA ProductOfSum ==
  ASSUME NEW a \in Coefficients,
         NEW p \in Byte, NEW q \in Byte, NEW r \in Byte, NEW t \in Byte
  PROVE  Distributes(a, p, q, r, t)
BY ProductOfXor, XorByteType DEF Sum4, Distributes

(***************************************************************************)
(* The products of the two vectors' coefficients: row by column they are   *)
(* the unit matrix.  All are sums of the byte shifted up to four times.    *)
(***************************************************************************)
LEMMA TwoProducts ==
  ASSUME NEW x \in Byte, NEW t1, NEW t2, NEW t3, NEW t4,
         t1 = xtime(x), t2 = xtime(t1), t3 = xtime(t2), t4 = xtime(t3)
  PROVE  /\ gf_mult(9, gf_mult(1, x)) = XorBits(t3, x)
         /\ gf_mult(11, gf_mult(1, x)) = XorBits(XorBits(t3, t1), x)
         /\ gf_mult(13, gf_mult(1, x)) = XorBits(XorBits(t3, t2), x)
         /\ gf_mult(14, gf_mult(1, x)) = XorBits(XorBits(t3, t2), t1)
         /\ gf_mult(9, gf_mult(2, x)) = XorBits(t4, t1)
         /\ gf_mult(11, gf_mult(2, x)) = XorBits(XorBits(t4, t2), t1)
         /\ gf_mult(13, gf_mult(2, x)) = XorBits(XorBits(t4, t3), t1)
         /\ gf_mult(14, gf_mult(2, x)) = XorBits(XorBits(t4, t3), t2)
         /\ \A a \in Coefficients : gf_mult(a, gf_mult(3, x)) =
              XorBits(gf_mult(a, gf_mult(2, x)), gf_mult(a, gf_mult(1, x)))
<1>1. x2(x) = t1 /\ x4(x) = t2 /\ x8(x) = t3 /\ x2(t1) = t2 /\ x4(t1) = t3 /\ x8(t1) = t4
  BY DEF x2, x4, x8
<1>2. gf_mult(1, x) = x /\ gf_mult(2, x) = t1
  BY <1>1, Products
<1>3. \A a \in Coefficients : gf_mult(a, gf_mult(3, x)) =
        XorBits(gf_mult(a, gf_mult(2, x)), gf_mult(a, gf_mult(1, x)))
  <2>1. gf_mult(3, x) = XorBits(gf_mult(2, x), gf_mult(1, x))
    BY Products
  <2>2. gf_mult(1, x) \in Byte /\ gf_mult(2, x) \in Byte
    BY ProductType DEF Coefficients
  <2>. QED
    BY <2>1, <2>2, ProductOfXor
<1>4. /\ gf_mult(9, x) = XorBits(t3, x) /\ gf_mult(11, x) = XorBits(XorBits(t3, t1), x)
      /\ gf_mult(13, x) = XorBits(XorBits(t3, t2), x) /\ gf_mult(14, x) = XorBits(XorBits(t3, t2), t1)
  BY <1>1, Products
<1>5. /\ gf_mult(9, t1) = XorBits(t4, t1) /\ gf_mult(11, t1) = XorBits(XorBits(t4, t2), t1)
      /\ gf_mult(13, t1) = XorBits(XorBits(t4, t3), t1) /\ gf_mult(14, t1) = XorBits(XorBits(t4, t3), t2)
  BY <1>1, Products
<1>. QED
  BY <1>2, <1>3, <1>4, <1>5

\* What a row of the inverse vector makes of one byte of a mixed column.
Inner(i0, i1, i2, i3, x) ==
  Sum4(gf_mult(i0, gf_mult(2, x)), gf_mult(i1, gf_mult(1, x)),
       gf_mult(i2, gf_mult(1, x)), gf_mult(i3, gf_mult(3, x)))

LEMMA UnitProducts ==
  ASSUME NEW x \in Byte
  PROVE  /\ Inner(14, 11, 13, 9, x) = x
         /\ Inner(9, 14, 11, 13, x) = {}
         /\ Inner(13, 9, 14, 11, x) = {}
         /\ Inner(11, 13, 9, 14, x) = {}
<1>1. PICK t1, t2, t3, t4 : t1 = xtime(x) /\ t2 = xtime(t1) /\ t3 = xtime(t2) /\ t4 = xtime(t3)
  OBVIOUS
<1> DEFINE P(a, b) == gf_mult(a, gf_mult(b, x))
<1>2. /\ P(9, 1) = XorBits(t3, x)
      /\ P(11, 1) = XorBits(XorBits(t3, t1), x)
      /\ P(13, 1) = XorBits(XorBits(t3, t2), x)
      /\ P(14, 1) = XorBits(XorBits(t3, t2), t1)
      /\ P(9, 2) = XorBits(t4, t1)
      /\ P(11, 2) = XorBits(XorBits(t4, t2), t1)
      /\ P(13, 2) = XorBits(XorBits(t4, t3), t1)
      /\ P(14, 2) = XorBits(XorBits(t4, t3), t2)
      /\ \A a \in Coefficients : P(a, 3) = XorBits(P(a, 2), P(a, 1))
  BY <1>1, TwoProducts
<1>3. /\ P(9, 3) = XorBits(XorBits(t4, t1), XorBits(t3, x))
      /\ P(11, 3) = XorBits(XorBits(XorBits(t4, t2), t1), XorBits(XorBits(t3, t1), x))
      /\ P(13, 3) = XorBits(XorBits(XorBits(t4, t3), t1), XorBits(XorBits(t3, t2), x))
      /\ P(14, 3) = XorBits(XorBits(XorBits(t4, t3), t2), XorBits(XorBits(t3, t2), t1))
  BY <1>2 DEF Coefficients
<1> HIDE DEF P
<1>4. Sum4(P(14, 2), P(11, 1), P(13, 1), P(9, 3)) = x
  BY <1>2, <1>3 DEF Sum4, XorBits
<1>5. Sum4(P(9, 2), P(14, 1), P(11, 1), P(13, 3)) = {}
  BY <1>2, <1>3 DEF Sum4, XorBits
<1>6. Sum4(P(13, 2), P(9, 1), P(14, 1), P(11, 3)) = {}
  BY <1>2, <1>3 DEF Sum4, XorBits
<1>7. Sum4(P(11, 2), P(13, 1), P(9, 1), P(14, 3)) = {}
  BY <1>2, <1>3 DEF Sum4, XorBits
<1>. QED
  BY <1>4, <1>5, <1>6, <1>7 DEF P, Inner

(***************************************************************************)
(* The rows of a product of a vector's matrix and a column.                *)
(***************************************************************************)
LEMMA Rows ==
  ASSUME NEW a, NEW col
  PROVE  /\ coef_mult(a, col)[0] = Sum4(gf_mult(a[0], col[0]), gf_mult(a[3], col[1]),
                                        gf_mult(a[2], col[2]), gf_mult(a[1], col[3]))
         /\ coef_mult(a, col)[1] = Sum4(gf_mult(a[1], col[0]), gf_mult(a[0], col[1]),
                                        gf_mult(a[3], col[2]), gf_mult(a[2], col[3]))
         /\ coef_mult(a, col)[2] = Sum4(gf_mult(a[2], col[0]), gf_mult(a[1], col[1]),
                                        gf_mult(a[0], col[2]), gf_mult(a[3], col[3]))
         /\ coef_mult(a, col)[3] = Sum4(gf_mult(a[3], col[0]), gf_mult(a[2], col[1]),
                                        gf_mult(a[1], col[2]), gf_mult(a[0], col[3]))
<1>1. ASSUME NEW r \in 0..3
      PROVE  coef_mult(a, col)[r] =
               Sum4(gf_mult(a[r], col[0]), gf_mult(a[(r + 3) % 4], col[1]),
                    gf_mult(a[(r + 2) % 4], col[2]), gf_mult(a[(r + 1) % 4], col[3]))
  BY DEF coef_mult, Sum4
<1>2. /\ (0 + 3) % 4 = 3 /\ (0 + 2) % 4 = 2 /\ (0 + 1) % 4 = 1
      /\ (1 + 3) % 4 = 0 /\ (1 + 2) % 4 = 3 /\ (1 + 1) % 4 = 2
      /\ (2 + 3) % 4 = 1 /\ (2 + 2) % 4 = 0 /\ (2 + 1) % 4 = 3
      /\ (3 + 3) % 4 = 2 /\ (3 + 2) % 4 = 1 /\ (3 + 1) % 4 = 0
  OBVIOUS
<1>3. 0 \in 0..3 /\ 1 \in 0..3 /\ 2 \in 0..3 /\ 3 \in 0..3
  OBVIOUS
<1> HIDE DEF coef_mult
<1>. QED
  BY <1>1, <1>2, <1>3

LEMMA MixedRows ==
  ASSUME NEW col
  PROVE  /\ coef_mult(mix_coloums_vector, col)[0] =
              Sum4(gf_mult(2, col[0]), gf_mult(3, col[1]), gf_mult(1, col[2]), gf_mult(1, col[3]))
         /\ coef_mult(mix_coloums_vector, col)[1] =
              Sum4(gf_mult(1, col[0]), gf_mult(2, col[1]), gf_mult(3, col[2]), gf_mult(1, col[3]))
         /\ coef_mult(mix_coloums_vector, col)[2] =
              Sum4(gf_mult(1, col[0]), gf_mult(1, col[1]), gf_mult(2, col[2]), gf_mult(3, col[3]))
         /\ coef_mult(mix_coloums_vector, col)[3] =
              Sum4(gf_mult(3, col[0]), gf_mult(1, col[1]), gf_mult(1, col[2]), gf_mult(2, col[3]))
<1>1. /\ mix_coloums_vector[0] = 2 /\ mix_coloums_vector[1] = 1
      /\ mix_coloums_vector[2] = 1 /\ mix_coloums_vector[3] = 3
  BY DEF mix_coloums_vector
<1>. QED
  BY <1>1, Rows

LEMMA UnmixedRows ==
  ASSUME NEW col
  PROVE  /\ coef_mult(inv_mix_coloums_vector, col)[0] =
              Sum4(gf_mult(14, col[0]), gf_mult(11, col[1]), gf_mult(13, col[2]), gf_mult(9, col[3]))
         /\ coef_mult(inv_mix_coloums_vector, col)[1] =
              Sum4(gf_mult(9, col[0]), gf_mult(14, col[1]), gf_mult(11, col[2]), gf_mult(13, col[3]))
         /\ coef_mult(inv_mix_coloums_vector, col)[2] =
              Sum4(gf_mult(13, col[0]), gf_mult(9, col[1]), gf_mult(14, col[2]), gf_mult(11, col[3]))
         /\ coef_mult(inv_mix_coloums_vector, col)[3] =
              Sum4(gf_mult(11, col[0]), gf_mult(13, col[1]), gf_mult(9, col[2]), gf_mult(14, col[3]))
<1>1. /\ inv_mix_coloums_vector[0] = 14 /\ inv_mix_coloums_vector[1] = 9
      /\ inv_mix_coloums_vector[2] = 13 /\ inv_mix_coloums_vector[3] = 11
  BY DEF inv_mix_coloums_vector
<1>. QED
  BY <1>1, Rows

LEMMA ColumnType ==
  ASSUME NEW a \in [0..3 -> Coefficients], NEW col \in [0..3 -> Byte]
  PROVE  coef_mult(a, col) \in [0..3 -> Byte]
<1>1. \A p, q, r, t \in Byte : Sum4(p, q, r, t) \in Byte
  BY XorByteType DEF Sum4
<1>2. \A m, n \in 0..3 : gf_mult(a[m], col[n]) \in Byte
  BY ProductType
<1>3. /\ coef_mult(a, col)[0] \in Byte /\ coef_mult(a, col)[1] \in Byte
      /\ coef_mult(a, col)[2] \in Byte /\ coef_mult(a, col)[3] \in Byte
  BY <1>1, <1>2, Rows
<1>. QED
  BY <1>3 DEF coef_mult

(***************************************************************************)
(* The inverse vector takes the mixing of a column back.                   *)
(***************************************************************************)
LEMMA Rotated ==
  \A a, b, c, d : Sum4(a, b, c, d) = Sum4(b, c, d, a)
BY DEF Sum4, XorBits

LEMMA OneProduct ==
  \A x : /\ Sum4(x, {}, {}, {}) = x /\ Sum4({}, x, {}, {}) = x
         /\ Sum4({}, {}, x, {}) = x /\ Sum4({}, {}, {}, x) = x
BY DEF Sum4, XorBits

\* The bytes m are the mixed column of p, q, r and t.
IsMixed(m, p, q, r, t) ==
  /\ m[0] = Sum4(gf_mult(2, p), gf_mult(3, q), gf_mult(1, r), gf_mult(1, t))
  /\ m[1] = Sum4(gf_mult(1, p), gf_mult(2, q), gf_mult(3, r), gf_mult(1, t))
  /\ m[2] = Sum4(gf_mult(1, p), gf_mult(1, q), gf_mult(2, r), gf_mult(3, t))
  /\ m[3] = Sum4(gf_mult(3, p), gf_mult(1, q), gf_mult(1, r), gf_mult(2, t))

\* A row of one product applied to a column of the other.
RowUnmixes(i0, i1, i2, i3, m, p, q, r, t) ==
  Sum4(gf_mult(i0, m[0]), gf_mult(i1, m[1]), gf_mult(i2, m[2]), gf_mult(i3, m[3])) =
  Sum4(Inner(i0, i1, i2, i3, p), Inner(i1, i2, i3, i0, q),
       Inner(i2, i3, i0, i1, r), Inner(i3, i0, i1, i2, t))

LEMMA UnmixesRow ==
  ASSUME NEW i0 \in Coefficients, NEW i1 \in Coefficients,
         NEW i2 \in Coefficients, NEW i3 \in Coefficients,
         NEW p \in Byte, NEW q \in Byte, NEW r \in Byte, NEW t \in Byte,
         NEW m, IsMixed(m, p, q, r, t)
  PROVE  RowUnmixes(i0, i1, i2, i3, m, p, q, r, t)
<1> DEFINE G(c, a, x) == gf_mult(c, gf_mult(a, x))
<1>1. /\ gf_mult(1, p) \in Byte /\ gf_mult(2, p) \in Byte /\ gf_mult(3, p) \in Byte
      /\ gf_mult(1, q) \in Byte /\ gf_mult(2, q) \in Byte /\ gf_mult(3, q) \in Byte
      /\ gf_mult(1, r) \in Byte /\ gf_mult(2, r) \in Byte /\ gf_mult(3, r) \in Byte
      /\ gf_mult(1, t) \in Byte /\ gf_mult(2, t) \in Byte /\ gf_mult(3, t) \in Byte
  BY ProductType DEF Coefficients
<1>2. gf_mult(i0, m[0]) =
        Sum4(G(i0, 2, p), G(i0, 3, q), G(i0, 1, r), G(i0, 1, t))
  <2>1. m[0] = Sum4(gf_mult(2, p), gf_mult(3, q), gf_mult(1, r), gf_mult(1, t))
    BY DEF IsMixed
  <2>2. Distributes(i0, gf_mult(2, p), gf_mult(3, q), gf_mult(1, r), gf_mult(1, t))
    BY <1>1, ProductOfSum
  <2>. QED
    BY <2>1, <2>2 DEF Distributes
<1>5. gf_mult(i1, m[1]) =
        Sum4(G(i1, 1, p), G(i1, 2, q), G(i1, 3, r), G(i1, 1, t))
  <2>1. m[1] = Sum4(gf_mult(1, p), gf_mult(2, q), gf_mult(3, r), gf_mult(1, t))
    BY DEF IsMixed
  <2>2. Distributes(i1, gf_mult(1, p), gf_mult(2, q), gf_mult(3, r), gf_mult(1, t))
    BY <1>1, ProductOfSum
  <2>. QED
    BY <2>1, <2>2 DEF Distributes
<1>6. gf_mult(i2, m[2]) =
        Sum4(G(i2, 1, p), G(i2, 1, q), G(i2, 2, r), G(i2, 3, t))
  <2>1. m[2] = Sum4(gf_mult(1, p), gf_mult(1, q), gf_mult(2, r), gf_mult(3, t))
    BY DEF IsMixed
  <2>2. Distributes(i2, gf_mult(1, p), gf_mult(1, q), gf_mult(2, r), gf_mult(3, t))
    BY <1>1, ProductOfSum
  <2>. QED
    BY <2>1, <2>2 DEF Distributes
<1>7. gf_mult(i3, m[3]) =
        Sum4(G(i3, 3, p), G(i3, 1, q), G(i3, 1, r), G(i3, 2, t))
  <2>1. m[3] = Sum4(gf_mult(3, p), gf_mult(1, q), gf_mult(1, r), gf_mult(2, t))
    BY DEF IsMixed
  <2>2. Distributes(i3, gf_mult(3, p), gf_mult(1, q), gf_mult(1, r), gf_mult(2, t))
    BY <1>1, ProductOfSum
  <2>. QED
    BY <2>1, <2>2 DEF Distributes
<1>3. /\ Sum4(G(i0, 3, q), G(i1, 2, q), G(i2, 1, q), G(i3, 1, q)) =
           Sum4(G(i1, 2, q), G(i2, 1, q), G(i3, 1, q), G(i0, 3, q))
      /\ Sum4(G(i0, 1, r), G(i1, 3, r), G(i2, 2, r), G(i3, 1, r)) =
           Sum4(G(i2, 2, r), G(i3, 1, r), G(i0, 1, r), G(i1, 3, r))
      /\ Sum4(G(i0, 1, t), G(i1, 1, t), G(i2, 3, t), G(i3, 2, t)) =
           Sum4(G(i3, 2, t), G(i0, 1, t), G(i1, 1, t), G(i2, 3, t))
  <2> HIDE DEF G
  <2>. QED
    BY Rotated
<1> HIDE DEF G
<1>4. Sum4(Sum4(G(i0, 2, p), G(i0, 3, q), G(i0, 1, r), G(i0, 1, t)),
           Sum4(G(i1, 1, p), G(i1, 2, q), G(i1, 3, r), G(i1, 1, t)),
           Sum4(G(i2, 1, p), G(i2, 1, q), G(i2, 2, r), G(i2, 3, t)),
           Sum4(G(i3, 3, p), G(i3, 1, q), G(i3, 1, r), G(i3, 2, t))) =
      Sum4(Sum4(G(i0, 2, p), G(i1, 1, p), G(i2, 1, p), G(i3, 3, p)),
           Sum4(G(i0, 3, q), G(i1, 2, q), G(i2, 1, q), G(i3, 1, q)),
           Sum4(G(i0, 1, r), G(i1, 3, r), G(i2, 2, r), G(i3, 1, r)),
           Sum4(G(i0, 1, t), G(i1, 1, t), G(i2, 3, t), G(i3, 2, t)))
  BY Transposed
<1>. QED
  BY <1>2, <1>3, <1>4, <1>5, <1>6, <1>7 DEF G, Inner, RowUnmixes

LEMMA UnmixesBytes ==
  ASSUME NEW p \in Byte, NEW q \in Byte, NEW r \in Byte, NEW t \in Byte,
         NEW m, IsMixed(m, p, q, r, t)
  PROVE  /\ Sum4(gf_mult(14, m[0]), gf_mult(11, m[1]), gf_mult(13, m[2]), gf_mult(9, m[3])) = p
         /\ Sum4(gf_mult(9, m[0]), gf_mult(14, m[1]), gf_mult(11, m[2]), gf_mult(13, m[3])) = q
         /\ Sum4(gf_mult(13, m[0]), gf_mult(9, m[1]), gf_mult(14, m[2]), gf_mult(11, m[3])) = r
         /\ Sum4(gf_mult(11, m[0]), gf_mult(13, m[1]), gf_mult(9, m[2]), gf_mult(14, m[3])) = t
<1>1. 9 \in Coefficients /\ 11 \in Coefficients /\ 13 \in Coefficients /\ 14 \in Coefficients
  BY DEF Coefficients
<1>2. \A x \in Byte : Inner(14, 11, 13, 9, x) = x /\ Inner(9, 14, 11, 13, x) = {}
                     /\ Inner(13, 9, 14, 11, x) = {} /\ Inner(11, 13, 9, 14, x) = {}
  BY UnitProducts
<1>3. Sum4(gf_mult(14, m[0]), gf_mult(11, m[1]), gf_mult(13, m[2]), gf_mult(9, m[3])) = p
  <2>0. RowUnmixes(14, 11, 13, 9, m, p, q, r, t)
    BY <1>1, UnmixesRow
  <2>1. Sum4(gf_mult(14, m[0]), gf_mult(11, m[1]), gf_mult(13, m[2]), gf_mult(9, m[3])) =
          Sum4(Inner(14, 11, 13, 9, p), Inner(11, 13, 9, 14, q),
               Inner(13, 9, 14, 11, r), Inner(9, 14, 11, 13, t))
    BY <2>0 DEF RowUnmixes
  <2>2. @ = p
    BY <1>2, OneProduct
  <2>. QED
    BY <2>1, <2>2
<1>4. Sum4(gf_mult(9, m[0]), gf_mult(14, m[1]), gf_mult(11, m[2]), gf_mult(13, m[3])) = q
  <2>0. RowUnmixes(9, 14, 11, 13, m, p, q, r, t)
    BY <1>1, UnmixesRow
  <2>1. Sum4(gf_mult(9, m[0]), gf_mult(14, m[1]), gf_mult(11, m[2]), gf_mult(13, m[3])) =
          Sum4(Inner(9, 14, 11, 13, p), Inner(14, 11, 13, 9, q),
               Inner(11, 13, 9, 14, r), Inner(13, 9, 14, 11, t))
    BY <2>0 DEF RowUnmixes
  <2>2. @ = q
    BY <1>2, OneProduct
  <2>. QED
    BY <2>1, <2>2
<1>5. Sum4(gf_mult(13, m[0]), gf_mult(9, m[1]), gf_mult(14, m[2]), gf_mult(11, m[3])) = r
  <2>0. RowUnmixes(13, 9, 14, 11, m, p, q, r, t)
    BY <1>1, UnmixesRow
  <2>1. Sum4(gf_mult(13, m[0]), gf_mult(9, m[1]), gf_mult(14, m[2]), gf_mult(11, m[3])) =
          Sum4(Inner(13, 9, 14, 11, p), Inner(9, 14, 11, 13, q),
               Inner(14, 11, 13, 9, r), Inner(11, 13, 9, 14, t))
    BY <2>0 DEF RowUnmixes
  <2>2. @ = r
    BY <1>2, OneProduct
  <2>. QED
    BY <2>1, <2>2
<1>6. Sum4(gf_mult(11, m[0]), gf_mult(13, m[1]), gf_mult(9, m[2]), gf_mult(14, m[3])) = t
  <2>0. RowUnmixes(11, 13, 9, 14, m, p, q, r, t)
    BY <1>1, UnmixesRow
  <2>1. Sum4(gf_mult(11, m[0]), gf_mult(13, m[1]), gf_mult(9, m[2]), gf_mult(14, m[3])) =
          Sum4(Inner(11, 13, 9, 14, p), Inner(13, 9, 14, 11, q),
               Inner(9, 14, 11, 13, r), Inner(14, 11, 13, 9, t))
    BY <2>0 DEF RowUnmixes
  <2>2. @ = t
    BY <1>2, OneProduct
  <2>. QED
    BY <2>1, <2>2
<1>. QED
  BY <1>3, <1>4, <1>5, <1>6

LEMMA UnmixesColumn ==
  ASSUME NEW col \in [0..3 -> Byte]
  PROVE  coef_mult(inv_mix_coloums_vector, coef_mult(mix_coloums_vector, col)) = col
<1> DEFINE mixed == coef_mult(mix_coloums_vector, col)
           back  == coef_mult(inv_mix_coloums_vector, mixed)
<1>1. IsMixed(mixed, col[0], col[1], col[2], col[3])
  BY MixedRows DEF IsMixed
<1> HIDE DEF mixed
<1>2. back[0] = col[0] /\ back[1] = col[1] /\ back[2] = col[2] /\ back[3] = col[3]
  BY <1>1, UnmixedRows, UnmixesBytes
<1>3. \A n \in 0..3 : back[n] = col[n]
  <2> HIDE DEF back
  <2>. QED
    BY <1>2
<1>4. back = [n \in 0..3 |-> back[n]]
  BY DEF coef_mult
<1>. QED
  BY <1>3, <1>4 DEF mixed

-----------------------------------------------------------------------------
(***************************************************************************)
(* The four operations on a state keep its type, and each is taken back by *)
(* its inverse.                                                            *)
(***************************************************************************)
LEMMA Coordinates ==
  /\ \A n \in 0..15 : Row(n) \in 0..3 /\ Col(n) \in 0..3 /\ At(Row(n), Col(n)) = n
  /\ \A r, c \in 0..3 : At(r, c) \in 0..15 /\ Row(At(r, c)) = r /\ Col(At(r, c)) = c
BY DEF Row, Col, At

LEMMA VectorTypes ==
  mix_coloums_vector \in [0..3 -> Coefficients] /\ inv_mix_coloums_vector \in [0..3 -> Coefficients]
BY DEF mix_coloums_vector, inv_mix_coloums_vector, Coefficients

LEMMA StateTypes ==
  ASSUME NEW st \in Block
  PROVE  /\ Turned(st) \in Block
         /\ sub_bytes(st) \in Block /\ inv_sub_bytes(st) \in Block
         /\ shift_rows(st) \in Block /\ inv_shift_rows(st) \in Block
         /\ mix_coloums(st, mix_coloums_vector) \in Block
         /\ mix_coloums(st, inv_mix_coloums_vector) \in Block
<1>1. Turned(st) \in Block
  BY Coordinates DEF Turned, Block
<1>2. sub_bytes(st) \in Block /\ inv_sub_bytes(st) \in Block
  BY AesAssumption DEF sub_bytes, inv_sub_bytes, Block
<1>3. shift_rows(st) \in Block /\ inv_shift_rows(st) \in Block
  <2>1. \A n \in 0..15 : /\ (Col(n) + Row(n)) % 4 \in 0..3
                         /\ (Col(n) + 4 - Row(n)) % 4 \in 0..3
    BY Coordinates
  <2>2. \A n \in 0..15 : /\ At(Row(n), (Col(n) + Row(n)) % 4) \in 0..15
                         /\ At(Row(n), (Col(n) + 4 - Row(n)) % 4) \in 0..15
    BY <2>1, Coordinates
  <2>. QED
    BY <2>2 DEF shift_rows, inv_shift_rows, Block
<1>4. ASSUME NEW a \in [0..3 -> Coefficients]
      PROVE  mix_coloums(st, a) \in Block
  <2>1. \A c \in 0..3 : Column(st, c) \in [0..3 -> Byte]
    BY Coordinates DEF Column, Block
  <2>2. \A c \in 0..3 : coef_mult(a, Column(st, c)) \in [0..3 -> Byte]
    BY <2>1, ColumnType
  <2>3. \A n \in 0..15 : coef_mult(a, Column(st, Col(n)))[Row(n)] \in Byte
    BY <2>2, Coordinates
  <2>. QED
    BY <2>3 DEF mix_coloums, Block
<1>. QED
  BY <1>1, <1>2, <1>3, <1>4, VectorTypes

LEMMA TurnedTwice ==
  ASSUME NEW st \in Block
  PROVE  Turned(Turned(st)) = st
<1>1. \A n \in 0..15 : At(Col(n), Row(n)) \in 0..15 /\ Turned(st)[n] = st[At(Col(n), Row(n))]
  BY Coordinates DEF Turned
<1>2. \A n \in 0..15 : Turned(Turned(st))[n] = st[n]
  <2> TAKE n \in 0..15
  <2>1. Turned(Turned(st))[n] = Turned(st)[At(Col(n), Row(n))]
    BY DEF Turned
  <2>2. @ = st[At(Row(n), Col(n))]
    BY <1>1, Coordinates
  <2>. QED
    BY <2>1, <2>2, Coordinates
<1>3. Turned(Turned(st)) = [n \in 0..15 |-> Turned(Turned(st))[n]]
  BY DEF Turned
<1> HIDE DEF Turned
<1>. QED
  BY <1>2, <1>3 DEF Block

LEMMA Unsubstituted ==
  ASSUME NEW st \in Block
  PROVE  inv_sub_bytes(sub_bytes(st)) = st
BY AesAssumption DEF inv_sub_bytes, sub_bytes, Block

LEMMA Unshifted ==
  ASSUME NEW st \in Block
  PROVE  inv_shift_rows(shift_rows(st)) = st
<1>1. \A r, c \in 0..3 : (c + 4 - r) % 4 \in 0..3 /\ (((c + 4 - r) % 4) + r) % 4 = c
  OBVIOUS
<1>2. ASSUME NEW n \in 0..15
      PROVE  inv_shift_rows(shift_rows(st))[n] = st[n]
  <2> DEFINE m == At(Row(n), (Col(n) + 4 - Row(n)) % 4)
  <2>1. m \in 0..15 /\ Row(m) = Row(n) /\ Col(m) = (Col(n) + 4 - Row(n)) % 4
    BY <1>1, Coordinates
  <2>2. At(Row(m), (Col(m) + Row(m)) % 4) = n
    BY <1>1, <2>1, Coordinates
  <2> HIDE DEF m
  <2>3. inv_shift_rows(shift_rows(st))[n] = shift_rows(st)[m]
    BY DEF inv_shift_rows, m
  <2>4. @ = st[At(Row(m), (Col(m) + Row(m)) % 4)]
    BY <2>1 DEF shift_rows
  <2>. QED
    BY <2>2, <2>3, <2>4
<1>3. inv_shift_rows(shift_rows(st)) = [n \in 0..15 |-> inv_shift_rows(shift_rows(st))[n]]
  BY DEF inv_shift_rows
<1> HIDE DEF inv_shift_rows
<1>. QED
  BY <1>2, <1>3 DEF Block

LEMMA Unmixes ==
  ASSUME NEW st \in Block
  PROVE  mix_coloums(mix_coloums(st, mix_coloums_vector), inv_mix_coloums_vector) = st
<1> DEFINE mixed == mix_coloums(st, mix_coloums_vector)
           back  == mix_coloums(mixed, inv_mix_coloums_vector)
<1>1. ASSUME NEW c \in 0..3
      PROVE  Column(mixed, c) = coef_mult(mix_coloums_vector, Column(st, c))
  <2>1. \A r \in 0..3 : mixed[At(r, c)] = coef_mult(mix_coloums_vector, Column(st, c))[r]
    BY Coordinates DEF mix_coloums
  <2>2. coef_mult(mix_coloums_vector, Column(st, c)) =
          [r \in 0..3 |-> coef_mult(mix_coloums_vector, Column(st, c))[r]]
    BY DEF coef_mult
  <2> HIDE DEF mixed, coef_mult
  <2>. QED
    BY <2>1, <2>2 DEF Column
<1>2. ASSUME NEW n \in 0..15
      PROVE  back[n] = st[n]
  <2>1. Col(n) \in 0..3 /\ Row(n) \in 0..3 /\ At(Row(n), Col(n)) = n
    BY Coordinates
  <2>2. Column(st, Col(n)) \in [0..3 -> Byte]
    BY <2>1, Coordinates DEF Column, Block
  <2>3. back[n] = coef_mult(inv_mix_coloums_vector, Column(mixed, Col(n)))[Row(n)]
    BY DEF mix_coloums
  <2>4. @ = Column(st, Col(n))[Row(n)]
    BY <1>1, <2>1, <2>2, UnmixesColumn
  <2>5. @ = st[n]
    BY <2>1 DEF Column
  <2>. QED
    BY <2>3, <2>4, <2>5
<1>3. back = [n \in 0..15 |-> back[n]]
  BY DEF mix_coloums
<1> HIDE DEF back
<1>4. back = st
  BY <1>2, <1>3 DEF Block
<1>. QED
  BY <1>4 DEF back

LEMMA Unkeys ==
  ASSUME NEW r, NEW st \in Block, NEW key
  PROVE  add_round_key(r, add_round_key(r, st, key), key) = st
BY XorTwice DEF add_round_key, Block

-----------------------------------------------------------------------------
(***************************************************************************)
(* The types of the schedule.  The round constant is a byte because a key  *)
(* word begins at most every Nk words: there are no more than ten.         *)
(***************************************************************************)
Word == [0..3 -> Byte]

LEMMA KeySizes ==
  ASSUME NEW type \in Types
  PROVE  \/ Nk(type) = 4 /\ Nr(type) = 10 /\ ScheduleLength(type) = 44
         \/ Nk(type) = 6 /\ Nr(type) = 12 /\ ScheduleLength(type) = 52
         \/ Nk(type) = 8 /\ Nr(type) = 14 /\ ScheduleLength(type) = 60
BY DEF Types, Nk, Nr, ScheduleLength

LEMMA RconType == \A n \in 1..10 : rcon(n) \in Byte
BY DEF rcon, Byte

LEMMA WordOps ==
  ASSUME NEW word \in Word
  PROVE  SubWord(word) \in Word /\ RotWord(word) \in Word
<1>1. SubWord(word) \in Word
  BY AesAssumption DEF SubWord, Word
<1>2. \A n \in 0..3 : (n + 1) % 4 \in 0..3
  OBVIOUS
<1>. QED
  BY <1>1, <1>2 DEF RotWord, Word

LEMMA TempType ==
  ASSUME AesTypeOK, n_words < ScheduleLength(job.type), NEW prev \in Word
  PROVE  Temp(prev) \in Word
<1>1. job.type \in Types
  BY AesAssumption DEF AesTypeOK
<1>2. n_words \div Nk(job.type) \in 1..10
  <2>1. n_words \in Nk(job.type)..ScheduleLength(job.type)
    BY DEF AesTypeOK
  <2>2. CASE Nk(job.type) = 4 /\ ScheduleLength(job.type) = 44
    <3>1. n_words \in 4..43
      BY <2>1, <2>2
    <3>. QED
      BY <2>2, <3>1
  <2>3. CASE Nk(job.type) = 6 /\ ScheduleLength(job.type) = 52
    <3>1. n_words \in 6..51
      BY <2>1, <2>3
    <3>. QED
      BY <2>3, <3>1
  <2>4. CASE Nk(job.type) = 8 /\ ScheduleLength(job.type) = 60
    <3>1. n_words \in 8..59
      BY <2>1, <2>4
    <3>. QED
      BY <2>4, <3>1
  <2>. QED
    BY <1>1, <2>2, <2>3, <2>4, KeySizes
<1>3. FirstOfKey(prev, n_words) \in Word
  <2>1. SubWord(RotWord(prev)) \in Word
    BY WordOps
  <2>2. rcon(n_words \div Nk(job.type)) \in Byte
    BY <1>2, RconType
  <2>. QED
    BY <2>1, <2>2, XorByteType DEF FirstOfKey, Word
<1>. QED
  BY <1>3, WordOps DEF Temp

LEMMA KeyedType ==
  ASSUME AesTypeOK, n_words = ScheduleLength(job.type),
         NEW r \in 0..Nr(job.type), NEW st \in Block
  PROVE  add_round_key(r, st, w) \in Block
<1>1. job.type \in Types
  BY AesAssumption DEF AesTypeOK
<1>2. ASSUME NEW n \in 0..15
      PROVE  w[At(r, Col(n))][Row(n)] \in Byte
  <2>1. Row(n) \in 0..3 /\ Col(n) \in 0..3
    BY Coordinates
  <2>2. At(r, Col(n)) \in 0..(n_words - 1)
    BY <1>1, <2>1, KeySizes DEF At
  <2>. QED
    BY <2>1, <2>2 DEF AesTypeOK
<1>. QED
  BY <1>2, XorByteType DEF add_round_key, Block

(***************************************************************************)
(* The inductive invariant.  The schedule is complete once it is used, and *)
(* the trail is the encryption of the block: its first state is the block  *)
(* with the first key, and each further one a round more.  The state is    *)
(* the last of the trail on the way down, and on the way back the state    *)
(* that was about to be mixed and keyed.                                   *)
(***************************************************************************)
Rounded(r, st) ==
  IF r = Nr(job.type) THEN add_round_key(r, shift_rows(sub_bytes(st)), w)
  ELSE add_round_key(r, mix_coloums(shift_rows(sub_bytes(st)), mix_coloums_vector), w)

TrailIs(h) ==
  /\ trail[0] = add_round_key(0, Turned(job.block), w)
  /\ \A r \in 0..h : trail[r] \in Block
  /\ \A r \in 1..h : trail[r] = Rounded(r, trail[r - 1])

Going ==
  /\ aes_pc # "expand" => n_words = ScheduleLength(job.type)
  /\ aes_pc = "encrypt" =>
       round < Nr(job.type) /\ TrailIs(round) /\ state = trail[round]
  /\ aes_pc = "encrypted" => TrailIs(Nr(job.type)) /\ block_out = Turned(trail[Nr(job.type)])
  /\ aes_pc = "decrypt" =>
       /\ round < Nr(job.type) /\ TrailIs(Nr(job.type))
       /\ state = shift_rows(sub_bytes(trail[round]))
  /\ aes_pc = "decrypted" => block_out = job.block

AesIInv == AesTypeOK /\ Going

LEMMA InitAesIInv == AesInit => AesIInv
<1> SUFFICES ASSUME AesInit PROVE AesIInv
  OBVIOUS
<1>1. job.type \in Types /\ w \in [0..(Nk(job.type) - 1) -> Word]
  BY AesAssumption DEF AesInit, Word
<1>2. AesTypeOK
  BY <1>1, KeySizes DEF AesInit, AesTypeOK, Word, Byte
<1>. QED
  BY <1>2 DEF AesInit, AesIInv, Going

(***************************************************************************)
(* The types as the actions use them.                                      *)
(***************************************************************************)
LEMMA Typed ==
  ASSUME AesIInv
  PROVE  /\ job \in Jobs /\ job.type \in Types /\ job.block \in Block
         /\ Nk(job.type) \in Nat \ {0} /\ Nr(job.type) \in 10..14
         /\ n_words \in Nk(job.type)..ScheduleLength(job.type)
         /\ w \in [0..(n_words - 1) -> Word]
         /\ state \in Block /\ block_out \in Block /\ round \in 0..Nr(job.type)
<1>1. /\ job \in Jobs
      /\ n_words \in Nk(job.type)..ScheduleLength(job.type)
      /\ w \in [0..(n_words - 1) -> Word]
      /\ state \in Block /\ block_out \in Block /\ round \in 0..Nr(job.type)
  BY DEF AesIInv, AesTypeOK, Block, Word
<1>2. job.type \in Types /\ job.block \in Block
  BY <1>1, AesAssumption DEF Block
<1>3. Nk(job.type) \in Nat \ {0} /\ Nr(job.type) \in 10..14
  BY <1>2, KeySizes
<1>. QED
  BY <1>1, <1>2, <1>3

LEMMA TypeKept ==
  ASSUME AesIInv, UNCHANGED <<job, w, n_words>>,
         aes_pc' \in {"expand", "encrypt", "encrypted", "decrypt", "decrypted"},
         state' \in Block, block_out' \in Block, round' \in 0..Nr(job.type)
  PROVE  AesTypeOK'
BY DEF AesIInv, AesTypeOK, Block

LEMMA ExpandKeeps ==
  ASSUME AesIInv, ExpandWord
  PROVE  AesIInv'
<1> DEFINE nk == Nk(job.type)
           temp == Temp(w[n_words - 1])
           word == [n \in 0..3 |-> XorBits(w[n_words - nk][n], temp[n])]
<1>1. job.type \in Types /\ n_words < ScheduleLength(job.type)
  BY Typed DEF ExpandWord
<1>2. nk \in Nat \ {0} /\ n_words \in nk..ScheduleLength(job.type) /\ w \in [0..(n_words - 1) -> Word]
  BY Typed
<1>3. n_words - 1 \in 0..(n_words - 1) /\ n_words - nk \in 0..(n_words - 1)
  BY <1>2
<1>4. word \in Word
  <2>1. temp \in Word
    BY <1>1, <1>2, <1>3, TempType DEF AesIInv
  <2>2. w[n_words - nk] \in Word
    BY <1>2, <1>3
  <2>. QED
    BY <2>1, <2>2, XorByteType DEF Word
<1>5. w' = [m \in 0..n_words |-> IF m = n_words THEN word ELSE w[m]] /\ n_words' = n_words + 1
  BY DEF ExpandWord
<1> HIDE DEF word
<1>6. w' \in [0..(n_words' - 1) -> Word] /\ n_words' \in nk..ScheduleLength(job.type)
  <2>1. n_words' - 1 = n_words /\ \A m \in 0..n_words : m # n_words => m \in 0..(n_words - 1)
    BY <1>2, <1>5
  <2>. QED
    BY <1>1, <1>2, <1>4, <1>5, <2>1, KeySizes
<1>7. UNCHANGED <<job, aes_pc, state, round, block_out, trail>> /\ aes_pc = "expand"
  BY DEF ExpandWord
<1>8. AesTypeOK'
  BY <1>6, <1>7 DEF AesIInv, AesTypeOK, Word
<1>. QED
  BY <1>7, <1>8 DEF AesIInv, Going

LEMMA BeginEncryptKeeps ==
  ASSUME AesIInv, BeginEncrypt
  PROVE  AesIInv'
<1> DEFINE first == add_round_key(0, Turned(job.block), w)
<1>1. job \in Jobs /\ job.type \in Types /\ job.block \in Block
  BY Typed
<1>2. Nr(job.type) \in 10..14
  BY Typed
<1>3. n_words = ScheduleLength(job.type)
  BY DEF BeginEncrypt
<1>4. first \in Block
  BY <1>1, <1>2, <1>3, StateTypes, KeyedType DEF AesIInv
<1>5. /\ round' = 0 /\ state' = first /\ trail' = [r \in 0..0 |-> IF r = 0 THEN first ELSE trail[r]]
      /\ aes_pc' = "encrypt" /\ UNCHANGED <<job, w, n_words, block_out>>
  BY DEF BeginEncrypt, Goes
<1> HIDE DEF first
<1>6. trail'[0] = first /\ state' = trail'[round']
  BY <1>5
<1>7. AesTypeOK'
  BY <1>2, <1>4, <1>5, Typed, TypeKept
<1>8. TrailIs(0)'
  BY <1>4, <1>5, <1>6 DEF TrailIs, first
<1>. QED
  BY <1>2, <1>3, <1>5, <1>6, <1>7, <1>8 DEF AesIInv, Going

(***************************************************************************)
(* A round of the encryption, the last one or another.                     *)
(***************************************************************************)
LEMMA TrailGrows ==
  ASSUME AesIInv, aes_pc = "encrypt", round' = round + 1, Goes(Rounded(round + 1, state)),
         UNCHANGED <<job, w, n_words>>
  PROVE  /\ state' \in Block /\ state' = trail'[round + 1]
         /\ TrailIs(round)'
         /\ round + 1 \in 0..Nr(job.type)
<1> DEFINE next == Rounded(round + 1, state)
<1>1. job.type \in Types /\ Nr(job.type) \in 10..14
  BY Typed
<1>2. /\ round \in 0..(Nr(job.type) - 1) /\ round + 1 \in 0..Nr(job.type)
      /\ state = trail[round] /\ TrailIs(round) /\ state \in Block
      /\ n_words = ScheduleLength(job.type)
  <2>1. round \in 0..Nr(job.type) /\ state \in Block
    BY Typed
  <2>2. /\ round < Nr(job.type) /\ TrailIs(round) /\ state = trail[round]
        /\ n_words = ScheduleLength(job.type)
    BY DEF AesIInv, Going
  <2>. QED
    BY <1>1, <2>1, <2>2
<1>3. next \in Block
  <2>1. /\ shift_rows(sub_bytes(state)) \in Block
        /\ mix_coloums(shift_rows(sub_bytes(state)), mix_coloums_vector) \in Block
    BY <1>2, StateTypes
  <2>. QED
    BY <1>2, <2>1, KeyedType DEF AesIInv, Rounded
<1>4. /\ state' = next
      /\ trail' = [r \in 0..(round + 1) |-> IF r = round + 1 THEN next ELSE trail[r]]
  BY DEF Goes
<1>5. trail'[round + 1] = next /\ \A r \in 0..round : trail'[r] = trail[r]
  <2> HIDE DEF next
  <2>. QED
    BY <1>1, <1>2, <1>4
<1>6. TrailIs(round)'
  <2>1. trail'[0] = add_round_key(0, Turned(job.block), w)
    BY <1>1, <1>2, <1>5 DEF TrailIs
  <2>2. \A r \in 0..(round + 1) : trail'[r] \in Block
    BY <1>1, <1>2, <1>3, <1>5 DEF TrailIs
  <2>3. \A r \in 1..(round + 1) : trail'[r] = Rounded(r, trail'[r - 1])
    <3> TAKE r \in 1..(round + 1)
    <3>1. CASE r = round + 1
      BY <1>1, <1>2, <1>5, <3>1
    <3>2. CASE r # round + 1
      BY <1>1, <1>2, <1>5, <3>2 DEF TrailIs
    <3>. QED
      BY <3>1, <3>2
  <2>. QED
    BY <1>1, <1>2, <2>1, <2>2, <2>3 DEF TrailIs, Rounded
<1>. QED
  BY <1>2, <1>3, <1>4, <1>5, <1>6

LEMMA EncryptRoundKeeps ==
  ASSUME AesIInv, EncryptRound
  PROVE  AesIInv'
<1>1. job.type \in Types /\ Nr(job.type) \in 10..14 /\ round \in 0..Nr(job.type)
  BY Typed
<1>2. round + 1 # Nr(job.type) /\ round' = round + 1 /\ aes_pc = "encrypt" /\ round + 1 < Nr(job.type)
  BY <1>1 DEF EncryptRound
<1>3. Goes(Rounded(round + 1, state))
  BY <1>2 DEF EncryptRound, Rounded, Goes
<1>4. UNCHANGED <<job, aes_pc, w, n_words, block_out>>
  BY DEF EncryptRound
<1>5. state' \in Block /\ state' = trail'[round'] /\ TrailIs(round)' /\ round' \in 0..Nr(job.type)
  BY <1>2, <1>3, <1>4, TrailGrows
<1>6. AesTypeOK'
  BY <1>2, <1>4, <1>5, Typed, TypeKept
<1>. QED
  BY <1>2, <1>4, <1>5, <1>6 DEF AesIInv, Going

LEMMA EncryptLastKeeps ==
  ASSUME AesIInv, EncryptLast
  PROVE  AesIInv'
<1>1. job.type \in Types /\ Nr(job.type) \in 10..14
  BY Typed
<1>2. round + 1 = Nr(job.type) /\ round' = round + 1 /\ aes_pc = "encrypt"
  BY DEF EncryptLast
<1>3. Goes(Rounded(round + 1, state))
  BY <1>2 DEF EncryptLast, Rounded, Goes
<1>4. UNCHANGED <<job, w, n_words>> /\ aes_pc' = "encrypted" /\ block_out' = Turned(state')
  BY DEF EncryptLast
<1>5. state' \in Block /\ state' = trail'[round'] /\ TrailIs(round)' /\ round' \in 0..Nr(job.type)
  BY <1>2, <1>3, <1>4, TrailGrows
<1>6. TrailIs(Nr(job.type))'
  BY <1>2, <1>4, <1>5 DEF TrailIs
<1>7. block_out' \in Block
  BY <1>4, <1>5, StateTypes
<1>8. AesTypeOK'
  BY <1>4, <1>5, <1>7, TypeKept
<1>. QED
  BY <1>2, <1>4, <1>5, <1>6, <1>8 DEF AesIInv, Going

(***************************************************************************)
(* Decryption: each key of the trail is taken off again.                   *)
(***************************************************************************)
LEMMA Unrounded ==
  ASSUME TrailIs(Nr(job.type)), job.type \in Types, NEW r \in 1..Nr(job.type)
  PROVE  /\ trail[r - 1] \in Block
         /\ shift_rows(sub_bytes(trail[r - 1])) \in Block
         /\ inv_sub_bytes(inv_shift_rows(shift_rows(sub_bytes(trail[r - 1])))) = trail[r - 1]
         /\ r = Nr(job.type) => add_round_key(r, trail[r], w) = shift_rows(sub_bytes(trail[r - 1]))
         /\ r # Nr(job.type) =>
              mix_coloums(add_round_key(r, trail[r], w), inv_mix_coloums_vector) =
                shift_rows(sub_bytes(trail[r - 1]))
<1> DEFINE shifted == shift_rows(sub_bytes(trail[r - 1]))
           mixed   == mix_coloums(shifted, mix_coloums_vector)
<1>1. r - 1 \in 0..Nr(job.type)
  BY KeySizes
<1>2. trail[r - 1] \in Block /\ trail[r] = Rounded(r, trail[r - 1])
  BY <1>1 DEF TrailIs
<1>3. sub_bytes(trail[r - 1]) \in Block /\ shifted \in Block /\ mixed \in Block
  BY <1>2, StateTypes
<1>4. inv_sub_bytes(inv_shift_rows(shifted)) = trail[r - 1]
  BY <1>2, <1>3, Unshifted, Unsubstituted
<1>5. CASE r = Nr(job.type)
  BY <1>2, <1>3, <1>4, <1>5, Unkeys DEF Rounded
<1>6. CASE r # Nr(job.type)
  <2>1. add_round_key(r, trail[r], w) = mixed
    BY <1>2, <1>3, <1>6, Unkeys DEF Rounded
  <2>2. mix_coloums(mixed, inv_mix_coloums_vector) = shifted
    BY <1>3, Unmixes
  <2>. QED
    BY <1>2, <1>3, <1>4, <1>6, <2>1, <2>2
<1>. QED
  BY <1>5, <1>6

LEMMA BeginDecryptKeeps ==
  ASSUME AesIInv, BeginDecrypt
  PROVE  AesIInv'
<1> DEFINE last == Nr(job.type)
<1>1. job.type \in Types /\ last \in 10..14
  BY Typed
<1>2. TrailIs(last) /\ block_out = Turned(trail[last]) /\ trail[last] \in Block
  BY <1>1 DEF AesIInv, Going, BeginDecrypt, TrailIs
<1>3. Turned(block_out) = trail[last]
  BY <1>2, TurnedTwice
<1>4. /\ aes_pc' = "decrypt" /\ round' = last - 1
      /\ state' = add_round_key(last, trail[last], w)
      /\ UNCHANGED <<job, w, n_words, block_out, trail>>
  BY <1>3 DEF BeginDecrypt
<1>5. state' = shift_rows(sub_bytes(trail'[round'])) /\ state' \in Block
  <2>1. last \in 1..last
    BY <1>1
  <2>. QED
    BY <1>1, <1>2, <1>4, <2>1, Unrounded
<1>6. AesTypeOK'
  <2>1. round' \in 0..Nr(job.type) /\ block_out' \in Block
    BY <1>1, <1>4, Typed
  <2>. QED
    BY <1>4, <1>5, <2>1, TypeKept
<1>7. TrailIs(last)'
  BY <1>2, <1>4 DEF TrailIs, Rounded
<1>8. n_words = ScheduleLength(job.type)
  BY DEF AesIInv, Going, BeginDecrypt
<1>. QED
  BY <1>1, <1>4, <1>5, <1>6, <1>7, <1>8 DEF AesIInv, Going

LEMMA DecryptRoundKeeps ==
  ASSUME AesIInv, DecryptRound
  PROVE  AesIInv'
<1> DEFINE last == Nr(job.type)
<1>1. job.type \in Types /\ last \in 10..14 /\ aes_pc = "decrypt"
  BY Typed DEF DecryptRound
<1>2. /\ round \in 1..(last - 1) /\ TrailIs(last)
      /\ state = shift_rows(sub_bytes(trail[round]))
  <2>1. /\ round < last /\ TrailIs(last) /\ round > 0
        /\ state = shift_rows(sub_bytes(trail[round]))
    BY <1>1 DEF AesIInv, Going, DecryptRound
  <2>2. round \in 0..last
    BY Typed
  <2>. QED
    BY <1>1, <2>1, <2>2
<1>3. inv_sub_bytes(inv_shift_rows(state)) = trail[round]
  <2>1. round + 1 \in 1..last /\ round + 1 - 1 = round
    BY <1>1, <1>2
  <2>. QED
    BY <1>1, <1>2, <2>1, Unrounded
<1>4. /\ state' = mix_coloums(add_round_key(round, trail[round], w), inv_mix_coloums_vector)
      /\ round' = round - 1
      /\ UNCHANGED <<job, aes_pc, w, n_words, block_out, trail>>
  BY <1>3 DEF DecryptRound, Unkeyed
<1>5. state' = shift_rows(sub_bytes(trail'[round'])) /\ state' \in Block
  <2>1. round \in 1..last /\ round # last
    BY <1>1, <1>2
  <2>. QED
    BY <1>1, <1>2, <1>4, <2>1, Unrounded
<1>6. AesTypeOK'
  <2>1. round' \in 0..Nr(job.type) /\ block_out' \in Block /\ aes_pc' = "decrypt"
    BY <1>1, <1>2, <1>4, Typed
  <2>. QED
    BY <1>4, <1>5, <2>1, TypeKept
<1>7. TrailIs(last)'
  BY <1>2, <1>4 DEF TrailIs, Rounded
<1>. QED
  BY <1>1, <1>2, <1>4, <1>5, <1>6, <1>7 DEF AesIInv, Going

LEMMA DecryptLastKeeps ==
  ASSUME AesIInv, DecryptLast
  PROVE  AesIInv'
<1> DEFINE last == Nr(job.type)
<1>1. job.type \in Types /\ last \in 10..14 /\ aes_pc = "decrypt" /\ job.block \in Block
  BY Typed DEF DecryptLast
<1>2. /\ round = 0 /\ TrailIs(last) /\ n_words = ScheduleLength(job.type)
      /\ state = shift_rows(sub_bytes(trail[0]))
  BY <1>1 DEF AesIInv, Going, DecryptLast
<1>3. inv_sub_bytes(inv_shift_rows(state)) = trail[0]
  <2>1. 1 \in 1..last /\ 1 - 1 = 0
    BY <1>1
  <2>. QED
    BY <1>1, <1>2, <2>1, Unrounded
<1>4. /\ state' = add_round_key(0, trail[0], w) /\ block_out' = Turned(state')
      /\ aes_pc' = "decrypted" /\ UNCHANGED <<job, w, n_words, round, trail>>
  BY <1>3 DEF DecryptLast
<1>5. state' = Turned(job.block) /\ state' \in Block
  <2>1. trail[0] = add_round_key(0, Turned(job.block), w) /\ Turned(job.block) \in Block
    BY <1>1, <1>2, StateTypes DEF TrailIs
  <2>. QED
    BY <1>4, <2>1, Unkeys
<1>6. block_out' = job.block
  BY <1>1, <1>4, <1>5, TurnedTwice
<1>7. AesTypeOK'
  <2>1. round' \in 0..Nr(job.type) /\ block_out' \in Block
    BY <1>1, <1>2, <1>4, <1>6
  <2>. QED
    BY <1>4, <1>5, <2>1, TypeKept
<1>. QED
  BY <1>2, <1>4, <1>6, <1>7 DEF AesIInv, Going

LEMMA NextAesIInv == AesIInv /\ [AesNext]_aesVars => AesIInv'
<1> SUFFICES ASSUME AesIInv, [AesNext]_aesVars PROVE AesIInv'
  OBVIOUS
<1>1. CASE ExpandWord
  BY <1>1, ExpandKeeps
<1>2. CASE BeginEncrypt
  BY <1>2, BeginEncryptKeeps
<1>3. CASE EncryptRound
  BY <1>3, EncryptRoundKeeps
<1>4. CASE EncryptLast
  BY <1>4, EncryptLastKeeps
<1>5. CASE BeginDecrypt
  BY <1>5, BeginDecryptKeeps
<1>6. CASE DecryptRound
  BY <1>6, DecryptRoundKeeps
<1>7. CASE DecryptLast
  BY <1>7, DecryptLastKeeps
<1>8. CASE UNCHANGED aesVars
  BY <1>8 DEF aesVars, AesIInv, AesTypeOK, Going, TrailIs, Rounded
<1>. QED
  BY <1>1, <1>2, <1>3, <1>4, <1>5, <1>6, <1>7, <1>8 DEF AesNext

(***************************************************************************)
(* The schedule and the state keep their types, and each state of a run is *)
(* the round function applied to the one before, with the words of its     *)
(* round.                                                                  *)
(***************************************************************************)
THEOREM AesInvariance == AesSpec => []AesIInv
BY InitAesIInv, NextAesIInv, PTL DEF AesSpec

(***************************************************************************)
(* The schedule, the state and the output hold bytes, and no round uses a  *)
(* word of the schedule that is not there.                                 *)
(***************************************************************************)
THEOREM AesTypesCorrect == AesSpec => []AesTypeOK
BY AesInvariance, PTL DEF AesIInv

LEMMA DecryptRetraces ==
  ASSUME AesIInv, aes_pc = "decrypt"
  PROVE  inv_sub_bytes(inv_shift_rows(state)) = trail[round]
<1> DEFINE last == Nr(job.type)
<1>1. job.type \in Types /\ last \in 10..14
  BY Typed
<1>2. /\ round \in 0..(last - 1) /\ TrailIs(last)
      /\ state = shift_rows(sub_bytes(trail[round]))
  <2>1. round \in 0..last
    BY Typed
  <2>2. /\ round < last /\ TrailIs(last)
        /\ state = shift_rows(sub_bytes(trail[round]))
    BY DEF AesIInv, Going
  <2>. QED
    BY <1>1, <2>1, <2>2
<1>3. round + 1 \in 1..last /\ round + 1 - 1 = round
  BY <1>1, <1>2
<1>. QED
  BY <1>1, <1>2, <1>3, Unrounded

(***************************************************************************)
(* Decryption inverts encryption, for every key and block and for every    *)
(* pair of tables that are inverse to each other: the block that comes out *)
(* is the one that was encrypted.                                          *)
(***************************************************************************)
THEOREM Retraced == AesSpec => []DecryptionRetraces
<1>1. AesIInv => DecryptionRetraces
  BY DecryptRetraces DEF AesIInv, Going, DecryptionRetraces
<1>. QED
  BY <1>1, AesInvariance, PTL

-----------------------------------------------------------------------------
(***************************************************************************)
(* The modes: the types of a call and of what its blocks are made from.    *)
(***************************************************************************)
OneByte == 0..(ByteValues - 1)

LEMMA BlockSizes ==
  /\ BLOCK_SIZE \in Nat \ {0} /\ ByteValues \in Nat \ {0} /\ BLOCK_SIZE < ByteValues
  /\ Capacity \in Nat
BY ModesAssumption

LEMMA CallTypes ==
  ASSUME NEW c \in Calls
  PROVE  /\ c.iv \in Blocks
         /\ c.data_len \in Nat /\ c.data_len <= Capacity
         /\ c.data_len % BLOCK_SIZE # 0 =>
              (c.data_len \div BLOCK_SIZE + 1) * BLOCK_SIZE <= Capacity
         /\ c.data \in [0..(c.data_len - 1) -> OneByte]
         /\ \A x \in Blocks : Enc(c, x) \in Blocks
BY ModesAssumption DEF Enc, OneByte

LEMMA XorBlockType == \A x, y \in Blocks : XorBlock(x, y) \in Blocks
BY ModesAssumption DEF XorBlock, Blocks

LEMMA PlainType == \A c \in Calls, n \in Nat : Plain(c, n) \in Blocks
<1> SUFFICES ASSUME NEW c \in Calls, NEW n \in Nat, NEW m \in Positions
             PROVE  (IF n * BLOCK_SIZE + m < c.data_len THEN c.data[n * BLOCK_SIZE + m]
                     ELSE BLOCK_SIZE - (c.data_len % BLOCK_SIZE)) \in OneByte
  BY DEF Plain, Blocks, OneByte
<1>1. n * BLOCK_SIZE + m \in Nat
  BY BlockSizes DEF Positions
<1>2. c.data_len \in Int /\ BLOCK_SIZE \in Nat \ {0}
  BY CallTypes, BlockSizes
<1>3. c.data_len % BLOCK_SIZE \in 0..(BLOCK_SIZE - 1)
  BY <1>2, DivMod, Zenon
<1>4. BLOCK_SIZE - (c.data_len % BLOCK_SIZE) \in OneByte
  BY <1>3, BlockSizes DEF OneByte
<1>5. n * BLOCK_SIZE + m < c.data_len => c.data[n * BLOCK_SIZE + m] \in OneByte
  BY <1>1, <1>2, CallTypes
<1> QED
  BY <1>4, <1>5

LEMMA FeedForwardType ==
  \A c \in Calls, n \in Nat, x \in Blocks : FeedForward(c, n, x) \in Blocks
BY CallTypes, PlainType, XorBlockType DEF FeedForward

IsFed(f, c) == f = [n \in Nat |-> IF n = 0 THEN c.iv ELSE FeedForward(c, n - 1, f[n - 1])]

LEMMA FedExists ==
  ASSUME NEW c \in Calls
  PROVE  \E f \in [Nat -> Blocks] : IsFed(f, c)
<1> DEFINE g == [pair \in Nat \X Blocks |-> FeedForward(c, pair[1], pair[2])]
<1>1. IsStep(g, Blocks)
  BY FeedForwardType DEF IsStep
<1>2. \A n \in Nat, x \in Blocks : g[<<n, x>>] = FeedForward(c, n, x)
  OBVIOUS
<1> HIDE DEF g
<1>3. PICK f : IsRecursive(f, Blocks, c.iv, g)
  BY <1>1, CallTypes, Recursion
<1>4. f \in [Nat -> Blocks] /\ f[0] = c.iv /\ \A n \in Nat : f[n + 1] = g[<<n, f[n]>>]
  BY <1>3 DEF IsRecursive
<1>5. \A n \in Nat : f[n] = IF n = 0 THEN c.iv ELSE FeedForward(c, n - 1, f[n - 1])
  <2> SUFFICES ASSUME NEW n \in Nat, n # 0 PROVE f[n] = FeedForward(c, n - 1, f[n - 1])
    BY <1>4
  <2>1. n - 1 \in Nat /\ (n - 1) + 1 = n
    OBVIOUS
  <2> QED
    BY <1>2, <1>4, <2>1
<1>6. f = [n \in Nat |-> f[n]]
  BY <1>4
<1> QED
  BY <1>4, <1>5, <1>6 DEF IsFed

LEMMA FedRecurs ==
  ASSUME NEW c \in Calls
  PROVE  /\ Fed(c)[0] = c.iv
         /\ \A n \in Nat : Fed(c)[n] \in Blocks /\ Fed(c)[n + 1] = FeedForward(c, n, Fed(c)[n])
<1>1. IsFed(Fed(c), c)
  BY FedExists, Zenon DEF Fed, IsFed
<1>2. \A n \in Nat : Fed(c)[n] = IF n = 0 THEN c.iv ELSE FeedForward(c, n - 1, Fed(c)[n - 1])
  BY <1>1 DEF IsFed
<1>3. \A n \in Nat : n + 1 \in Nat /\ n + 1 # 0 /\ (n + 1) - 1 = n
  OBVIOUS
<1>4. Fed(c)[0] = c.iv /\ \A n \in Nat : Fed(c)[n + 1] = FeedForward(c, n, Fed(c)[n])
  BY <1>2, <1>3
<1> DEFINE S == {n \in Nat : Fed(c)[n] \in Blocks}
<1>5. 0 \in S
  BY <1>4, CallTypes
<1>6. \A n \in Nat : n \in S => n + 1 \in S
  BY <1>4, FeedForwardType
<1> HIDE DEF S
<1>7. \A n \in Nat : n \in S
  BY <1>5, <1>6, SetInduction
<1> QED
  BY <1>4, <1>7 DEF S
IsNumber(N, block) ==
  N = [n \in 0..BLOCK_SIZE |-> IF n = 0 THEN 0 ELSE ByteValues * N[n - 1] + block[n - 1]]

LEMMA NumberExists ==
  ASSUME NEW block \in Blocks
  PROVE  \E N \in [0..BLOCK_SIZE -> Nat] : IsNumber(N, block)
<1> DEFINE byte == [n \in Nat |-> IF n \in Positions THEN block[n] ELSE 0]
           g == [pair \in Nat \X Nat |-> ByteValues * pair[2] + byte[pair[1]]]
<1>0. byte \in [Nat -> Nat]
  BY DEF Blocks, Positions
<1>1. \A n \in Positions : byte[n] = block[n]
  BY BlockSizes DEF Positions
<1> HIDE DEF byte
<1>2. IsStep(g, Nat)
  BY <1>0, BlockSizes DEF IsStep
<1>3. \A n, x \in Nat : g[<<n, x>>] = ByteValues * x + byte[n]
  OBVIOUS
<1> HIDE DEF g
<1>4. PICK f : IsRecursive(f, Nat, 0, g)
  BY <1>2, Recursion
<1>5. f \in [Nat -> Nat] /\ f[0] = 0 /\ \A n \in Nat : f[n + 1] = ByteValues * f[n] + byte[n]
  BY <1>3, <1>4 DEF IsRecursive
<1> DEFINE N == [n \in 0..BLOCK_SIZE |-> f[n]]
<1>6. N \in [0..BLOCK_SIZE -> Nat]
  BY <1>5
<1>7. ASSUME NEW n \in 0..BLOCK_SIZE
      PROVE  N[n] = IF n = 0 THEN 0 ELSE ByteValues * N[n - 1] + block[n - 1]
  <2>1. CASE n = 0
    BY <1>5, <2>1
  <2>2. CASE n # 0
    <3>1. n - 1 \in Nat /\ n - 1 \in Positions /\ n - 1 \in 0..BLOCK_SIZE /\ (n - 1) + 1 = n
      BY <2>2, BlockSizes DEF Positions
    <3>2. f[n] = ByteValues * f[n - 1] + byte[n - 1]
      BY <1>5, <3>1
    <3>3. N[n] = f[n] /\ N[n - 1] = f[n - 1]
      BY <3>1
    <3> QED
      BY <1>1, <2>2, <3>1, <3>2, <3>3
  <2> QED
    BY <2>1, <2>2
<1>8. N = [n \in 0..BLOCK_SIZE |-> N[n]]
  OBVIOUS
<1> HIDE DEF N
<1> QED
  BY <1>6, <1>7, <1>8 DEF IsNumber

\* The digits of a block taken as a number are its bytes.
LEMMA DigitsOfNumber ==
  ASSUME NEW block \in Blocks
  PROVE  /\ ToNumber(block) \in Nat
         /\ \A m \in Positions : Digit(ByteValues, ToNumber(block), BLOCK_SIZE - 1 - m) = block[m]
<1> DEFINE N == CHOOSE f : f = [n \in 0..BLOCK_SIZE |->
                      IF n = 0 THEN 0 ELSE ByteValues * f[n - 1] + block[n - 1]]
<1>1. IsNumber(N, block)
  BY NumberExists, Zenon DEF IsNumber
<1>2. ToNumber(block) = N[BLOCK_SIZE]
  BY DEF ToNumber
<1> HIDE DEF N
<1>3. \A n \in 0..BLOCK_SIZE : N[n] = IF n = 0 THEN 0 ELSE ByteValues * N[n - 1] + block[n - 1]
  BY <1>1 DEF IsNumber
<1> DEFINE Right(n) == /\ N[n] \in Nat
                       /\ \A m \in 0..(n - 1) : Digit(ByteValues, N[n], n - 1 - m) = block[m]
           S == {n \in Nat : n <= BLOCK_SIZE => Right(n)}
<1>4. 0 \in S
  BY <1>3, BlockSizes
<1>5. ASSUME NEW n \in Nat, n \in S
      PROVE  n + 1 \in S
  <2> SUFFICES ASSUME n + 1 <= BLOCK_SIZE PROVE Right(n + 1)
    OBVIOUS
  <2>1. /\ n + 1 \in 0..BLOCK_SIZE /\ n + 1 # 0 /\ (n + 1) - 1 = n
        /\ n \in Positions /\ n <= BLOCK_SIZE
    BY BlockSizes DEF Positions
  <2>2. N[n + 1] = ByteValues * N[n] + block[n]
    BY <1>3, <2>1
  <2>3. N[n] \in Nat /\ \A m \in 0..(n - 1) : Digit(ByteValues, N[n], n - 1 - m) = block[m]
    BY <1>5, <2>1
  <2>4. block[n] \in 0..(ByteValues - 1)
    BY <2>1 DEF Blocks
  <2> HIDE DEF N
  <2>5. N[n + 1] \in Nat
    BY <2>2, <2>3, <2>4, BlockSizes
  <2>6. /\ Digit(ByteValues, N[n + 1], 0) = block[n]
        /\ \A e \in Nat : Digit(ByteValues, N[n + 1], e + 1) = Digit(ByteValues, N[n], e)
    <3> DEFINE y == ByteValues * N[n] + block[n]
    <3>1. /\ Digit(ByteValues, y, 0) = block[n]
          /\ \A e \in Nat : Digit(ByteValues, y, e + 1) = Digit(ByteValues, N[n], e)
      <4>1. N[n] \in Nat /\ ByteValues \in Nat \ {0}
        BY <2>3, BlockSizes
      <4> QED
        BY <2>4, <4>1, DigitAppended, ZenonT(40)
    <3> HIDE DEF y
    <3> QED
      BY <2>2, <3>1, Zenon DEF y
  <2>7. ASSUME NEW m \in 0..((n + 1) - 1)
        PROVE  Digit(ByteValues, N[n + 1], (n + 1) - 1 - m) = block[m]
    <3>1. CASE m = n
      <4>1. (n + 1) - 1 - m = 0
        BY <3>1
      <4> QED
        BY <2>6, <3>1, <4>1
    <3>2. CASE m # n
      <4>1. m \in 0..(n - 1) /\ n - 1 - m \in Nat /\ (n + 1) - 1 - m = (n - 1 - m) + 1
        BY <3>2
      <4> QED
        BY <2>3, <2>6, <4>1
    <3> QED
      BY <3>1, <3>2
  <2> QED
    BY <2>5, <2>7
<1> HIDE DEF S
<1>6. \A n \in Nat : n \in S
  BY <1>4, <1>5, SetInduction
<1>7. Right(BLOCK_SIZE)
  BY <1>6, BlockSizes DEF S
<1> QED
  BY <1>2, <1>7 DEF Positions

LEMMA CounterType == \A c \in Calls, n \in Nat : Counter(c, n) \in Blocks
<1> SUFFICES ASSUME NEW c \in Calls, NEW n \in Nat, NEW m \in Positions
             PROVE  Digit(ByteValues, ToNumber(c.iv) + n, BLOCK_SIZE - 1 - m) \in 0..(ByteValues - 1)
  BY DEF Counter, Blocks
<1>1. ToNumber(c.iv) + n \in Nat /\ BLOCK_SIZE - 1 - m \in Nat
  BY CallTypes, DigitsOfNumber, BlockSizes DEF Positions
<1> QED
  BY <1>1, BlockSizes, DigitType

\* The increment of a block counts, the wrap of the whole counter included.
LEMMA CounterCounts ==
  ASSUME NEW c \in Calls
  PROVE  /\ Counter(c, 0) = c.iv
         /\ \A n \in Nat : Incremented(Counter(c, n)) = Counter(c, n + 1)
<1> DEFINE first == ToNumber(c.iv)
<1>1. /\ first \in Nat /\ c.iv \in Blocks
      /\ \A m \in Positions : Digit(ByteValues, first, BLOCK_SIZE - 1 - m) = c.iv[m]
  BY CallTypes, DigitsOfNumber
<1> HIDE DEF first
<1>2. Counter(c, 0) = c.iv
  BY <1>1 DEF Counter, Blocks, first
<1>3. ASSUME NEW n \in Nat
      PROVE  Incremented(Counter(c, n)) = Counter(c, n + 1)
  <2> DEFINE block == Counter(c, n)
             x == first + n
             Carry(m) == \A q \in (m + 1)..(BLOCK_SIZE - 1) : block[q] = ByteValues - 1
  <2>1. x \in Nat /\ first + (n + 1) = x + 1
    BY <1>1
  <2>2. \A m \in Positions : BLOCK_SIZE - 1 - m \in Nat
                             /\ block[m] = Digit(ByteValues, x, BLOCK_SIZE - 1 - m)
    BY BlockSizes DEF Counter, Positions, first
  <2> HIDE DEF block, x
  <2>3. ASSUME NEW m \in Positions
        PROVE  Carry(m) <=> AllLast(ByteValues, x, BLOCK_SIZE - 1 - m)
    <3>1. ASSUME AllLast(ByteValues, x, BLOCK_SIZE - 1 - m), NEW q \in (m + 1)..(BLOCK_SIZE - 1)
          PROVE  block[q] = ByteValues - 1
      <4>1. q \in Positions /\ BLOCK_SIZE - 1 - q \in 0..((BLOCK_SIZE - 1 - m) - 1)
        BY BlockSizes DEF Positions
      <4> QED
        BY <2>2, <3>1, <4>1 DEF AllLast
    <3>2. ASSUME Carry(m), NEW e \in 0..((BLOCK_SIZE - 1 - m) - 1)
          PROVE  Digit(ByteValues, x, e) = ByteValues - 1
      <4>1. /\ BLOCK_SIZE - 1 - e \in (m + 1)..(BLOCK_SIZE - 1) /\ BLOCK_SIZE - 1 - e \in Positions
            /\ BLOCK_SIZE - 1 - (BLOCK_SIZE - 1 - e) = e
        BY BlockSizes DEF Positions
      <4> QED
        BY <2>2, <3>2, <4>1
    <3> QED
      BY <3>1, <3>2 DEF AllLast
  <2>4. ASSUME NEW m \in Positions
        PROVE  Digit(ByteValues, x + 1, BLOCK_SIZE - 1 - m) =
                 IF Carry(m) THEN (block[m] + 1) % ByteValues ELSE block[m]
    BY <2>1, <2>2, <2>3, BlockSizes, DigitOfSuccessor
  <2> HIDE DEF Carry
  <2>5. Incremented(block) =
          [m \in Positions |-> IF Carry(m) THEN (block[m] + 1) % ByteValues ELSE block[m]]
    BY DEF Incremented, Carry
  <2>6. Counter(c, n + 1) = [m \in Positions |-> Digit(ByteValues, x + 1, BLOCK_SIZE - 1 - m)]
    BY <2>1 DEF Counter, first
  <2> QED
    BY <2>4, <2>5, <2>6 DEF block
<1> QED
  BY <1>2, <1>3

-----------------------------------------------------------------------------
(***************************************************************************)
(* The invariant: what is behind the blocks done is untouched and, unless  *)
(* the call is in place in a mode that cannot be, buf is what the next     *)
(* block is made from and the output is that of the standard so far.       *)
(***************************************************************************)
Safe == call.in_place => SafeInPlace

Untouched_from(n) == \A m \in 0..(Capacity - 1) : m >= n => output[m] = FirstOut(call)[m]

Standard(len) ==
  \A n \in 0..(len - 1) : output[n] = Cipher(call, n \div BLOCK_SIZE)[n % BLOCK_SIZE]

FedTo(n) ==
  CASE call.mode = "ECB" -> buf
    [] call.mode = "CTR" -> Counter(call, n)
    [] OTHER -> Fed(call)[n]

AtBlocks ==
  /\ status = "OK" /\ schedule = "keyed" /\ call.mode \in Modes
  /\ blocks \in 0..full_blocks
  /\ Untouched_from(blocks * BLOCK_SIZE)
  /\ Safe => buf = FedTo(blocks) /\ Standard(blocks * BLOCK_SIZE)

(* The byte behind buf changes in the padded tail alone.                   *)
PadBehind ==
  beyond # call.beyond => status = "OK" /\ call.mode \in {"ECB", "CBC"} /\ left_data # 0

(* Only a type that is not supported leaves the schedule unset.            *)
UnsetForOthers ==
  /\ step # "init" /\ schedule = "unset" => call.type \notin KeyTypes
  /\ step = "undefined" => call.type \notin KeyTypes

Ended ==
  \/ output = FirstOut(call) /\ (status = "OK" => call.mode \notin Modes)
  \/ /\ status = "OK" /\ call.mode \in Modes
     /\ Untouched_from(OutLen)
     /\ Safe => Standard(OutLen)

ModesIInv ==
  /\ call \in Calls
  /\ output = [n \in 0..(Capacity - 1) |-> output[n]]
  /\ step \in {"init", "expand", "blocks", "exit", "done", "undefined"}
  /\ step \in {"init", "expand"} => output = FirstOut(call) /\ status = "OK" /\ blocks = 0
  /\ step = "blocks" => AtBlocks
  /\ step \in {"exit", "done", "undefined"} => Ended
  /\ step \in {"done", "undefined"} => schedule \notin {"raw", "keyed"}
  /\ step \in {"init", "expand", "blocks"} => beyond = call.beyond
  /\ PadBehind /\ UnsetForOthers

LEMMA Lengths ==
  ASSUME call \in Calls
  PROVE  /\ full_blocks \in Nat /\ left_data \in 0..(BLOCK_SIZE - 1)
         /\ call.data_len = BLOCK_SIZE * full_blocks + left_data
         /\ call.data_len <= Capacity
         /\ left_data # 0 => (full_blocks + 1) * BLOCK_SIZE <= Capacity
<1>1. call.data_len \in Int /\ call.data_len >= 0 /\ BLOCK_SIZE \in Nat \ {0}
  BY CallTypes, BlockSizes
<1>2. /\ full_blocks \in Int /\ left_data \in 0..(BLOCK_SIZE - 1)
      /\ call.data_len = BLOCK_SIZE * full_blocks + left_data
  BY <1>1, DivMod, Zenon DEF full_blocks, left_data
<1>3. full_blocks \in Nat
  <2>1. full_blocks <= -1 => BLOCK_SIZE * full_blocks + BLOCK_SIZE <= BLOCK_SIZE * 0
    BY <1>1, <1>2, MultiplesApart
  <2> QED
    BY <1>1, <1>2, <2>1
<1>4. /\ call.data_len <= Capacity
      /\ left_data # 0 => (full_blocks + 1) * BLOCK_SIZE <= Capacity
  BY CallTypes DEF full_blocks, left_data
<1> QED
  BY <1>2, <1>3, <1>4

\* Bytes in place n: of block q, the one in place m.
LEMMA Place ==
  ASSUME NEW q \in Nat, NEW m \in Positions
  PROVE  /\ q * BLOCK_SIZE + m \in Nat
         /\ (q * BLOCK_SIZE + m) \div BLOCK_SIZE = q
         /\ (q * BLOCK_SIZE + m) % BLOCK_SIZE = m
<1>1. q * BLOCK_SIZE = BLOCK_SIZE * q /\ BLOCK_SIZE * q \in Nat
  BY BlockSizes
<1>2. BLOCK_SIZE \in Nat \ {0} /\ q \in Int /\ m \in 0..(BLOCK_SIZE - 1) /\ m \in Nat
  BY BlockSizes DEF Positions
<1> QED
  BY <1>1, <1>2, DivModUnique

\* The output after the first len bytes of x were put behind the blocks done.
LEMMA PutKeeps ==
  ASSUME call \in Calls, blocks \in Nat, NEW x, NEW len \in 1..BLOCK_SIZE,
         output = [n \in 0..(Capacity - 1) |-> output[n]],
         blocks * BLOCK_SIZE + len <= Capacity,
         PutOut(x, len), UNCHANGED call
  PROVE  /\ (output = [n \in 0..(Capacity - 1) |-> output[n]])'
         /\ Untouched_from(blocks * BLOCK_SIZE) =>
              \A m \in 0..(Capacity - 1) :
                m >= blocks * BLOCK_SIZE + len => output'[m] = FirstOut(call)[m]
         /\ Standard(blocks * BLOCK_SIZE)
              /\ (\A m \in 0..(len - 1) : x[m] = Cipher(call, blocks)[m])
            => \A n \in 0..((blocks * BLOCK_SIZE + len) - 1) :
                 output'[n] = Cipher(call, n \div BLOCK_SIZE)[n % BLOCK_SIZE]
<1> DEFINE first == blocks * BLOCK_SIZE
           next(n) == IF n - first \in 0..(len - 1) THEN x[n - first] ELSE output[n]
<1>1. first \in Nat /\ len \in Nat /\ Capacity \in Nat
  BY BlockSizes
<1>2. DOMAIN output = 0..(Capacity - 1)
  OBVIOUS
<1>3. output' = [n \in 0..(Capacity - 1) |-> next(n)]
  BY <1>2 DEF PutOut
<1>4. \A n \in 0..(Capacity - 1) : output'[n] = next(n)
  BY <1>3
<1>5. (output = [n \in 0..(Capacity - 1) |-> output[n]])'
  BY <1>3
<1>6. ASSUME Untouched_from(first), NEW m \in 0..(Capacity - 1), m >= first + len
      PROVE  output'[m] = FirstOut(call)[m]
  <2>1. ~(m - first \in 0..(len - 1)) /\ m >= first
    BY <1>1, <1>6
  <2> HIDE DEF first
  <2> QED
    BY <1>4, <1>6, <2>1 DEF Untouched_from
<1>7. ASSUME Standard(first), \A m \in 0..(len - 1) : x[m] = Cipher(call, blocks)[m],
             NEW n \in 0..((first + len) - 1)
      PROVE  output'[n] = Cipher(call, n \div BLOCK_SIZE)[n % BLOCK_SIZE]
  <2>1. n \in 0..(Capacity - 1)
    BY <1>1
  <2>2. CASE n < first
    <3>1. ~(n - first \in 0..(len - 1)) /\ n \in 0..(first - 1)
      BY <1>1, <2>2
    <3> HIDE DEF first
    <3> QED
      BY <1>4, <1>7, <2>1, <3>1 DEF Standard
  <2>3. CASE n >= first
    <3> HIDE DEF first
    <3>1. PICK m \in 0..(len - 1) : n = first + m
      <4>1. n - first \in 0..(len - 1) /\ n = first + (n - first)
        BY <1>1, <2>3
      <4> QED
        BY <4>1
    <3>2. m \in Positions /\ n - first = m
      BY SMTT(30), <1>1, <3>1, BlockSizes DEF Positions
    <3>3. n \div BLOCK_SIZE = blocks /\ n % BLOCK_SIZE = m
      BY <3>1, <3>2, Place DEF first
    <3> QED
      BY <1>4, <1>7, <2>1, <3>1, <3>2, <3>3
  <2> QED
    BY <1>1, <2>2, <2>3
<1> HIDE DEF first
<1> QED
  BY <1>5, <1>6, <1>7 DEF first

\* What is read for the next block is the data of the call.
LEMMA SourceIsData ==
  ASSUME call \in Calls, NEW low \in Nat, Untouched_from(low),
         NEW n \in Nat, n >= low, n < call.data_len
  PROVE  Source(n) = call.data[n]
<1>1. n \in 0..(Capacity - 1)
  BY CallTypes, BlockSizes
<1> QED
  BY <1>1 DEF Source, Untouched_from, FirstOut

LEMMA DataIsPlain ==
  ASSUME call \in Calls, blocks \in Nat, blocks < full_blocks,
         Untouched_from(blocks * BLOCK_SIZE)
  PROVE  Data = Plain(call, blocks)
<1> SUFFICES ASSUME NEW m \in Positions
             PROVE  /\ blocks * BLOCK_SIZE + m < call.data_len
                    /\ Source(blocks * BLOCK_SIZE + m) = call.data[blocks * BLOCK_SIZE + m]
  BY DEF Data, Plain
<1>1. blocks * BLOCK_SIZE \in Nat /\ m \in Nat /\ m < BLOCK_SIZE
  BY BlockSizes DEF Positions
<1>2. BLOCK_SIZE * blocks + BLOCK_SIZE <= BLOCK_SIZE * full_blocks
  BY BlockSizes, Lengths, MultiplesApart
<1>3. blocks * BLOCK_SIZE + m < call.data_len
  BY <1>1, <1>2, Lengths, BlockSizes
<1>4. blocks * BLOCK_SIZE + m \in Nat /\ blocks * BLOCK_SIZE + m >= blocks * BLOCK_SIZE
  BY <1>1
<1> QED
  BY <1>1, <1>3, <1>4, SourceIsData

LEMMA RestIsPlain ==
  ASSUME call \in Calls, blocks = full_blocks, Untouched_from(blocks * BLOCK_SIZE)
  PROVE  /\ Padded(Rest) = Plain(call, blocks)
         /\ \A m \in 0..(left_data - 1) : Rest[m] = Plain(call, blocks)[m]
<1>1. /\ blocks \in Nat /\ blocks * BLOCK_SIZE \in Nat /\ left_data \in 0..(BLOCK_SIZE - 1)
      /\ call.data_len = blocks * BLOCK_SIZE + left_data
  BY Lengths, BlockSizes
<1>2. ASSUME NEW m \in Positions
      PROVE  /\ blocks * BLOCK_SIZE + m < call.data_len <=> m < left_data
             /\ m < left_data => Rest[m] = call.data[blocks * BLOCK_SIZE + m]
  <2>1. m \in Nat /\ (blocks * BLOCK_SIZE + m < call.data_len <=> m < left_data)
    BY <1>1 DEF Positions
  <2>2. ASSUME m < left_data PROVE Rest[m] = call.data[blocks * BLOCK_SIZE + m]
    <3>1. m \in 0..(left_data - 1) /\ blocks * BLOCK_SIZE + m \in Nat
          /\ blocks * BLOCK_SIZE + m >= blocks * BLOCK_SIZE
      BY <1>1, <2>1, <2>2
    <3>2. Source(blocks * BLOCK_SIZE + m) = call.data[blocks * BLOCK_SIZE + m]
      BY <1>1, <2>1, <2>2, <3>1, SourceIsData
    <3> QED
      BY <3>1, <3>2 DEF Rest
  <2> QED
    BY <2>1, <2>2
<1>3. Padded(Rest) = Plain(call, blocks)
  BY <1>2 DEF Padded, Plain, left_data
<1>4. \A m \in 0..(left_data - 1) : m \in Positions /\ m < left_data
  BY <1>1, BlockSizes DEF Positions
<1> QED
  BY <1>2, <1>3, <1>4 DEF Plain

\* What a block is fed, and what it becomes, mode by mode.
LEMMA Modewise ==
  ASSUME call \in Calls, call.mode \in Modes, NEW n \in Nat
  PROVE  /\ call.mode \in {"CBC", "CFB", "OFB", "CTR"} => FedTo(0) = call.iv
         /\ call.mode = "ECB" => Cipher(call, n) = E(Plain(call, n))
         /\ call.mode = "CBC" => /\ Cipher(call, n) = E(XorBlock(Plain(call, n), FedTo(n)))
                                 /\ FedTo(n + 1) = Cipher(call, n)
         /\ call.mode \in StreamModes => Cipher(call, n) = XorBlock(E(FedTo(n)), Plain(call, n))
         /\ call.mode = "CFB" => FedTo(n + 1) = Cipher(call, n)
         /\ call.mode = "OFB" => FedTo(n + 1) = E(FedTo(n))
         /\ call.mode = "CTR" => FedTo(n + 1) = Incremented(FedTo(n))
<1>1. \A x : Enc(call, x) = E(x)
  BY DEF Enc, E, Key
<1>2. Fed(call)[0] = call.iv /\ Fed(call)[n + 1] = FeedForward(call, n, Fed(call)[n])
  BY FedRecurs
<1>3. Counter(call, 0) = call.iv /\ Incremented(Counter(call, n)) = Counter(call, n + 1)
  BY CounterCounts
<1>4. CASE call.mode = "ECB"
  BY <1>1, <1>4 DEF Cipher, StreamModes
<1>5. CASE call.mode = "CBC"
  BY <1>1, <1>2, <1>5 DEF Cipher, FedTo, FeedForward, StreamModes
<1>6. CASE call.mode = "CFB"
  BY <1>1, <1>2, <1>6 DEF Cipher, FedTo, FeedForward
<1>7. CASE call.mode = "OFB"
  BY <1>1, <1>2, <1>7 DEF Cipher, FedTo, FeedForward
<1>8. CASE call.mode = "CTR"
  BY <1>1, <1>3, <1>8 DEF Cipher, FedTo
<1> QED
  BY <1>4, <1>5, <1>6, <1>7, <1>8 DEF Modes, StreamModes

-----------------------------------------------------------------------------
(***************************************************************************)
(* The steps.                                                              *)
(***************************************************************************)
LEMMA InitModesIInv == ModesInit => ModesIInv
BY DEF ModesInit, ModesIInv, FirstOut, PadBehind, UnsetForOthers

LEMMA key_initKeeps == ASSUME ModesIInv, key_init PROVE ModesIInv'
<1>1. UNCHANGED <<call, beyond, output, blocks>> /\ step = "init"
  BY DEF key_init
<1>2. FirstOut(call)' = FirstOut(call)
  BY <1>1 DEF FirstOut
<1>3. output = FirstOut(call) /\ status = "OK" /\ blocks = 0 /\ beyond = call.beyond
  BY <1>1 DEF ModesIInv
<1>6. beyond' = call'.beyond /\ PadBehind' /\ UnsetForOthers'
  BY <1>1, <1>3 DEF PadBehind, UnsetForOthers, key_init, Fail
<1>4. CASE Fail
  BY <1>1, <1>2, <1>3, <1>4, <1>6 DEF ModesIInv, Fail, Ended
<1>5. CASE step' = "expand" /\ UNCHANGED status
  BY <1>1, <1>2, <1>3, <1>5, <1>6 DEF ModesIInv
<1> QED
  BY <1>4, <1>5 DEF key_init

LEMMA key_expandKeeps == ASSUME ModesIInv, key_expand PROVE ModesIInv'
<1>1. UNCHANGED <<call, beyond, output, blocks>> /\ step = "expand"
  BY DEF key_expand
<1>2. FirstOut(call)' = FirstOut(call)
  BY <1>1 DEF FirstOut
<1>3. call \in Calls /\ output = FirstOut(call) /\ status = "OK" /\ blocks = 0
  BY <1>1 DEF ModesIInv
<1>7. beyond' = call'.beyond /\ PadBehind' /\ UnsetForOthers'
  <2>1. beyond = call.beyond /\ UnsetForOthers
    BY <1>1 DEF ModesIInv
  <2>. QED
    BY <1>1, <2>1 DEF PadBehind, UnsetForOthers, key_expand, Fail
<1>4. CASE Refused /\ Fail
  BY <1>1, <1>2, <1>3, <1>4, <1>7 DEF ModesIInv, Fail, Ended
<1>5. CASE /\ schedule' = "keyed" /\ UNCHANGED status /\ call.mode \notin Modes
           /\ step' = IF call.mode \in Modes THEN "blocks" ELSE "exit"
  BY <1>1, <1>2, <1>3, <1>5, <1>7 DEF ModesIInv, Ended
<1>6. CASE /\ schedule' = "keyed" /\ UNCHANGED status /\ call.mode \in Modes
           /\ buf' = IF call.mode \in Modes \ {"ECB"} THEN call.iv ELSE buf
           /\ step' = IF call.mode \in Modes THEN "blocks" ELSE "exit"
  <2>1. blocks' \in (0..full_blocks)' /\ blocks' = 0 /\ blocks' * BLOCK_SIZE = 0
    BY <1>1, <1>3, Lengths, BlockSizes DEF full_blocks
  <2>2. Untouched_from(blocks * BLOCK_SIZE)'
    BY <1>1, <1>2, <1>3 DEF Untouched_from
  <2>3. buf' = FedTo(0)'
    <3>1. CASE call.mode = "ECB"
      BY <1>1, <3>1 DEF FedTo
    <3>2. CASE call.mode # "ECB"
      <4>1. buf' = call.iv /\ FedTo(0) = call.iv /\ call.mode \in Modes \ {"ECB"}
        BY <1>3, <1>6, <3>2, Modewise, 0 \in Nat DEF Modes, StreamModes
      <4>2. FedTo(0)' = FedTo(0)
        BY <1>1, <3>2 DEF FedTo
      <4> QED
        BY <4>1, <4>2
    <3> QED
      BY <3>1, <3>2
  <2>4. Standard(blocks * BLOCK_SIZE)'
    BY <2>1 DEF Standard
  <2>5. AtBlocks'
    BY <1>1, <1>3, <1>6, <2>1, <2>2, <2>3, <2>4 DEF AtBlocks
  <2> QED
    BY <1>1, <1>3, <1>6, <1>7, <2>5 DEF ModesIInv
<1> QED
  BY <1>4, <1>5, <1>6 DEF key_expand

LEMMA key_freeKeeps == ASSUME ModesIInv, key_free PROVE ModesIInv'
<1>1. UNCHANGED <<call, status, beyond, output>> /\ step = "exit" /\ step' \in {"done", "undefined"}
  BY DEF key_free
<1>2. FirstOut(call)' = FirstOut(call) /\ OutLen' = OutLen /\ SafeInPlace' = SafeInPlace
  BY <1>1 DEF FirstOut, OutLen, SafeInPlace, full_blocks, left_data
<1>3. Ended'
  <2>1. CASE output = FirstOut(call) /\ (status = "OK" => call.mode \notin Modes)
    BY <1>1, <1>2, <2>1 DEF Ended
  <2>2. CASE /\ status = "OK" /\ call.mode \in Modes
             /\ Untouched_from(OutLen) /\ (Safe => Standard(OutLen))
    <3>1. Untouched_from(OutLen)'
      BY <1>1, <1>2, <2>2 DEF Untouched_from
    <3>2. Safe' = Safe
      BY <1>1, <1>2 DEF Safe
    <3>3. Standard(OutLen)' = Standard(OutLen)
      BY <1>1, <1>2 DEF Standard
    <3> QED
      BY <1>1, <2>2, <3>1, <3>2, <3>3 DEF Ended
  <2> QED
    BY <1>1, <2>1, <2>2 DEF ModesIInv, Ended
<1>4. schedule' \notin {"raw", "keyed"}
  BY DEF key_free
<1>5. PadBehind' /\ UnsetForOthers'
  <2>1. left_data' = left_data
    BY <1>1 DEF left_data
  <2>2. PadBehind /\ UnsetForOthers
    BY DEF ModesIInv
  <2>. QED
    BY <1>1, <2>1, <2>2 DEF PadBehind, UnsetForOthers, key_free
<1> QED
  BY <1>1, <1>3, <1>4, <1>5 DEF ModesIInv

\* The block that a mode puts out and what it feeds on.
LEMMA FullBlockPuts ==
  ASSUME call \in Calls, AtBlocks, blocks < full_blocks, ChainedBlock \/ StreamBlock
  PROVE  \E x : /\ PutOut(x, BLOCK_SIZE)
                /\ Safe => x = Cipher(call, blocks) /\
                           (call.mode \in Modes \ {"ECB"} => buf' = FedTo(blocks + 1))
<1>1. blocks \in Nat /\ Data = Plain(call, blocks)
  BY DataIsPlain, Lengths DEF AtBlocks
<1>2. Safe => buf = FedTo(blocks)
  BY DEF AtBlocks
<1>3. CASE ChainedBlock
  <2> DEFINE x == IF call.mode = "CBC" THEN XorBlock(Data, buf) ELSE Data
  <2>1. call.mode \in {"ECB", "CBC"} /\ PutOut(E(x), BLOCK_SIZE)
        /\ buf' = IF call.mode = "CBC" THEN E(x) ELSE buf
    BY <1>3 DEF ChainedBlock
  <2>2. Safe => E(x) = Cipher(call, blocks)
                /\ (call.mode \in Modes \ {"ECB"} => buf' = FedTo(blocks + 1))
    <3>1. CASE call.mode = "ECB"
      BY <1>1, <3>1, Modewise DEF Modes
    <3>2. CASE call.mode = "CBC"
      BY <1>1, <1>2, <2>1, <3>2, Modewise DEF Modes
    <3> QED
      BY <2>1, <3>1, <3>2
  <2> HIDE DEF x
  <2> QED
    BY <2>1, <2>2
<1>4. CASE StreamBlock
  <2> DEFINE read == IF call.in_place THEN E(buf) ELSE Data
             x == XorBlock(E(buf), read)
  <2>1. /\ call.mode \in StreamModes /\ PutOut(x, BLOCK_SIZE)
        /\ buf' = CASE call.mode = "OFB" -> E(buf)
                    [] call.mode = "CFB" -> x
                    [] call.mode = "CTR" -> Incremented(buf)
    BY <1>4 DEF StreamBlock
  <2>2. Safe => x = Cipher(call, blocks) /\ buf' = FedTo(blocks + 1)
    <3> SUFFICES ASSUME Safe PROVE x = Cipher(call, blocks) /\ buf' = FedTo(blocks + 1)
      OBVIOUS
    <3>1. full_blocks # 0
      BY <1>1, Lengths
    <3>2. call.mode \notin {"ECB", "CBC"}
      BY <2>1 DEF StreamModes
    <3>3. ~call.in_place
      BY <3>1, <3>2 DEF Safe, SafeInPlace
    <3>4. x = XorBlock(E(FedTo(blocks)), Plain(call, blocks))
      BY <1>1, <1>2, <3>3
    <3>5. call.mode \in Modes
      BY <2>1 DEF Modes
    <3> HIDE DEF x
    <3>6. x = Cipher(call, blocks)
      BY <1>1, <2>1, <3>4, <3>5, Modewise
    <3>7. CASE call.mode = "OFB"
      BY <1>1, <1>2, <2>1, <3>5, <3>6, <3>7, Modewise
    <3>8. CASE call.mode = "CFB"
      BY <1>1, <1>2, <2>1, <3>5, <3>6, <3>8, Modewise
    <3>9. CASE call.mode = "CTR"
      BY <1>1, <1>2, <2>1, <3>5, <3>6, <3>9, Modewise
    <3> QED
      BY <2>1, <3>6, <3>7, <3>8, <3>9 DEF StreamModes
  <2> HIDE DEF x
  <2> QED
    BY <2>1, <2>2
<1> QED
  BY <1>3, <1>4

LEMMA FullBlockKeeps == ASSUME ModesIInv, FullBlock PROVE ModesIInv'
<1>1. /\ call \in Calls /\ AtBlocks /\ blocks < full_blocks /\ blocks' = blocks + 1
      /\ UNCHANGED <<call, step, status, schedule, beyond>> /\ step = "blocks"
      /\ ChainedBlock \/ StreamBlock
      /\ output = [n \in 0..(Capacity - 1) |-> output[n]]
  BY DEF ModesIInv, FullBlock
<1>2. PICK x : /\ PutOut(x, BLOCK_SIZE)
               /\ Safe => x = Cipher(call, blocks) /\
                          (call.mode \in Modes \ {"ECB"} => buf' = FedTo(blocks + 1))
  BY <1>1, FullBlockPuts
<1>3. blocks \in Nat /\ full_blocks \in Nat /\ BLOCK_SIZE \in 1..BLOCK_SIZE
  BY <1>1, Lengths, BlockSizes DEF AtBlocks
<1>4. blocks * BLOCK_SIZE + BLOCK_SIZE <= Capacity
  <2>1. BLOCK_SIZE * blocks + BLOCK_SIZE <= BLOCK_SIZE * full_blocks
    BY <1>1, <1>3, BlockSizes, MultiplesApart
  <2> QED
    BY SMTT(30), <1>1, <1>3, <2>1, Lengths, BlockSizes
<1>5. blocks' * BLOCK_SIZE = blocks * BLOCK_SIZE + BLOCK_SIZE
  BY <1>1, <1>3, BlockSizes
<1>6. /\ (output = [n \in 0..(Capacity - 1) |-> output[n]])'
      /\ \A m \in 0..(Capacity - 1) :
           m >= blocks * BLOCK_SIZE + BLOCK_SIZE => output'[m] = FirstOut(call)[m]
      /\ Safe =>
           \A n \in 0..((blocks * BLOCK_SIZE + BLOCK_SIZE) - 1) :
             output'[n] = Cipher(call, n \div BLOCK_SIZE)[n % BLOCK_SIZE]
  BY <1>1, <1>2, <1>3, <1>4, PutKeeps DEF AtBlocks
<1>7. Untouched_from(blocks * BLOCK_SIZE)'
  <2>1. FirstOut(call)' = FirstOut(call)
    BY <1>1 DEF FirstOut
  <2> QED
    BY <1>5, <1>6, <2>1 DEF Untouched_from
<1>8. Safe' = Safe /\ full_blocks' = full_blocks
  BY <1>1 DEF Safe, SafeInPlace, full_blocks
<1>9. ASSUME Safe PROVE Standard(blocks * BLOCK_SIZE)' /\ buf' = FedTo(blocks)'
  <2>1. Standard(blocks * BLOCK_SIZE)'
    <3>1. call' = call
      BY <1>1
    <3>2. 0..(blocks' * BLOCK_SIZE - 1) = 0..((blocks * BLOCK_SIZE + BLOCK_SIZE) - 1)
      BY <1>1, <1>3, <1>5, BlockSizes
    <3> QED
      BY <1>6, <1>9, <3>1, <3>2, Zenon DEF Standard
  <2>2. CASE call.mode = "ECB"
    BY <1>1, <2>1, <2>2 DEF FedTo
  <2>3. CASE call.mode # "ECB"
    <3>1. buf' = FedTo(blocks + 1)
      BY <1>1, <1>2, <1>9, <2>3 DEF AtBlocks
    <3>2. FedTo(blocks)' = FedTo(blocks + 1)
      BY <1>1, <2>3 DEF FedTo
    <3> QED
      BY <2>1, <3>1, <3>2
  <2> QED
    BY <2>1, <2>2, <2>3
<1>10. AtBlocks'
  BY <1>1, <1>3, <1>7, <1>8, <1>9 DEF AtBlocks
<1>11. beyond' = call'.beyond /\ PadBehind' /\ UnsetForOthers'
  <2>1. beyond = call.beyond /\ UnsetForOthers
    BY <1>1 DEF ModesIInv
  <2>. QED
    BY <1>1, <2>1 DEF PadBehind, UnsetForOthers
<1> QED
  BY <1>1, <1>6, <1>10, <1>11 DEF ModesIInv

LEMMA LastBlockPuts ==
  ASSUME call \in Calls, AtBlocks, blocks = full_blocks, left_data # 0,
         PaddedTail \/ StreamTail
  PROVE  \E x : \E len \in 1..BLOCK_SIZE :
           /\ PutOut(x, len) /\ blocks * BLOCK_SIZE + len = OutLen /\ OutLen <= Capacity
           /\ Safe => \A m \in 0..(len - 1) : x[m] = Cipher(call, blocks)[m]
<1>1. /\ blocks \in Nat /\ left_data \in 1..BLOCK_SIZE /\ BLOCK_SIZE \in 1..BLOCK_SIZE
      /\ left_data <= BLOCK_SIZE - 1
  BY Lengths, BlockSizes
<1>2. /\ Padded(Rest) = Plain(call, blocks)
      /\ \A m \in 0..(left_data - 1) : Rest[m] = Plain(call, blocks)[m]
  BY RestIsPlain DEF AtBlocks
<1>3. (Safe => buf = FedTo(blocks)) /\ call.mode \in Modes
  BY DEF AtBlocks
<1>4. CASE PaddedTail
  <2> DEFINE x == IF call.mode = "CBC" THEN XorBlock(Padded(Rest), buf) ELSE Padded(Rest)
  <2>1. call.mode \in {"ECB", "CBC"} /\ PutOut(E(x), BLOCK_SIZE)
    BY <1>4 DEF PaddedTail
  <2>2. Safe => E(x) = Cipher(call, blocks)
    BY <1>1, <1>2, <1>3, <2>1, Modewise
  <2> HIDE DEF x
  <2>3. OutLen = (full_blocks + 1) * BLOCK_SIZE /\ OutLen <= Capacity
    BY <1>1, <2>1, Lengths DEF OutLen, StreamModes
  <2>4. blocks * BLOCK_SIZE + BLOCK_SIZE = OutLen
    BY <1>1, <2>3, BlockSizes
  <2> QED
    BY <1>1, <2>1, <2>2, <2>3, <2>4
<1>5. CASE StreamTail
  <2> DEFINE x == [n \in 0..(left_data - 1) |-> XorByte(E(buf)[n], Rest[n])]
  <2>1. call.mode \in StreamModes /\ PutOut(x, left_data)
    BY <1>5 DEF StreamTail
  <2>2. ASSUME Safe, NEW m \in 0..(left_data - 1)
        PROVE  x[m] = Cipher(call, blocks)[m]
    <3>1. Cipher(call, blocks) = XorBlock(E(buf), Plain(call, blocks))
      BY <1>1, <1>3, <2>1, <2>2, Modewise
    <3>2. m \in Positions
      BY <1>1 DEF Positions
    <3> QED
      BY <1>2, <3>1, <3>2 DEF XorBlock
  <2> HIDE DEF x
  <2>3. OutLen = call.data_len /\ OutLen <= Capacity
    BY <2>1, Lengths DEF OutLen
  <2>4. blocks * BLOCK_SIZE + left_data = OutLen
    BY <1>1, <2>3, Lengths, BlockSizes
  <2> QED
    BY <1>1, <2>1, <2>2, <2>3, <2>4
<1> QED
  BY <1>4, <1>5

LEMMA LastBlockKeeps == ASSUME ModesIInv, LastBlock PROVE ModesIInv'
<1>1. /\ call \in Calls /\ AtBlocks /\ blocks = full_blocks /\ step' = "exit"
      /\ UNCHANGED <<call, status, schedule, buf, blocks>>
      /\ output = [n \in 0..(Capacity - 1) |-> output[n]]
      /\ IF left_data = 0 THEN UNCHANGED <<output, beyond>> ELSE PaddedTail \/ StreamTail
  BY DEF ModesIInv, LastBlock
<1>2. /\ (output = [n \in 0..(Capacity - 1) |-> output[n]])'
      /\ \A m \in 0..(Capacity - 1) : m >= OutLen => output'[m] = FirstOut(call)[m]
      /\ Safe => \A n \in 0..(OutLen - 1) :
                   output'[n] = Cipher(call, n \div BLOCK_SIZE)[n % BLOCK_SIZE]
  <2>1. CASE left_data = 0
    <3>1. blocks * BLOCK_SIZE = OutLen
      BY <1>1, <2>1, Lengths, BlockSizes DEF OutLen
    <3> QED
      BY <1>1, <2>1, <3>1 DEF AtBlocks, Untouched_from, Standard
  <2>2. CASE left_data # 0
    <3>1. PICK x : \E len \in 1..BLOCK_SIZE :
             /\ PutOut(x, len) /\ blocks * BLOCK_SIZE + len = OutLen /\ OutLen <= Capacity
             /\ Safe => \A m \in 0..(len - 1) : x[m] = Cipher(call, blocks)[m]
      BY <1>1, <2>2, LastBlockPuts
    <3>2. PICK len \in 1..BLOCK_SIZE :
             /\ PutOut(x, len) /\ blocks * BLOCK_SIZE + len = OutLen /\ OutLen <= Capacity
             /\ Safe => \A m \in 0..(len - 1) : x[m] = Cipher(call, blocks)[m]
      BY <3>1
    <3>3. blocks \in Nat
      BY <1>1, Lengths
    <3>4. /\ (output = [n \in 0..(Capacity - 1) |-> output[n]])'
          /\ Untouched_from(blocks * BLOCK_SIZE) =>
               \A m \in 0..(Capacity - 1) :
                 m >= blocks * BLOCK_SIZE + len => output'[m] = FirstOut(call)[m]
          /\ Standard(blocks * BLOCK_SIZE)
               /\ (\A m \in 0..(len - 1) : x[m] = Cipher(call, blocks)[m])
             => \A n \in 0..((blocks * BLOCK_SIZE + len) - 1) :
                  output'[n] = Cipher(call, n \div BLOCK_SIZE)[n % BLOCK_SIZE]
      BY <1>1, <3>2, <3>3, PutKeeps
    <3> DEFINE end == blocks * BLOCK_SIZE + len
    <3>5. end = OutLen
      BY <3>2
    <3>6. Untouched_from(blocks * BLOCK_SIZE) /\ (Safe => Standard(blocks * BLOCK_SIZE))
      BY <1>1 DEF AtBlocks
    <3> HIDE DEF end
    <3>7. \A m \in 0..(Capacity - 1) : m >= end => output'[m] = FirstOut(call)[m]
      BY <3>4, <3>6, Zenon DEF end
    <3>8. Safe => \A n \in 0..(end - 1) :
                    output'[n] = Cipher(call, n \div BLOCK_SIZE)[n % BLOCK_SIZE]
      <4> SUFFICES ASSUME Safe, NEW n \in 0..(end - 1)
                   PROVE  output'[n] = Cipher(call, n \div BLOCK_SIZE)[n % BLOCK_SIZE]
        OBVIOUS
      <4>1. Standard(blocks * BLOCK_SIZE) /\ \A m \in 0..(len - 1) : x[m] = Cipher(call, blocks)[m]
        BY <3>2, <3>6
      <4>2. \A y \in 0..(end - 1) :
               output'[y] = Cipher(call, y \div BLOCK_SIZE)[y % BLOCK_SIZE]
        BY <3>4, <4>1, Zenon DEF end
      <4> QED
        BY <4>2, Zenon
    <3> QED
      BY <3>4, <3>5, <3>7, <3>8
  <2> QED
    BY <2>1, <2>2
<1>3. FirstOut(call)' = FirstOut(call) /\ OutLen' = OutLen /\ Safe' = Safe
  BY <1>1 DEF FirstOut, OutLen, Safe, SafeInPlace, full_blocks, left_data
<1>4. Untouched_from(OutLen)'
  BY <1>2, <1>3 DEF Untouched_from
<1>5. Safe => Standard(OutLen)'
  BY <1>1, <1>2, <1>3 DEF Standard
<1>6. Ended'
  BY <1>1, <1>3, <1>4, <1>5 DEF AtBlocks, Ended
<1>7. PadBehind' /\ UnsetForOthers'
  <2>1. beyond = call.beyond /\ status = "OK" /\ step = "blocks" /\ UnsetForOthers
    BY <1>1 DEF ModesIInv, AtBlocks, LastBlock
  <2>2. beyond' # beyond => call.mode \in {"ECB", "CBC"} /\ left_data # 0
    BY <1>1 DEF PaddedTail, StreamTail
  <2>3. left_data' = left_data
    BY <1>1 DEF left_data
  <2>. QED
    BY <1>1, <2>1, <2>2, <2>3 DEF PadBehind, UnsetForOthers
<1> QED
  BY <1>1, <1>2, <1>6, <1>7 DEF ModesIInv

(***************************************************************************)
(* The loop over the blocks keeps its invariant, for any block cipher and  *)
(* any call.                                                               *)
(***************************************************************************)
THEOREM ModesInvariance == ModesSpec => []ModesIInv
<1>1. ASSUME ModesIInv, [ModesNext]_modesVars PROVE ModesIInv'
  <2>1. CASE UNCHANGED modesVars
    BY <1>1, <2>1 DEF modesVars, ModesIInv, AtBlocks, Ended, Untouched_from, Standard, FirstOut,
       Safe, SafeInPlace, FedTo, OutLen, full_blocks, left_data, PadBehind, UnsetForOthers
  <2> QED
    BY <1>1, <2>1, key_initKeeps, key_expandKeeps, FullBlockKeeps, LastBlockKeeps, key_freeKeeps
       DEF ModesNext
<1> QED
  BY <1>1, InitModesIInv, PTL DEF ModesSpec

(***************************************************************************)
(* A call that ends well has put out what the standard defines for its     *)
(* mode: the chaining, the carry of the counter and the padding of the     *)
(* tail, for data of any length. In place it does so for ECB and CBC, and  *)
(* for the others unless a full block was overwritten before it was read.  *)
(***************************************************************************)
THEOREM ModeCorrect == ModesSpec => []ModeIsStandard
<1>1. ModesIInv => ModeIsStandard
  BY DEF ModesIInv, Ended, Safe, Standard, ModeIsStandard
<1> QED
  BY <1>1, ModesInvariance, PTL

(***************************************************************************)
(* A byte of the output changes only in a supported mode, when no          *)
(* allocation failed, and in front of the end of the last block; the byte  *)
(* that the padding loops write behind buf changes only in their modes and *)
(* for data that end within a block.                                       *)
(***************************************************************************)
THEOREM OutputKept == ModesSpec => []OnlyOutputIsWritten
<1>1. ModesIInv => OnlyOutputIsWritten
  <2> SUFFICES ASSUME ModesIInv, NEW n \in DOMAIN output, output[n] # FirstOut(call)[n]
               PROVE  status = "OK" /\ call.mode \in Modes /\ n < OutLen
    BY DEF OnlyOutputIsWritten, ModesIInv, PadBehind
  <2>1. n \in 0..(Capacity - 1) /\ n \in Nat /\ output # FirstOut(call) /\ call \in Calls
    BY BlockSizes DEF ModesIInv
  <2>2. /\ full_blocks \in Nat /\ BLOCK_SIZE * full_blocks \in Nat /\ OutLen \in Nat
        /\ BLOCK_SIZE * full_blocks <= OutLen
    <3>1. /\ (full_blocks + 1) * BLOCK_SIZE = BLOCK_SIZE * full_blocks + BLOCK_SIZE
          /\ BLOCK_SIZE * full_blocks \in Nat
      BY <2>1, Lengths, BlockSizes
    <3>2. /\ call.data_len \in Nat /\ call.data_len = BLOCK_SIZE * full_blocks + left_data
          /\ left_data \in Nat /\ full_blocks \in Nat
      BY <2>1, Lengths, CallTypes
    <3> QED
      BY <3>1, <3>2, BlockSizes DEF OutLen
  <2>3. CASE step = "blocks"
    <3>1. AtBlocks
      BY <2>3 DEF ModesIInv
    <3>2. blocks \in Nat /\ blocks <= full_blocks
      BY <2>2, <3>1 DEF AtBlocks
    <3>3. blocks * BLOCK_SIZE \in Nat /\ blocks * BLOCK_SIZE <= BLOCK_SIZE * full_blocks
      <4>1. blocks < full_blocks => BLOCK_SIZE * blocks + BLOCK_SIZE <= BLOCK_SIZE * full_blocks
        BY <2>2, <3>2, BlockSizes, MultiplesApart
      <4> QED
        BY <2>2, <3>2, <4>1, BlockSizes
    <3>4. ~(n >= blocks * BLOCK_SIZE)
      BY <2>1, <3>1 DEF AtBlocks, Untouched_from
    <3> QED
      BY <2>1, <2>2, <3>1, <3>3, <3>4 DEF AtBlocks
  <2>4. CASE step \in {"exit", "done", "undefined"}
    BY <2>1, <2>2, <2>4 DEF ModesIInv, Ended, Untouched_from
  <2> QED
    BY <2>1, <2>3, <2>4 DEF ModesIInv
<1> QED
  BY <1>1, ModesInvariance, PTL

(***************************************************************************)
(* The schedule is there while blocks are encrypted and freed when the     *)
(* call is done, on every path; what was never set is freed only for a     *)
(* type that is not supported.                                             *)
(***************************************************************************)
THEOREM ScheduleFreed == ModesSpec => []ScheduleIsFreed
<1>1. ModesIInv => ScheduleIsFreed
  BY DEF ModesIInv, AtBlocks, ScheduleIsFreed, UnsetForOthers
<1> QED
  BY <1>1, ModesInvariance, PTL

-----------------------------------------------------------------------------
(***************************************************************************)
(* The constants, the bytes and the sums that index s.                     *)
(***************************************************************************)
LEMMA Rounds == ROUNDS \in Nat \ {0} /\ 0 \in Bytes
BY Rc4Assumption DEF Bytes

LEMMA XorType == \A a, b \in Bytes : BitXor(a, b) \in Bytes
BY Rc4Assumption

LEMMA MessageTypes ==
  \A m \in Messages :
    /\ m.key \in Seq(Bytes) \ {<< >>} /\ m.data \in Seq(Bytes) /\ m.skip \in Nat
BY Rc4Assumption

LEMMA Reduced ==
  \A a, b, c \in Bytes :
    /\ (a + 1) % ROUNDS \in Bytes
    /\ (a + b) % ROUNDS \in Bytes
    /\ (a + b + c) % ROUNDS \in Bytes
<1>1. \A n \in Nat : n % ROUNDS \in Bytes
  BY Rounds DEF Bytes
<1>2. \A a, b, c \in Bytes : a + 1 \in Nat /\ a + b \in Nat /\ a + b + c \in Nat
  BY Rounds DEF Bytes
<1>. QED
  BY <1>1, <1>2

LEMMA RemainderOfLength ==
  ASSUME NEW key \in Seq(Bytes) \ {<< >>}, NEW n \in Nat
  PROVE  key[(n % Len(key)) + 1] \in Bytes
<1>1. Len(key) \in Nat \ {0}
  OBVIOUS
<1>2. n % Len(key) \in 0..(Len(key) - 1)
  BY <1>1
<1>. QED
  BY <1>1, <1>2

-----------------------------------------------------------------------------
(***************************************************************************)
(* A swap keeps the values of a function, with the two places equal or     *)
(* not.                                                                    *)
(***************************************************************************)
Covers(f) == {f[a] : a \in Bytes} = Bytes

LEMMA SwapKeepsType ==
  ASSUME NEW f \in [Bytes -> Bytes], NEW a \in Bytes, NEW b \in Bytes
  PROVE  Swapped(f, a, b) \in [Bytes -> Bytes]
BY DEF Swapped

LEMMA SwapKeepsRange ==
  ASSUME NEW f \in [Bytes -> Bytes], NEW a \in Bytes, NEW b \in Bytes,
         Covers(f)
  PROVE  Covers(Swapped(f, a, b))
<1> DEFINE g == Swapped(f, a, b)
<1>1. \A x \in Bytes : g[x] = IF x = b THEN f[a] ELSE IF x = a THEN f[b] ELSE f[x]
  BY DEF Swapped
<1>2. \A x \in Bytes : g[x] \in Bytes
  BY <1>1
<1>3. ASSUME NEW y \in Bytes PROVE \E x \in Bytes : g[x] = y
  <2>1. PICK z \in Bytes : f[z] = y
    BY DEF Covers
  <2>2. CASE z = a
    BY <1>1, <2>1, <2>2
  <2>3. CASE z = b
    <3>1. g[a] = f[b]
      BY <1>1
    <3>. QED
      BY <2>1, <2>3, <3>1
  <2>4. CASE z # a /\ z # b
    BY <1>1, <2>1, <2>4
  <2>. QED
    BY <2>2, <2>3, <2>4
<1> HIDE DEF g
<1>. QED
  BY SMTT(30), <1>2, <1>3 DEF g, Covers

LEMMA IdentityIsPermutation ==
  /\ Identity \in [Bytes -> Bytes]
  /\ Covers(Identity)
BY DEF Identity, Covers

-----------------------------------------------------------------------------
(***************************************************************************)
(* The invariant: the type, and s as a permutation.  The type is needed    *)
(* because a swap keeps the values only when both places are places of s.  *)
(***************************************************************************)
PermIInv == Rc4TypeOK /\ Covers(s)

LEMMA InitPermIInv == Rc4Init => PermIInv
<1> SUFFICES ASSUME Rc4Init PROVE PermIInv
  OBVIOUS
<1>1. message.data \in Seq(Bytes) /\ message.skip \in Nat
  BY MessageTypes DEF Rc4Init
<1>2. Len(message.data) \in Nat
  BY <1>1
<1>. QED
  BY <1>1, <1>2, Rounds, IdentityIsPermutation DEF Rc4Init, PermIInv, Rc4TypeOK

LEMMA KsaRoundKeeps ==
  ASSUME PermIInv, KsaRound
  PROVE  PermIInv'
<1> DEFINE jj == (j + s[i] + message.key[(i % Len(message.key)) + 1]) % ROUNDS
<1>1. i \in Bytes /\ i \in Nat /\ i + 1 \in 0..ROUNDS /\ 0 \in Bytes
  BY Rounds DEF PermIInv, Rc4TypeOK, KsaRound, Bytes
<1>2. message.key \in Seq(Bytes) \ {<< >>}
  BY MessageTypes DEF PermIInv, Rc4TypeOK
<1>3. message.key[(i % Len(message.key)) + 1] \in Bytes
  BY <1>1, <1>2, RemainderOfLength
<1>4. s[i] \in Bytes /\ j \in Bytes
  BY <1>1 DEF PermIInv, Rc4TypeOK
<1>5. jj \in Bytes
  BY <1>3, <1>4, Reduced
<1>6. s' = Swapped(s, i, jj) /\ i' = i + 1 /\ j' \in {0, jj}
      /\ UNCHANGED <<message, pass, k, skip, data, out, done>>
  BY DEF KsaRound
<1> HIDE DEF jj
<1>7. s' \in [Bytes -> Bytes] /\ Covers(s')
  BY <1>1, <1>5, <1>6, SwapKeepsType, SwapKeepsRange DEF PermIInv, Rc4TypeOK
<1>8. j' \in Bytes
  BY <1>1, <1>5, <1>6
<1>9. UNCHANGED <<message, pass, k, skip, data, out, done>>
  BY <1>6
<1>. QED
  BY <1>1, <1>6, <1>7, <1>8, <1>9 DEF PermIInv, Rc4TypeOK

(* The generator's own step, in a skipped byte and in a written one. *)
LEMMA StirKeeps ==
  ASSUME PermIInv, Stir
  PROVE  /\ s' \in [Bytes -> Bytes] /\ Covers(s')
         /\ k' \in Bytes /\ j' \in Bytes
<1> DEFINE kk == (k + 1) % ROUNDS
           jj == (j + s[kk]) % ROUNDS
<1>1. kk \in Bytes
  BY Reduced DEF PermIInv, Rc4TypeOK
<1>2. jj \in Bytes
  <2>1. j \in Bytes /\ s[kk] \in Bytes
    BY <1>1 DEF PermIInv, Rc4TypeOK
  <2>. QED
    BY <2>1, Reduced
<1>3. k' = kk /\ j' = jj /\ s' = Swapped(s, kk, jj)
  BY DEF Stir
<1> HIDE DEF kk, jj
<1>. QED
  BY <1>1, <1>2, <1>3, SwapKeepsType, SwapKeepsRange DEF PermIInv, Rc4TypeOK

LEMMA SkipKeeps ==
  ASSUME PermIInv, Skip
  PROVE  PermIInv'
<1>1. Stir /\ skip \in Nat /\ skip > 0 /\ skip' = skip - 1
      /\ UNCHANGED <<message, pass, i, data, out, done>>
  BY DEF PermIInv, Rc4TypeOK, Skip
<1>2. /\ s' \in [Bytes -> Bytes] /\ Covers(s')
      /\ k' \in Bytes /\ j' \in Bytes
  BY <1>1, StirKeeps
<1>3. skip' \in Nat
  BY <1>1
<1>. QED
  BY <1>1, <1>2, <1>3 DEF PermIInv, Rc4TypeOK

LEMMA OutByteKeeps ==
  ASSUME PermIInv, OutByte
  PROVE  PermIInv'
<1> DEFINE stream == s'[(s'[k'] + s'[j']) % ROUNDS]
           read   == IF message.in_place THEN out[done + 1] ELSE data[done + 1]
<1>1. Stir /\ done' = done + 1 /\ out' = [out EXCEPT ![done + 1] = BitXor(stream, read)]
      /\ UNCHANGED <<message, pass, i, skip, data>>
  BY DEF OutByte
<1>2. done + 1 \in 1..Len(out) /\ Len(out) = Len(data) /\ Len(data) \in Nat
  BY DEF PermIInv, Rc4TypeOK, OutByte
<1>3. /\ s' \in [Bytes -> Bytes] /\ Covers(s')
      /\ k' \in Bytes /\ j' \in Bytes
  BY <1>1, StirKeeps
<1>4. stream \in Bytes
  <2>1. s'[k'] \in Bytes /\ s'[j'] \in Bytes
    BY <1>3
  <2>. QED
    BY <1>3, <2>1, Reduced
<1>5. read \in Bytes
  BY <1>2 DEF PermIInv, Rc4TypeOK
<1> HIDE DEF stream, read
<1>6. BitXor(stream, read) \in Bytes
  BY <1>4, <1>5, XorType
<1>7. out' \in Seq(Bytes) /\ Len(out') = Len(out)
  BY <1>1, <1>2, <1>6 DEF PermIInv, Rc4TypeOK
<1>8. done' \in 0..Len(data)
  BY <1>1, <1>2
<1>. QED
  BY <1>1, <1>2, <1>3, <1>7, <1>8 DEF PermIInv, Rc4TypeOK

LEMMA AgainKeeps ==
  ASSUME PermIInv, Again
  PROVE  PermIInv'
<1>1. message.skip \in Nat /\ Len(out) \in Nat
  BY MessageTypes DEF PermIInv, Rc4TypeOK
<1>. QED
  BY <1>1, Rounds, IdentityIsPermutation DEF PermIInv, Rc4TypeOK, Again

(***************************************************************************)
(* The bytes keep their types and s covers all bytes, in every state of a  *)
(* call: the part of the invariant that needs nothing but the single step. *)
(***************************************************************************)
THEOREM PermInvariance == Rc4Spec => []PermIInv
<1>1. ASSUME PermIInv, [Rc4Next]_rc4Vars PROVE PermIInv'
  <2>1. CASE KsaRound
    BY <1>1, <2>1, KsaRoundKeeps
  <2>2. CASE Skip
    BY <1>1, <2>2, SkipKeeps
  <2>3. CASE OutByte
    BY <1>1, <2>3, OutByteKeeps
  <2>4. CASE Again
    BY <1>1, <2>4, AgainKeeps
  <2>5. CASE UNCHANGED rc4Vars
    BY <1>1, <2>5 DEF rc4Vars, PermIInv, Rc4TypeOK
  <2>. QED
    BY <1>1, <2>1, <2>2, <2>3, <2>4, <2>5 DEF Rc4Next
<1>. QED
  BY <1>1, InitPermIInv, PTL DEF Rc4Spec

(***************************************************************************)
(* Indices and bytes keep their ranges: the key is read within its length, *)
(* s within ROUNDS, and the output is never longer than the data.          *)
(***************************************************************************)
THEOREM Rc4TypesCorrect == Rc4Spec => []Rc4TypeOK
BY PermInvariance, PTL DEF PermIInv

(***************************************************************************)
(* The table of ksa and rc4 is a permutation after every round of either,  *)
(* whatever the key and however many bytes were skipped.                   *)
(***************************************************************************)
THEOREM Permutation == Rc4Spec => []SIsPermutation
<1>1. PermIInv => SIsPermutation
  BY DEF PermIInv, Covers, SIsPermutation
<1>. QED
  BY <1>1, PermInvariance, PTL

-----------------------------------------------------------------------------
(***************************************************************************)
(* The states that a key takes the generator through: ROUNDS of the key    *)
(* schedule, then one for every byte of the stream, skipped or not.        *)
(***************************************************************************)
States == [s : [Bytes -> Bytes], k : Bytes, j : Bytes]

Start == [s |-> Identity, k |-> 0, j |-> 0]

KsaIndex(key, n, st) == (st.j + st.s[n] + key[(n % Len(key)) + 1]) % ROUNDS

KsaMove(key, n, st) ==
  [s |-> Swapped(st.s, n, KsaIndex(key, n, st)),
   k |-> st.k,
   j |-> IF n + 1 = ROUNDS THEN 0 ELSE KsaIndex(key, n, st)]

StirK(st) == (st.k + 1) % ROUNDS
StirJ(st) == (st.j + st.s[StirK(st)]) % ROUNDS

StirMove(st) == [s |-> Swapped(st.s, StirK(st), StirJ(st)), k |-> StirK(st), j |-> StirJ(st)]

Move(key, n, st) == IF n < ROUNDS THEN KsaMove(key, n, st) ELSE StirMove(st)

Moves(key) == [pair \in Nat \X States |-> Move(key, pair[1], pair[2])]

Generator(key) == CHOOSE f : IsRecursive(f, States, Start, Moves(key))

Keys == Seq(Bytes) \ {<< >>}

LEMMA MoveType ==
  ASSUME NEW key \in Keys, NEW n \in Nat, NEW st \in States
  PROVE  Move(key, n, st) \in States
<1>1. st.s \in [Bytes -> Bytes] /\ st.k \in Bytes /\ st.j \in Bytes
  BY DEF States
<1>2. CASE n < ROUNDS
  <2>1. n \in Bytes
    BY <1>2, Rounds DEF Bytes
  <2>2. key[(n % Len(key)) + 1] \in Bytes /\ st.s[n] \in Bytes
    BY <1>1, <2>1, RemainderOfLength DEF Keys
  <2>3. KsaIndex(key, n, st) \in Bytes
    BY <1>1, <2>2, Reduced DEF KsaIndex
  <2>4. Swapped(st.s, n, KsaIndex(key, n, st)) \in [Bytes -> Bytes]
    BY <1>1, <2>1, <2>3, SwapKeepsType
  <2> QED
    BY <1>1, <1>2, <2>3, <2>4, Rounds DEF Move, KsaMove, States
<1>3. CASE ~(n < ROUNDS)
  <2>1. StirK(st) \in Bytes
    BY <1>1, Reduced DEF StirK
  <2>2. StirJ(st) \in Bytes
    <3>1. st.s[StirK(st)] \in Bytes
      BY <1>1, <2>1
    <3> QED
      BY <1>1, <3>1, Reduced DEF StirJ
  <2>3. Swapped(st.s, StirK(st), StirJ(st)) \in [Bytes -> Bytes]
    BY <1>1, <2>1, <2>2, SwapKeepsType
  <2> QED
    BY <1>3, <2>1, <2>2, <2>3 DEF Move, StirMove, States
<1> QED
  BY <1>2, <1>3

LEMMA GeneratorMoves ==
  ASSUME NEW key \in Keys
  PROVE  /\ Generator(key)[0] = Start
         /\ \A n \in Nat : /\ Generator(key)[n] \in States
                           /\ Generator(key)[n + 1] = Move(key, n, Generator(key)[n])
<1>1. IsStep(Moves(key), States)
  BY MoveType DEF IsStep, Moves
<1>2. Start \in States
  BY Rounds, IdentityIsPermutation DEF Start, States
<1>3. IsRecursive(Generator(key), States, Start, Moves(key))
  BY <1>1, <1>2, Recursion DEF Generator
<1>4. /\ Generator(key) \in [Nat -> States] /\ Generator(key)[0] = Start
      /\ \A n \in Nat : Generator(key)[n + 1] = Moves(key)[<<n, Generator(key)[n]>>]
  BY <1>3 DEF IsRecursive
<1>5. \A n \in Nat, st \in States : Moves(key)[<<n, st>>] = Move(key, n, st)
  BY DEF Moves
<1> HIDE DEF Generator, Moves
<1> QED
  BY <1>4, <1>5

\* The byte of the stream that a state gives.
StreamByte(st) == st.s[(st.s[st.k] + st.s[st.j]) % ROUNDS]

LEMMA StreamByteType == \A st \in States : StreamByte(st) \in Bytes
<1> SUFFICES ASSUME NEW st \in States PROVE StreamByte(st) \in Bytes
  OBVIOUS
<1>1. st.s \in [Bytes -> Bytes] /\ st.s[st.k] \in Bytes /\ st.s[st.j] \in Bytes
  BY DEF States
<1>2. (st.s[st.k] + st.s[st.j]) % ROUNDS \in Bytes
  BY <1>1, Reduced
<1> QED
  BY <1>1, <1>2 DEF StreamByte

\* The byte of the stream that byte n of a message is added to.
StreamAt(msg, n) == StreamByte(Generator(msg.key)[ROUNDS + msg.skip + n])

LEMMA StreamAtType == \A msg \in Messages, n \in Nat : StreamAt(msg, n) \in Bytes
<1> SUFFICES ASSUME NEW msg \in Messages, NEW n \in Nat PROVE StreamAt(msg, n) \in Bytes
  OBVIOUS
<1>1. msg.key \in Keys /\ ROUNDS + msg.skip + n \in Nat
  BY MessageTypes, Rounds DEF Keys
<1> QED
  BY <1>1, GeneratorMoves, StreamByteType DEF StreamAt

-----------------------------------------------------------------------------
(***************************************************************************)
(* The generator is at the state of the number of its moves, and what is   *)
(* out is the data under the stream, whether it is in place or not.        *)
(***************************************************************************)
Position == i + (message.skip - skip) + done

GeneratorIsThere ==
  /\ skip <= message.skip
  /\ i < ROUNDS => skip = message.skip
  /\ i < ROUNDS \/ skip > 0 => done = 0
  /\ [s |-> s, k |-> k, j |-> j] = Generator(message.key)[Position]

DataIsStream ==
  /\ Len(data) = Len(message.data)
  /\ \A n \in 1..Len(data) :
       data[n] = IF pass = 1 THEN message.data[n]
                 ELSE BitXor(StreamAt(message, n), message.data[n])
  /\ \A n \in 1..Len(data) :
       out[n] = IF n <= done THEN BitXor(StreamAt(message, n), data[n]) ELSE data[n]

Rc4IInv == PermIInv /\ GeneratorIsThere /\ DataIsStream

LEMMA InitRc4IInv == Rc4Init => Rc4IInv
<1> SUFFICES ASSUME Rc4Init PROVE Rc4IInv
  OBVIOUS
<1>1. message \in Messages /\ message.skip \in Nat /\ message.key \in Keys
  BY MessageTypes DEF Rc4Init, Keys
<1>2. Position = 0
  BY <1>1 DEF Rc4Init, Position
<1>3. GeneratorIsThere
  BY <1>1, <1>2, GeneratorMoves DEF Rc4Init, GeneratorIsThere, Start
<1>4. DataIsStream
  BY DEF Rc4Init, DataIsStream
<1> QED
  BY <1>3, <1>4, InitPermIInv DEF Rc4IInv

LEMMA PositionType ==
  ASSUME Rc4IInv
  PROVE  /\ message.key \in Keys /\ Position \in Nat
         /\ [s |-> s, k |-> k, j |-> j] \in States
         /\ Generator(message.key)[Position + 1] =
              Move(message.key, Position, [s |-> s, k |-> k, j |-> j])
<1>1. /\ message.key \in Keys /\ message.skip \in Nat /\ skip \in Nat /\ skip <= message.skip
      /\ i \in Nat /\ done \in Nat
  BY MessageTypes, Rounds DEF Rc4IInv, PermIInv, Rc4TypeOK, GeneratorIsThere, Keys
<1>2. Position \in Nat
  BY <1>1 DEF Position
<1> QED
  BY <1>1, <1>2, GeneratorMoves DEF Rc4IInv, GeneratorIsThere

LEMMA KsaRoundGoesOn == ASSUME Rc4IInv, KsaRound, PermIInv' PROVE Rc4IInv'
<1> DEFINE st == [s |-> s, k |-> k, j |-> j]
           jj == KsaIndex(message.key, i, st)
<1>1. /\ i < ROUNDS /\ s' = Swapped(s, i, jj) /\ i' = i + 1
      /\ j' = IF i' = ROUNDS THEN 0 ELSE jj
      /\ UNCHANGED <<message, pass, k, skip, data, out, done>>
  BY DEF KsaRound, KsaIndex
<1>2. /\ message.skip \in Nat /\ i \in Nat /\ skip = message.skip /\ done = 0
  BY <1>1, MessageTypes, Rounds DEF Rc4IInv, PermIInv, Rc4TypeOK, GeneratorIsThere
<1>3. Position = i /\ Position' = i + 1
  BY <1>1, <1>2 DEF Position
<1>4. Generator(message.key)[i + 1] = Move(message.key, i, st)
  BY <1>3, PositionType
<1>5. Move(message.key, i, st) = [s |-> s', k |-> k', j |-> j']
  BY <1>1 DEF Move, KsaMove
<1>6. GeneratorIsThere'
  BY <1>1, <1>2, <1>3, <1>4, <1>5 DEF GeneratorIsThere
<1>7. DataIsStream'
  BY <1>1 DEF Rc4IInv, DataIsStream
<1> QED
  BY <1>6, <1>7 DEF Rc4IInv

LEMMA StirGoesOn ==
  ASSUME Rc4IInv, i = ROUNDS, Stir, UNCHANGED message
  PROVE  /\ [s |-> s', k |-> k', j |-> j'] = Generator(message.key)[Position + 1]
         /\ [s |-> s', k |-> k', j |-> j'] \in States
<1> DEFINE st == [s |-> s, k |-> k, j |-> j]
<1>1. st.s = s /\ st.k = k /\ st.j = j
  OBVIOUS
<1>2. k' = StirK(st) /\ j' = StirJ(st) /\ s' = Swapped(st.s, StirK(st), StirJ(st))
  BY <1>1 DEF Stir, StirK, StirJ
<1>3. ~(Position < ROUNDS)
  BY MessageTypes, Rounds DEF Position, Rc4IInv, PermIInv, Rc4TypeOK, GeneratorIsThere
<1>4. Generator(message.key)[Position + 1] = Move(message.key, Position, st) /\ st \in States
      /\ message.key \in Keys /\ Position \in Nat
  BY PositionType
<1> HIDE DEF st
<1>5. Move(message.key, Position, st) = [s |-> s', k |-> k', j |-> j']
  BY <1>2, <1>3 DEF Move, StirMove
<1>6. Move(message.key, Position, st) \in States
  BY <1>4, MoveType
<1> QED
  BY <1>4, <1>5, <1>6

LEMMA SkipGoesOn == ASSUME Rc4IInv, Skip, PermIInv' PROVE Rc4IInv'
<1>1. /\ i = ROUNDS /\ skip > 0 /\ Stir /\ skip' = skip - 1
      /\ UNCHANGED <<message, pass, i, data, out, done>>
  BY DEF Skip
<1>2. /\ message.skip \in Nat /\ skip \in Nat /\ skip <= message.skip /\ i \in Nat
      /\ done = 0 /\ ROUNDS \in Nat
  BY <1>1, MessageTypes, Rounds DEF Rc4IInv, PermIInv, Rc4TypeOK, GeneratorIsThere
<1>3. Position' = Position + 1
  BY <1>1, <1>2 DEF Position
<1>4. GeneratorIsThere'
  BY <1>1, <1>2, <1>3, StirGoesOn DEF GeneratorIsThere
<1>5. DataIsStream'
  BY <1>1 DEF Rc4IInv, DataIsStream
<1> QED
  BY <1>4, <1>5 DEF Rc4IInv

LEMMA OutByteGoesOn == ASSUME Rc4IInv, OutByte, PermIInv' PROVE Rc4IInv'
<1> DEFINE st == [s |-> s', k |-> k', j |-> j']
           here == done + 1
           read == IF message.in_place THEN out[here] ELSE data[here]
<1>1. /\ i = ROUNDS /\ skip = 0 /\ done < Len(data) /\ Stir /\ done' = here
      /\ out' = [out EXCEPT ![here] = BitXor(s'[(s'[k'] + s'[j']) % ROUNDS], read)]
      /\ UNCHANGED <<message, pass, i, skip, data>>
  BY DEF OutByte
<1>2. /\ message \in Messages /\ message.skip \in Nat /\ i \in Nat /\ ROUNDS \in Nat
      /\ done \in Nat /\ out \in Seq(Bytes) /\ Len(out) = Len(data) /\ Len(data) \in Nat
  BY <1>1, MessageTypes, Rounds DEF Rc4IInv, PermIInv, Rc4TypeOK, GeneratorIsThere
<1>3. here \in Nat /\ here \in 1..Len(data) /\ here \in 1..Len(out)
  BY <1>1, <1>2
<1>4. Position + 1 = ROUNDS + message.skip + here /\ Position' = Position + 1
  <2>1. /\ i = ROUNDS /\ skip = 0 /\ done' = done + 1 /\ i' = i /\ skip' = skip
        /\ message' = message
    BY <1>1
  <2>2. Position = ROUNDS + message.skip + done
    BY <1>2, <2>1 DEF Position
  <2>3. Position' = ROUNDS + message.skip + (done + 1)
    BY <1>2, <2>1 DEF Position
  <2> QED
    BY SMTT(30), <1>2, <2>2, <2>3
<1>5. st = Generator(message.key)[Position + 1]
  BY <1>1, StirGoesOn
<1>6. s'[(s'[k'] + s'[j']) % ROUNDS] = StreamAt(message, here)
  <2>1. st.s = s' /\ st.k = k' /\ st.j = j'
    OBVIOUS
  <2> HIDE DEF st, here
  <2> QED
    BY <1>4, <1>5, <2>1 DEF StreamByte, StreamAt
<1>7. GeneratorIsThere'
  BY <1>1, <1>2, <1>4, <1>5 DEF GeneratorIsThere
<1>8. read = data[here]
  <2>1. ~(here <= done)
    BY <1>2
  <2> HIDE DEF here
  <2> QED
    BY <1>3, <2>1 DEF Rc4IInv, DataIsStream
<1> HIDE DEF read, st
<1>9. /\ Len(out') = Len(out)
      /\ \A n \in 1..Len(data) :
           out'[n] = IF n = here THEN BitXor(StreamAt(message, here), data[here]) ELSE out[n]
  <2>1. out' = [out EXCEPT ![here] = BitXor(StreamAt(message, here), data[here])]
    BY <1>1, <1>6, <1>8
  <2>2. DOMAIN out = 1..Len(data)
    BY <1>2
  <2> HIDE DEF here
  <2> QED
    BY <1>2, <1>3, <2>1, <2>2
<1>10. ASSUME NEW n \in 1..Len(data)
       PROVE  out'[n] = IF n <= done' THEN BitXor(StreamAt(message, n), data[n]) ELSE data[n]
  <2>1. n <= done' <=> n <= done \/ n = here
    BY <1>1, <1>2
  <2>2. n = here => ~(n <= done)
    BY <1>2
  <2> HIDE DEF here
  <2> QED
    BY <1>9, <2>1, <2>2 DEF Rc4IInv, DataIsStream
<1>11. DataIsStream'
  BY <1>1, <1>10 DEF Rc4IInv, DataIsStream
<1> QED
  BY <1>7, <1>11 DEF Rc4IInv

LEMMA AgainGoesOn == ASSUME Rc4IInv, Again, PermIInv' PROVE Rc4IInv'
<1>1. /\ pass = 1 /\ pass' = 2 /\ done = Len(data) /\ UNCHANGED <<message, out>>
      /\ s' = Identity /\ i' = 0 /\ j' = 0 /\ k' = 0 /\ skip' = message.skip
      /\ data' = out /\ done' = 0
  BY DEF Again, Finished
<1>2. /\ message.skip \in Nat /\ message.key \in Keys
      /\ Len(out) = Len(data) /\ Len(data) \in Nat
  BY MessageTypes DEF Rc4IInv, PermIInv, Rc4TypeOK, Keys
<1>3. Position' = 0
  BY <1>1, <1>2 DEF Position
<1>4. GeneratorIsThere'
  <2>1. [s |-> s', k |-> k', j |-> j'] = Generator(message.key)[0]
    BY <1>1, <1>2, GeneratorMoves DEF Start
  <2>2. Generator(message.key)' = Generator(message.key)
    BY <1>1
  <2> QED
    BY <1>1, <1>2, <1>3, <2>1, <2>2 DEF GeneratorIsThere
<1>5. ASSUME NEW n \in 1..Len(data)
      PROVE  /\ out[n] = BitXor(StreamAt(message, n), message.data[n])
             /\ ~(n <= done')
  BY <1>1, <1>2 DEF Rc4IInv, DataIsStream
<1>6. DataIsStream'
  BY <1>1, <1>2, <1>5 DEF Rc4IInv, DataIsStream
<1> QED
  BY <1>4, <1>6 DEF Rc4IInv

LEMMA NextRc4IInv == Rc4IInv /\ PermIInv' /\ [Rc4Next]_rc4Vars => Rc4IInv'
<1> SUFFICES ASSUME Rc4IInv, PermIInv', [Rc4Next]_rc4Vars PROVE Rc4IInv'
  OBVIOUS
<1>1. CASE UNCHANGED rc4Vars
  BY <1>1 DEF rc4Vars, Rc4IInv, GeneratorIsThere, Position, DataIsStream
<1> QED
  BY <1>1, KsaRoundGoesOn, SkipGoesOn, OutByteGoesOn, AgainGoesOn DEF Rc4Next

LEMMA StreamCancels == Rc4IInv => SecondPassDecrypts
<1> SUFFICES ASSUME Rc4IInv, pass = 2, NEW n \in 1..done
             PROVE  out[n] = message.data[n]
  BY DEF SecondPassDecrypts
<1>1. /\ message \in Messages /\ done \in Nat /\ done <= Len(data) /\ Len(data) = Len(message.data)
      /\ message.data \in Seq(Bytes)
  BY MessageTypes DEF Rc4IInv, PermIInv, Rc4TypeOK, DataIsStream
<1>2. n \in 1..Len(data) /\ n <= done /\ n \in Nat
  BY <1>1
<1>3. message.data[n] \in Bytes /\ StreamAt(message, n) \in Bytes
  BY <1>1, <1>2, StreamAtType
<1>4. out[n] = BitXor(StreamAt(message, n), BitXor(StreamAt(message, n), message.data[n]))
  BY <1>2 DEF Rc4IInv, DataIsStream
<1>5. \A a, b \in Bytes : BitXor(b, BitXor(b, a)) = a
  BY Rc4Assumption
<1> QED
  BY <1>3, <1>4, <1>5

(***************************************************************************)
(* rc4 over what it put out gives the data back, whatever the key, the     *)
(* data and the bytes skipped, in place or not: after each of its bytes    *)
(* the generator is where the key alone takes it, so that both passes add  *)
(* the same stream.                                                        *)
(***************************************************************************)
THEOREM SecondPass == Rc4Spec => []SecondPassDecrypts
<1>1. Rc4Init => Rc4IInv
  BY InitRc4IInv
<1> QED
  BY <1>1, PermInvariance, NextRc4IInv, StreamCancels, PTL DEF Rc4Spec

-----------------------------------------------------------------------------
(***************************************************************************)
(* Seeds as numbers, least significant byte first, modulo the number of    *)
(* seeds.                                                                  *)
(***************************************************************************)
SeedOf(x) == [p \in Places |-> Digit(UINT8, x, p)]

Cycle == Power(UINT8, BASE_SEED_SIZE)

LEMMA SeedSizes ==
  /\ BASE_SEED_SIZE \in Nat /\ BASE_SEED_SIZE >= 4 /\ UINT8 \in Nat \ {0}
  /\ Cycle \in Nat \ {0}
BY DrbgAssumption, PowerPositive DEF Cycle

LEMMA SeedOfType == \A x \in Nat : SeedOf(x) \in Seeds
<1> SUFFICES ASSUME NEW x \in Nat, NEW p \in Places
             PROVE  Digit(UINT8, x, p) \in Octets
  BY DEF SeedOf, Seeds
<1>1. p \in Nat
  BY SeedSizes DEF Places
<1> QED
  BY <1>1, SeedSizes, DigitType DEF Octets

LEMMA SeedsAreNumbers == \A f \in Seeds : \E x \in Nat : SeedOf(x) = f
<1> SUFFICES ASSUME NEW f \in Seeds PROVE \E x \in Nat : SeedOf(x) = f
  OBVIOUS
<1>1. f \in [0..(BASE_SEED_SIZE - 1) -> 0..(UINT8 - 1)]
  BY DEF Seeds, Places, Octets
<1>2. PICK x \in Nat : \A e \in 0..(BASE_SEED_SIZE - 1) : Digit(UINT8, x, e) = f[e]
  BY <1>1, SeedSizes, WithDigits
<1>3. SeedOf(x) = f
  BY <1>1, <1>2 DEF SeedOf, Places
<1> QED
  BY <1>3

LEMMA SeedsRepeat ==
  \A x, y \in Nat : SeedOf(x) = SeedOf(y) <=> x % Cycle = y % Cycle
<1> SUFFICES ASSUME NEW x \in Nat, NEW y \in Nat
             PROVE  SeedOf(x) = SeedOf(y) <=> x % Cycle = y % Cycle
  OBVIOUS
<1>1. x % Cycle = y % Cycle <=>
        \A e \in 0..(BASE_SEED_SIZE - 1) : Digit(UINT8, x, e) = Digit(UINT8, y, e)
  BY SeedSizes, SameDigits DEF Cycle
<1>2. SeedOf(x) = SeedOf(y) => \A p \in Places : Digit(UINT8, x, p) = Digit(UINT8, y, p)
  <2>1. \A p \in Places : SeedOf(x)[p] = Digit(UINT8, x, p) /\ SeedOf(y)[p] = Digit(UINT8, y, p)
    BY DEF SeedOf
  <2> QED
    BY <2>1
<1>3. (\A p \in Places : Digit(UINT8, x, p) = Digit(UINT8, y, p)) => SeedOf(x) = SeedOf(y)
  BY DEF SeedOf
<1> QED
  BY <1>1, <1>2, <1>3 DEF Places

\* When seeds in a row repeat, all have been there.
LEMMA RowIsAll ==
  ASSUME NEW a \in Nat, NEW c \in Nat, NEW n \in 0..(c - 1), SeedOf(a + c) = SeedOf(a + n)
  PROVE  {SeedOf(a + m) : m \in 0..(c - 1)} = Seeds
<1>1. c >= Cycle
  <2>1. (a + c) % Cycle = (a + n) % Cycle
    BY SeedsRepeat, a + c \in Nat, a + n \in Nat
  <2> SUFFICES ASSUME c < Cycle PROVE FALSE
    BY SeedSizes
  <2>2. /\ a \in Int /\ (a + 1) + (c - n) = (a + c) + 1 - n
        /\ c + 1 \in 1..Cycle /\ n + 1 \in 1..Cycle
    BY SeedSizes
  <2>3. PICK a1 \in Int : a1 = a - 1
    OBVIOUS
  <2>4. (a1 + (c + 1)) % Cycle = (a1 + (n + 1)) % Cycle
    BY <2>1, <2>3, a1 + (c + 1) = a + c, a1 + (n + 1) = a + n
  <2>5. c + 1 = n + 1
    BY <2>2, <2>4, SeedSizes, ModCancel
  <2> QED
    BY <2>5
<1>2. ASSUME NEW f \in Seeds
      PROVE  \E m \in 0..(c - 1) : f = SeedOf(a + m)
  <2>1. PICK x \in Nat : SeedOf(x) = f
    BY SeedsAreNumbers
  <2> DEFINE m == (x - a) % Cycle
  <2>2. m \in 0..(Cycle - 1)
    BY SeedSizes, DivMod, x - a \in Int
  <2>3. (a + m) % Cycle = x % Cycle
    <3>1. ((x - a) + a) % Cycle = (m + a) % Cycle
      BY SeedSizes, ModAdd, x - a \in Int, a \in Int
    <3> HIDE DEF m
    <3>2. (x - a) + a = x /\ m + a = a + m
      BY <2>2, SeedSizes
    <3> QED
      BY <3>1, <3>2
  <2> HIDE DEF m
  <2>4. m \in 0..(c - 1) /\ a + m \in Nat
    BY <1>1, <2>2, SeedSizes
  <2>5. SeedOf(a + m) = f
    BY <2>1, <2>3, <2>4, SeedsRepeat
  <2> QED
    BY <2>4, <2>5
<1>3. \A m \in 0..(c - 1) : SeedOf(a + m) \in Seeds
  BY SeedOfType, \A m \in 0..(c - 1) : a + m \in Nat
<1> QED
  BY <1>2, <1>3
-----------------------------------------------------------------------------
(***************************************************************************)
(* A seed on its way from x to x + 1: the bytes before place at wrapped.   *)
(***************************************************************************)
Partly(f, x, p) ==
  /\ AllLast(UINT8, x, p)
  /\ \A q \in Places : f[q] = IF q < p THEN 0 ELSE Digit(UINT8, x, q)

LEMMA NotYet ==
  ASSUME NEW x \in Nat
  PROVE  Partly(SeedOf(x), x, 0)
BY DEF Partly, SeedOf, AllLast, Places

\* A byte that wraps hands on to the next, and one that does not ends the increment.
LEMMA ByteMoves ==
  ASSUME NEW f \in Seeds, NEW x \in Nat, NEW p \in Places, Partly(f, x, p)
  PROVE  LET value == (f[p] + 1) % UINT8
             g     == [f EXCEPT ![p] = value]
         IN  /\ value = 0 => Partly(g, x, p + 1)
             /\ value # 0 => g = SeedOf(x + 1)
<1> DEFINE value == (f[p] + 1) % UINT8
           g == [f EXCEPT ![p] = value]
<1>1. /\ f[p] = Digit(UINT8, x, p) /\ p \in Nat /\ f[p] \in 0..(UINT8 - 1)
      /\ \A q \in Places : g[q] = IF q = p THEN value ELSE f[q]
  BY SeedSizes DEF Partly, Places, Seeds, Octets
<1>2. value = 0 <=> Digit(UINT8, x, p) = UINT8 - 1
  <2>1. f[p] = UINT8 - 1 => value = 0
    BY SeedSizes, <1>1
  <2>2. f[p] # UINT8 - 1 => value = f[p] + 1
    <3> SUFFICES ASSUME f[p] # UINT8 - 1 PROVE value = f[p] + 1
      OBVIOUS
    <3>1. f[p] + 1 \in 0..(UINT8 - 1)
      BY SeedSizes, <1>1
    <3> QED
      BY SeedSizes, <3>1, SmallMod
  <2> QED
    BY SeedSizes, <1>1, <2>1, <2>2
<1>3. ASSUME value = 0 PROVE Partly(g, x, p + 1)
  <2>1. AllLast(UINT8, x, p + 1)
    <3>1. \A e \in 0..((p + 1) - 1) : e \in 0..(p - 1) \/ e = p
      BY <1>1
    <3> QED
      BY <1>2, <1>3, <3>1 DEF Partly, AllLast
  <2>2. ASSUME NEW q \in Places
        PROVE  g[q] = IF q < p + 1 THEN 0 ELSE Digit(UINT8, x, q)
    <3>1. q \in Nat /\ (q < p + 1 <=> q < p \/ q = p)
      BY <1>1, SeedSizes DEF Places
    <3> HIDE DEF g, value
    <3>2. q # p => g[q] = IF q < p THEN 0 ELSE Digit(UINT8, x, q)
      BY <1>1 DEF Partly
    <3> QED
      BY <1>1, <1>3, <3>1, <3>2
  <2> HIDE DEF g
  <2> QED
    BY <2>1, <2>2 DEF Partly
<1>4. ASSUME value # 0 PROVE g = SeedOf(x + 1)
  <2>1. ASSUME NEW q \in Places
        PROVE  g[q] = Digit(UINT8, x + 1, q)
    <3>1. q \in Nat /\ UINT8 \in Nat \ {0}
      BY SeedSizes DEF Places
    <3>2. Digit(UINT8, x + 1, q) =
            IF AllLast(UINT8, x, q) THEN (Digit(UINT8, x, q) + 1) % UINT8 ELSE Digit(UINT8, x, q)
      BY <3>1, DigitOfSuccessor
    <3>3. CASE q = p
      BY <1>1, <3>2, <3>3 DEF Partly
    <3>4. CASE q < p
      <4>1. AllLast(UINT8, x, q) /\ Digit(UINT8, x, q) = UINT8 - 1
        BY <1>1, <3>1, <3>4, q \in 0..(p - 1), 0..(q - 1) \subseteq 0..(p - 1)
           DEF Partly, AllLast
      <4>2. ((UINT8 - 1) + 1) % UINT8 = 0
        BY SeedSizes
      <4>3. g[q] = 0
        BY <1>1, <3>1, <3>4 DEF Partly
      <4> QED
        BY <3>2, <4>1, <4>2, <4>3
    <3>5. CASE q > p
      <4>1. ~AllLast(UINT8, x, q)
        BY <1>1, <1>2, <1>4, <3>1, <3>5, p \in 0..(q - 1) DEF AllLast
      <4>2. g[q] = Digit(UINT8, x, q)
        BY <1>1, <3>1, <3>5 DEF Partly
      <4> QED
        BY <3>2, <4>1, <4>2
    <3> QED
      BY <1>1, <3>1, <3>3, <3>4, <3>5
  <2>2. g = [q \in Places |-> g[q]]
    BY DEF Seeds
  <2> HIDE DEF g
  <2> QED
    BY <2>1, <2>2 DEF SeedOf
<1> QED
  BY <1>3, <1>4

\* When the whole seed has wrapped it is the next one as well, all zero.
LEMMA AllMoved ==
  ASSUME NEW f \in Seeds, NEW x \in Nat, Partly(f, x, BASE_SEED_SIZE)
  PROVE  f = SeedOf(x + 1) /\ \A q \in Places : f[q] = 0
<1>1. ASSUME NEW q \in Places
      PROVE  f[q] = 0 /\ Digit(UINT8, x + 1, q) = 0
  <2>1. q \in Nat /\ q < BASE_SEED_SIZE /\ UINT8 \in Nat \ {0}
    BY SeedSizes DEF Places
  <2>2. AllLast(UINT8, x, q) /\ Digit(UINT8, x, q) = UINT8 - 1
    BY <2>1, SeedSizes, q \in 0..(BASE_SEED_SIZE - 1),
       0..(q - 1) \subseteq 0..(BASE_SEED_SIZE - 1) DEF Partly, AllLast
  <2>3. Digit(UINT8, x + 1, q) = ((UINT8 - 1) + 1) % UINT8
    BY <2>1, <2>2, DigitOfSuccessor
  <2>4. ((UINT8 - 1) + 1) % UINT8 = 0
    BY SeedSizes
  <2> QED
    BY <2>1, <2>3, <2>4 DEF Partly
<1>2. f = [q \in Places |-> f[q]]
  BY DEF Seeds
<1> QED
  BY <1>1, <1>2 DEF SeedOf

-----------------------------------------------------------------------------
(***************************************************************************)
(* srand fills the seed, whatever the first four bytes are: its bytes in   *)
(* pairs are made one from the other.                                      *)
(***************************************************************************)
IsFilled(f, first) ==
  f = [p \in Places |-> IF p < 4 THEN first[p] ELSE (f[p - 1] + f[p - 2]) % UINT8]

LEMMA Filled ==
  ASSUME NEW first \in [0..3 -> Octets]
  PROVE  \E f \in Seeds : IsFilled(f, first)
<1> DEFINE V == Octets \X Octets
           g == [arg \in Nat \X V |->
                   <<arg[2][2], IF arg[1] + 2 < 4 THEN first[arg[1] + 2]
                                ELSE (arg[2][2] + arg[2][1]) % UINT8>>]
           initial == <<first[0], first[1]>>
<1>1. \A x, y \in Octets : (y + x) % UINT8 \in Octets
  BY SeedSizes DEF Octets
<1>2. \A n \in Nat, x, y \in Octets :
        /\ <<y, IF n + 2 < 4 THEN first[n + 2] ELSE (y + x) % UINT8>> \in V
        /\ g[<<n, <<x, y>>>>] = <<y, IF n + 2 < 4 THEN first[n + 2] ELSE (y + x) % UINT8>>
  BY <1>1
<1>3. IsStep(g, V)
  BY <1>1 DEF IsStep
<1>4. initial \in V
  OBVIOUS
<1> HIDE DEF g
<1>5. PICK h : IsRecursive(h, V, initial, g)
  BY <1>3, <1>4, Recursion
<1>6. h \in [Nat -> V] /\ h[0] = initial /\ \A n \in Nat : h[n + 1] = g[<<n, h[n]>>]
  BY <1>5 DEF IsRecursive
<1> DEFINE A(n) == h[n][1]
           B(n) == h[n][2]
<1>7. \A n \in Nat : A(n) \in Octets /\ B(n) \in Octets /\ h[n] = <<A(n), B(n)>>
  BY <1>6
<1>8. ASSUME NEW n \in Nat
      PROVE  /\ A(n + 1) = B(n)
             /\ B(n + 1) = IF n + 2 < 4 THEN first[n + 2] ELSE (B(n) + A(n)) % UINT8
  <2>1. h[n + 1] = g[<<n, <<A(n), B(n)>>>>]
    BY <1>6, <1>7
  <2> HIDE DEF A, B
  <2>2. h[n + 1] = <<B(n), IF n + 2 < 4 THEN first[n + 2] ELSE (B(n) + A(n)) % UINT8>>
    BY <1>2, <1>7, <2>1
  <2> QED
    BY <2>2 DEF A, B
<1>9. A(0) = first[0] /\ B(0) = first[1]
  BY <1>6
<1> HIDE DEF A, B
<1> DEFINE f == [p \in Places |-> A(p)]
<1>10. f \in Seeds
  BY <1>7 DEF Seeds, Places
<1>11. ASSUME NEW p \in Places
       PROVE  f[p] = IF p < 4 THEN first[p] ELSE (f[p - 1] + f[p - 2]) % UINT8
  <2>1. CASE p = 0
    BY <1>9, <2>1
  <2>2. CASE p = 1
    BY <1>8, <1>9, <2>2, 0 \in Nat, 0 + 1 = 1
  <2>3. CASE p >= 2
    <3>1. PICK n \in Nat : p = n + 2
      BY <2>3, p = (p - 2) + 2 DEF Places
    <3>2. /\ A(p) = B(n + 1) /\ A(n + 1) = B(n) /\ n + 1 \in Nat /\ (n + 1) + 1 = p
      BY <1>8, <3>1
    <3>3. A(p) = IF p < 4 THEN first[p] ELSE (A(n + 1) + A(n)) % UINT8
      BY <1>8, <3>1, <3>2
    <3>4. /\ n \in Places /\ n + 1 \in Places /\ p - 1 = n + 1 /\ p - 2 = n
      BY <3>1, SeedSizes DEF Places
    <3>5. f[p] = A(p) /\ f[p - 1] = A(n + 1) /\ f[p - 2] = A(n)
      BY <3>4
    <3> QED
      BY <3>3, <3>5
  <2> QED
    BY <2>1, <2>2, <2>3 DEF Places
<1>12. f = [p \in Places |-> f[p]]
  OBVIOUS
<1> HIDE DEF f
<1> QED
  BY <1>10, <1>11, <1>12 DEF IsFilled

LEMMA srandFills ==
  ASSUME NEW first \in [0..3 -> Octets], srand(first)
  PROVE  seed' \in Seeds /\ Seeded
<1> DEFINE f == CHOOSE h : IsFilled(h, first)
<1>1. IsFilled(f, first)
  BY Filled, Zenon
<1>2. seed' = f /\ Seeded
  BY DEF srand, IsFilled
<1> HIDE DEF f
<1> DEFINE S == {n \in Nat : \A p \in Places : p <= n => f[p] \in Octets}
<1>3. \A p \in Places : f[p] = IF p < 4 THEN first[p] ELSE (f[p - 1] + f[p - 2]) % UINT8
  BY <1>1 DEF IsFilled
<1>4. \A p \in Places : p < 4 => f[p] \in Octets
  BY <1>3 DEF Places
<1>5. 0 \in S
  BY <1>4, SeedSizes DEF Places
<1>6. ASSUME NEW n \in Nat, n \in S
      PROVE  n + 1 \in S
  <2> SUFFICES ASSUME NEW p \in Places, p <= n + 1 PROVE f[p] \in Octets
    OBVIOUS
  <2>1. CASE p >= 4
    <3>1. p - 1 \in Places /\ p - 1 <= n /\ p - 2 \in Places /\ p - 2 <= n
      BY <2>1, SeedSizes DEF Places
    <3>2. f[p - 1] \in Octets /\ f[p - 2] \in Octets
      BY <1>6, <3>1
    <3>3. f[p] = (f[p - 1] + f[p - 2]) % UINT8
      BY <1>3, <2>1 DEF Places
    <3> QED
      BY <3>2, <3>3, SeedSizes DEF Octets
  <2> QED
    BY <1>4, <2>1 DEF Places
<1> HIDE DEF S
<1>7. \A n \in Nat : n \in S
  BY <1>5, <1>6, SetInduction
<1>8. \A p \in Places : f[p] \in Octets
  BY <1>7, \A p \in Places : p \in Nat /\ p <= p DEF S, Places
<1> QED
  BY <1>1, <1>2, <1>8 DEF IsFilled, Seeds

LEMMA srand_bytesFills ==
  ASSUME NEW seed_len \in 0..BASE_SEED_SIZE, NEW bytes \in [0..(seed_len - 1) -> Octets],
         srand_bytes(bytes, seed_len), seed \in Seeds
  PROVE  seed' \in Seeds /\ Seeded
<1> DEFINE missing == BASE_SEED_SIZE - seed_len
<1>1. missing % UINT8 \in Octets
  BY SeedSizes DEF Octets
<1>2. seed' = [p \in Places |->
                 IF p < missing THEN missing % UINT8
                 ELSE IF p < seed_len THEN bytes[p] ELSE seed[p]] /\ Seeded
  BY DEF srand_bytes
<1>3. \A p \in Places : p < seed_len => bytes[p] \in Octets
  BY DEF Places
<1> HIDE DEF missing
<1> QED
  BY <1>1, <1>2, <1>3 DEF Seeds

-----------------------------------------------------------------------------
(***************************************************************************)
(* The invariant: until two calls overlap, the seeds hashed are those of c *)
(* numbers in a row, and the seed is the next one or, while a thread       *)
(* increments it, on its way there.                                        *)
(***************************************************************************)
DrbgTypeOK ==
  /\ seed \in Seeds /\ behind \in Octets
  /\ at \in [Callers -> {Idle} \cup (0..BASE_SEED_SIZE)]
  /\ loaded \in [Callers -> {NoOct} \cup Octets]
  /\ overlapped \in BOOLEAN
  /\ \A t \in Callers : loaded[t] # NoOct => at[t] # Idle

Alone == \A t, u \in InRand : t = u

LoadedIsThere ==
  \A t \in InRand :
    loaded[t] # NoOct =>
      loaded[t] = IF at[t] < BASE_SEED_SIZE THEN seed[at[t]] ELSE behind

SeedRow(a, c) == {SeedOf(a + m) : m \in 0..(c - 1)}

InARow ==
  \E a, c \in Nat :
    /\ hashed = SeedRow(a, c)
    /\ InRand = {} => seed = SeedOf(a + c)
    /\ \A t \in InRand : c # 0 /\ Partly(seed, a + (c - 1), at[t])

DrbgIInv == DrbgTypeOK /\ (~overlapped => Alone /\ LoadedIsThere /\ InARow)

LEMMA IdleIsNoPlace == Idle \notin 0..BASE_SEED_SIZE /\ NoOct \notin Octets
BY SeedSizes DEF Idle, NoOct, Octets

LEMMA FreshRow ==
  ASSUME NEW f \in Seeds
  PROVE  \E a, c \in Nat : {} = SeedRow(a, c) /\ f = SeedOf(a + c)
<1>1. PICK a \in Nat : SeedOf(a) = f
  BY SeedsAreNumbers
<1>2. {} = SeedRow(a, 0) /\ a + 0 = a
  BY DEF SeedRow
<1> QED
  BY <1>1, <1>2

LEMMA InitDrbgIInv == DrbgInit => DrbgIInv
<1> SUFFICES ASSUME DrbgInit PROVE DrbgIInv
  OBVIOUS
<1>1. seed \in Seeds
  BY SeedSizes DEF DrbgInit, Seeds, Octets
<1>2. InRand = {}
  BY DEF DrbgInit, InRand
<1>3. DrbgTypeOK
  BY <1>1 DEF DrbgInit, DrbgTypeOK
<1>4. InARow
  BY <1>1, <1>2, FreshRow DEF DrbgInit, InARow
<1> QED
  BY <1>2, <1>3, <1>4 DEF DrbgIInv, Alone, LoadedIsThere

LEMMA SeededKeeps == ASSUME DrbgIInv, Seeded, seed' \in Seeds PROVE DrbgIInv'
<1>1. /\ hashed' = {} /\ overlapped' = FALSE /\ UNCHANGED <<behind, at, loaded>>
      /\ InRand = {} /\ InRand' = {}
  BY DEF Seeded, InRand
<1>2. DrbgTypeOK'
  BY <1>1 DEF DrbgIInv, DrbgTypeOK
<1>3. InARow'
  BY <1>1, FreshRow DEF InARow
<1> QED
  BY <1>1, <1>2, <1>3 DEF DrbgIInv, Alone, LoadedIsThere

LEMMA HashKeeps == ASSUME DrbgIInv, NEW t \in Callers, Hash(t) PROVE DrbgIInv'
<1>1. /\ at[t] = Idle /\ at' = [at EXCEPT ![t] = 0]
      /\ overlapped' = (overlapped \/ InRand # {})
      /\ hashed' = IF overlapped' THEN {} ELSE hashed \cup {seed}
      /\ UNCHANGED <<seed, behind, loaded>>
  BY DEF Hash
<1>2. DrbgTypeOK /\ 0 \in 0..BASE_SEED_SIZE
  BY SeedSizes DEF DrbgIInv
<1>3. DrbgTypeOK'
  <2>1. at' \in [Callers -> {Idle} \cup (0..BASE_SEED_SIZE)]
    BY <1>1, <1>2 DEF DrbgTypeOK
  <2>2. overlapped' \in BOOLEAN
    BY <1>1
  <2>3. \A u \in Callers : loaded'[u] # NoOct => at'[u] # Idle
    BY <1>1, <1>2 DEF DrbgTypeOK
  <2> QED
    BY <1>1, <1>2, <2>1, <2>2, <2>3 DEF DrbgTypeOK
<1>4. ASSUME ~overlapped' PROVE Alone' /\ LoadedIsThere' /\ InARow'
  <2>1. ~overlapped /\ InRand = {} /\ hashed' = hashed \cup {seed}
    BY <1>1, <1>4, <1>2 DEF DrbgTypeOK
  <2>2. InRand' = {t} /\ at'[t] = 0 /\ loaded'[t] = NoOct
    BY <1>1, <1>2, <2>1, IdleIsNoPlace DEF InRand, DrbgTypeOK
  <2>3. PICK a \in Nat, c \in Nat : hashed = SeedRow(a, c) /\ seed = SeedOf(a + c)
    BY <2>1 DEF DrbgIInv, InARow
  <2>4. hashed' = SeedRow(a, c + 1)
    <3>1. 0..((c + 1) - 1) = (0..(c - 1)) \cup {c}
      OBVIOUS
    <3> QED
      BY <2>1, <2>3, <3>1 DEF SeedRow
  <2>5. Partly(seed', a + ((c + 1) - 1), at'[t])
    BY <1>1, <2>2, <2>3, NotYet, (c + 1) - 1 = c, a + c \in Nat
  <2>6. InARow'
    BY <2>2, <2>4, <2>5, c + 1 \in Nat, c + 1 # 0 DEF InARow
  <2> QED
    BY <2>2, <2>6 DEF Alone, LoadedIsThere
<1> QED
  BY <1>3, <1>4 DEF DrbgIInv

LEMMA LoadKeeps == ASSUME DrbgIInv, NEW t \in Callers, Load(t) PROVE DrbgIInv'
<1> DEFINE value == IF at[t] < BASE_SEED_SIZE THEN seed[at[t]] ELSE behind
<1>1. /\ at[t] # Idle /\ loaded[t] = NoOct /\ loaded' = [loaded EXCEPT ![t] = value]
      /\ UNCHANGED <<seed, behind, at, hashed, overlapped>>
  BY DEF Load
<1>2. DrbgTypeOK
  BY DEF DrbgIInv
<1>3. value \in Octets
  <2>1. at[t] \in 0..BASE_SEED_SIZE
    BY <1>1, <1>2 DEF DrbgTypeOK
  <2>2. at[t] < BASE_SEED_SIZE => at[t] \in Places
    BY <2>1, SeedSizes DEF Places
  <2> QED
    BY <1>2, <2>2 DEF DrbgTypeOK, Seeds
<1> HIDE DEF value
<1>4. DrbgTypeOK'
  BY <1>1, <1>2, <1>3 DEF DrbgTypeOK
<1>5. InRand' = InRand
  BY <1>1 DEF InRand
<1>6. ASSUME ~overlapped PROVE LoadedIsThere'
  <2> SUFFICES ASSUME NEW u \in InRand
               PROVE  loaded'[u] # NoOct =>
                        loaded'[u] = IF at[u] < BASE_SEED_SIZE THEN seed[at[u]] ELSE behind
    BY <1>1, <1>5 DEF LoadedIsThere
  <2>1. u \in Callers
    BY DEF InRand
  <2>2. CASE u = t
    BY <1>1, <1>2, <2>2 DEF DrbgTypeOK, value
  <2>3. CASE u # t
    BY <1>1, <1>2, <1>6, <2>1, <2>3 DEF DrbgTypeOK, DrbgIInv, LoadedIsThere
  <2> QED
    BY <2>2, <2>3
<1>7. ASSUME ~overlapped PROVE Alone' /\ InARow'
  BY <1>1, <1>5, <1>7 DEF DrbgIInv, Alone, InARow
<1> QED
  BY <1>1, <1>4, <1>6, <1>7 DEF DrbgIInv

LEMMA inc_seedKeeps == ASSUME DrbgIInv, NEW t \in Callers, inc_seed(t) PROVE DrbgIInv'
<1> DEFINE p == at[t]
           value == (loaded[t] + 1) % UINT8
           far == IF Carries(value, p) THEN p + 1 ELSE Idle
<1>1. /\ loaded[t] # NoOct
      /\ seed' = IF p < BASE_SEED_SIZE THEN [seed EXCEPT ![p] = value] ELSE seed
      /\ behind' = IF p = BASE_SEED_SIZE THEN value ELSE behind
      /\ at' = [at EXCEPT ![t] = far]
      /\ loaded' = [loaded EXCEPT ![t] = NoOct]
      /\ UNCHANGED <<hashed, overlapped>>
  BY DEF inc_seed
<1>2. DrbgTypeOK
  BY DEF DrbgIInv
<1>3. p \in 0..BASE_SEED_SIZE /\ p # Idle /\ value \in Octets
  <2>1. p \in 0..BASE_SEED_SIZE /\ loaded[t] \in Octets
    BY <1>1, <1>2 DEF DrbgTypeOK
  <2> QED
    BY <2>1, SeedSizes, IdleIsNoPlace DEF Octets
<1>4. far \in {Idle} \cup (0..BASE_SEED_SIZE)
  BY <1>3, SeedSizes DEF Carries
<1>5. t \in InRand
  BY <1>3 DEF InRand
<1>6. DrbgTypeOK'
  <2>1. seed' \in Seeds
    BY <1>1, <1>2, <1>3 DEF DrbgTypeOK, Seeds
  <2>2. behind' \in Octets
    BY <1>1, <1>2, <1>3 DEF DrbgTypeOK
  <2> HIDE DEF far, value
  <2>3. at' \in [Callers -> {Idle} \cup (0..BASE_SEED_SIZE)]
    BY <1>1, <1>2, <1>4 DEF DrbgTypeOK
  <2>4. loaded' \in [Callers -> {NoOct} \cup Octets]
    BY <1>1, <1>2 DEF DrbgTypeOK
  <2>5. \A u \in Callers : loaded'[u] # NoOct => at'[u] # Idle
    BY <1>1, <1>2 DEF DrbgTypeOK
  <2> QED
    BY <1>1, <1>2, <2>1, <2>2, <2>3, <2>4, <2>5 DEF DrbgTypeOK
<1>7. ASSUME ~overlapped PROVE Alone' /\ LoadedIsThere' /\ InARow'
  <2>1. InRand = {t}
    BY <1>5, <1>7 DEF DrbgIInv, Alone
  <2>2. at'[t] = far /\ loaded'[t] = NoOct /\ InRand' = IF far = Idle THEN {} ELSE {t}
    <3> HIDE DEF far
    <3>1. \A u \in Callers : u # t => at[u] = Idle
      BY <2>1 DEF InRand
    <3>2. \A u \in Callers : at'[u] = IF u = t THEN far ELSE at[u]
      BY <1>1, <1>2 DEF DrbgTypeOK
    <3> QED
      BY <1>1, <1>2, <3>1, <3>2 DEF InRand, DrbgTypeOK
  <2>3. PICK a \in Nat, c \in Nat : hashed = SeedRow(a, c) /\ c # 0 /\ Partly(seed, a + (c - 1), p)
    BY <1>5, <1>7 DEF DrbgIInv, InARow
  <2> DEFINE x == a + (c - 1)
  <2>4. x \in Nat /\ a + c = x + 1
    BY <2>3
  <2>5. p < BASE_SEED_SIZE => p \in Places /\ value = (seed[p] + 1) % UINT8
    <3> SUFFICES ASSUME p < BASE_SEED_SIZE PROVE p \in Places /\ value = (seed[p] + 1) % UINT8
      OBVIOUS
    <3>1. p \in Places
      BY <1>3, SeedSizes DEF Places
    <3>2. loaded[t] = seed[p]
      BY <1>1, <1>5, <1>7 DEF DrbgIInv, LoadedIsThere
    <3> QED
      BY <3>1, <3>2
  <2> HIDE DEF x
  <2>6. far # Idle => far = p + 1 /\ value = 0 /\ p < BASE_SEED_SIZE
    BY <1>3 DEF Carries
  <2>7. far = Idle => value # 0 \/ p = BASE_SEED_SIZE
    BY <1>3, SeedSizes DEF Carries, Idle
  <2> HIDE DEF far, value
  <2>8. CASE p < BASE_SEED_SIZE
    <3>1. seed' = [seed EXCEPT ![p] = (seed[p] + 1) % UINT8]
      BY <1>1, <2>5, <2>8
    <3>2. /\ value = 0 => Partly(seed', x, p + 1)
          /\ value # 0 => seed' = SeedOf(x + 1)
      BY <1>2, <2>3, <2>4, <2>5, <2>8, <3>1, ByteMoves DEF DrbgTypeOK, x
    <3>3. InRand' = {} => seed' = SeedOf(a + c)
      BY <2>2, <2>4, <2>7, <2>8, <1>3, <3>2
    <3>4. \A u \in InRand' : c # 0 /\ Partly(seed', a + (c - 1), at'[u])
      BY <2>2, <2>3, <2>6, <3>2 DEF x
    <3> QED
      BY <1>1, <2>2, <2>3, <3>3, <3>4 DEF Alone, LoadedIsThere, InARow
  <2>9. CASE p = BASE_SEED_SIZE
    <3>1. seed' = SeedOf(a + c)
      BY <1>1, <1>2, <2>3, <2>4, <2>9, SeedSizes, AllMoved DEF DrbgTypeOK, x
    <3>2. InRand' = {}
      BY <2>2, <2>6, <2>9, SeedSizes
    <3> QED
      BY <1>1, <2>3, <3>1, <3>2 DEF Alone, LoadedIsThere, InARow
  <2> QED
    BY <1>3, <2>8, <2>9, SeedSizes
<1> QED
  BY <1>1, <1>6, <1>7 DEF DrbgIInv

LEMMA NextDrbgIInv == DrbgIInv /\ [DrbgNext]_drbgVars => DrbgIInv'
<1> SUFFICES ASSUME DrbgIInv, [DrbgNext]_drbgVars PROVE DrbgIInv'
  OBVIOUS
<1>1. CASE UNCHANGED drbgVars
  BY <1>1 DEF drbgVars, DrbgIInv, DrbgTypeOK, Alone, LoadedIsThere, InARow, InRand
<1>2. ASSUME NEW first \in [0..3 -> Octets], srand(first) PROVE DrbgIInv'
  BY <1>2, srandFills, SeededKeeps
<1>3. ASSUME NEW seed_len \in 0..BASE_SEED_SIZE, NEW bytes \in [0..(seed_len - 1) -> Octets],
             srand_bytes(bytes, seed_len)
      PROVE  DrbgIInv'
  BY <1>3, srand_bytesFills, SeededKeeps DEF DrbgIInv, DrbgTypeOK
<1> QED
  BY <1>1, <1>2, <1>3, HashKeeps, LoadKeeps, inc_seedKeeps DEF DrbgNext

(***************************************************************************)
(* The generator of numbers keeps its invariant for any number of threads, *)
(* any size of the seed and any number of values of a byte.                *)
(***************************************************************************)
THEOREM DrbgInvariance == DrbgSpec => []DrbgIInv
BY InitDrbgIInv, NextDrbgIInv, PTL DEF DrbgSpec

(***************************************************************************)
(* As long as calls of rand do not overlap, the seeds hashed are the       *)
(* digits of numbers in a row: the first that comes again comes after all  *)
(* seeds.                                                                  *)
(***************************************************************************)
THEOREM Fresh == DrbgSpec => []SeedsAreFresh
<1>1. DrbgIInv => SeedsAreFresh
  <2> SUFFICES ASSUME DrbgIInv, ~overlapped, InRand = {}, seed \in hashed
               PROVE  hashed = Seeds
    BY DEF SeedsAreFresh
  <2>1. PICK a \in Nat, c \in Nat : hashed = SeedRow(a, c) /\ seed = SeedOf(a + c)
    BY DEF DrbgIInv, InARow
  <2>2. PICK n \in 0..(c - 1) : seed = SeedOf(a + n)
    BY <2>1 DEF SeedRow
  <2> QED
    BY <2>1, <2>2, RowIsAll DEF SeedRow
<1> QED
  BY <1>1, DrbgInvariance, PTL

(***************************************************************************)
(* As long as calls do not overlap, inc_seed reaches the byte behind the   *)
(* seed only when every byte of the seed has wrapped.                      *)
(***************************************************************************)
THEOREM Contained == DrbgSpec => OnlySeedIsWritten
<1>1. ASSUME DrbgIInv, [DrbgNext]_drbgVars
      PROVE  [behind' # behind /\ ~overlapped => \A p \in Places : seed[p] = 0]_drbgVars
  <2> SUFFICES ASSUME behind' # behind, ~overlapped
               PROVE  \A p \in Places : seed[p] = 0
    OBVIOUS
  <2>1. PICK t \in Callers : inc_seed(t) /\ at[t] = BASE_SEED_SIZE
    BY <1>1 DEF DrbgNext, drbgVars, srand, srand_bytes, Seeded, Hash, Load, inc_seed
  <2>2. t \in InRand
    BY <2>1, SeedSizes DEF InRand, Idle
  <2>3. PICK a \in Nat, c \in Nat : c # 0 /\ Partly(seed, a + (c - 1), BASE_SEED_SIZE)
    BY <1>1, <2>1, <2>2 DEF DrbgIInv, InARow
  <2>4. seed \in Seeds /\ a + (c - 1) \in Nat
    BY <1>1, <2>3 DEF DrbgIInv, DrbgTypeOK
  <2> QED
    BY <2>3, <2>4, AllMoved
<1> QED
  BY <1>1, DrbgInvariance, PTL DEF DrbgSpec, OnlySeedIsWritten
=============================================================================
