------------------------------ MODULE Arithmetic ----------------------------
(***************************************************************************)
(* Facts about the naturals that several proofs need: induction and        *)
(* recursion, \div and % with a symbolic divisor, powers and digits.       *)
(***************************************************************************)
EXTENDS Powers, WellFoundedInduction, TLAPS

-----------------------------------------------------------------------------
(***************************************************************************)
(* Induction over a set: a set with 0 and the successor of each of its     *)
(* members holds every natural number.  As the set can be the numbers that *)
(* have a property, and is not an operator, first-order provers can use    *)
(* this where they cannot use NatInduction.                                *)
(***************************************************************************)
Smaller == {pair \in Nat \X Nat : pair[1] < pair[2]}

LEMMA SmallerIsWellFounded == IsWellFoundedOn(Smaller, Nat)
BY NatLessThanWellFounded DEF OpToRel, Smaller

LEMMA SetInduction ==
  ASSUME NEW S, 0 \in S, \A n \in Nat : n \in S => n + 1 \in S
  PROVE  \A n \in Nat : n \in S
<1> DEFINE T == Nat \ S
<1> SUFFICES ASSUME T # {} PROVE FALSE
  OBVIOUS
<1>1. PICK x \in T : \A y \in T : ~(<<y, x>> \in Smaller)
  <2>1. T \subseteq Nat
    OBVIOUS
  <2> HIDE DEF T
  <2> QED
    BY <2>1, SmallerIsWellFounded, WFMin
<1>2. x \in Nat /\ x # 0
  OBVIOUS
<1>3. x - 1 \in Nat /\ <<x - 1, x>> \in Smaller
  BY <1>2 DEF Smaller
<1>4. x - 1 \in S
  BY <1>1, <1>3
<1> QED
  BY <1>3, <1>4

-----------------------------------------------------------------------------
(***************************************************************************)
(* Recursion: a function on the naturals given by its first value and by   *)
(* the step from each value to the next exists.                            *)
(***************************************************************************)
Begins(f, a, g, m) == f[0] = a /\ \A k \in 1..m : f[k] = g[<<k - 1, f[k - 1]>>]

LEMMA Beginnings ==
  ASSUME NEW V, NEW a \in V, NEW g \in [Nat \X V -> V]
  PROVE  \A m \in Nat : \E f \in [0..m -> V] : Begins(f, a, g, m)
<1> DEFINE S == {m \in Nat : \E f \in [0..m -> V] : Begins(f, a, g, m)}
<1>1. 0 \in S
  <2> DEFINE f == [k \in 0..0 |-> a]
  <2>1. f \in [0..0 -> V] /\ Begins(f, a, g, 0)
    BY DEF Begins
  <2> HIDE DEF f
  <2> QED
    BY <2>1
<1>2. ASSUME NEW m \in Nat, m \in S
      PROVE  m + 1 \in S
  <2>1. PICK f \in [0..m -> V] : Begins(f, a, g, m)
    BY <1>2
  <2> DEFINE h == [k \in 0..(m + 1) |-> IF k = m + 1 THEN g[<<m, f[m]>>] ELSE f[k]]
  <2>2. h \in [0..(m + 1) -> V]
    BY <1>2, <2>1
  <2>3. Begins(h, a, g, m + 1)
    <3>1. \A k \in 0..m : h[k] = f[k]
      BY <1>2
    <3>2. h[m + 1] = g[<<m, f[m]>>]
      OBVIOUS
    <3> HIDE DEF h
    <3>3. h[0] = a
      BY <2>1, <3>1 DEF Begins
    <3>4. ASSUME NEW k \in 1..(m + 1)
          PROVE  h[k] = g[<<k - 1, h[k - 1]>>]
      <4>1. CASE k = m + 1
        BY SMTT(30), <3>1, <3>2, <4>1
      <4>2. CASE k # m + 1
        <5>1. k \in 1..m /\ k \in 0..m /\ k - 1 \in 0..m
          BY <4>2
        <5>2. f[k] = g[<<k - 1, f[k - 1]>>]
          BY <2>1, <5>1 DEF Begins
        <5> QED
          BY <3>1, <5>1, <5>2
      <4> QED
        BY <4>1, <4>2
    <3> QED
      BY <3>3, <3>4 DEF Begins
  <2> HIDE DEF h
  <2> QED
    BY <1>2, <2>2, <2>3
<1> HIDE DEF S
<1>3. \A m \in Nat : m \in S
  BY <1>1, <1>2, SetInduction
<1> QED
  BY <1>3 DEF S

LEMMA BeginningsAgree ==
  ASSUME NEW a, NEW g, NEW m \in Nat, NEW f, NEW h,
         Begins(f, a, g, m), Begins(h, a, g, m)
  PROVE  \A k \in 0..m : f[k] = h[k]
<1> DEFINE S == {k \in Nat : k <= m => f[k] = h[k]}
<1>1. 0 \in S
  BY DEF Begins
<1>2. ASSUME NEW k \in Nat, k \in S
      PROVE  k + 1 \in S
  <2>1. SUFFICES ASSUME k + 1 <= m
                 PROVE  f[k + 1] = h[k + 1]
    OBVIOUS
  <2>2. k + 1 \in 1..m /\ (k + 1) - 1 = k /\ f[k] = h[k]
    BY <1>2, <2>1
  <2>3. f[k + 1] = g[<<k, f[k]>>] /\ h[k + 1] = g[<<k, h[k]>>]
    BY <2>2 DEF Begins
  <2> QED
    BY <2>2, <2>3
<1> HIDE DEF S
<1>3. \A k \in Nat : k \in S
  BY <1>1, <1>2, SetInduction
<1> QED
  BY <1>3 DEF S

IsRecursive(f, V, a, g) ==
  f \in [Nat -> V] /\ f[0] = a /\ \A n \in Nat : f[n + 1] = g[<<n, f[n]>>]

IsStep(g, V) == g \in [Nat \X V -> V]

LEMMA Recursion ==
  ASSUME NEW V, NEW a \in V, NEW g, IsStep(g, V)
  PROVE  \E f : IsRecursive(f, V, a, g)
<1>0. g \in [Nat \X V -> V]
  BY DEF IsStep
<1> DEFINE G(m) == CHOOSE f \in [0..m -> V] : Begins(f, a, g, m)
           f == [n \in Nat |-> G(n)[n]]
<1>1. \A m \in Nat : G(m) \in [0..m -> V] /\ Begins(G(m), a, g, m)
  BY <1>0, Beginnings
<1>2. \A n \in Nat : G(n)[n] \in V
  <2> HIDE DEF G
  <2> QED
    BY <1>1
<1>3. G(0)[0] = a
  <2> HIDE DEF G
  <2> QED
    BY <1>1 DEF Begins
<1>4. ASSUME NEW n \in Nat
      PROVE  G(n + 1)[n + 1] = g[<<n, G(n)[n]>>]
  <2> HIDE DEF G
  <2>1. Begins(G(n + 1), a, g, n) /\ Begins(G(n), a, g, n)
    BY <1>1 DEF Begins
  <2>2. G(n + 1)[n] = G(n)[n]
    BY <2>1, BeginningsAgree
  <2>3. G(n + 1)[n + 1] = g[<<n, G(n + 1)[n]>>]
    <3>1. n + 1 \in Nat /\ n + 1 \in 1..(n + 1) /\ (n + 1) - 1 = n
      OBVIOUS
    <3> QED
      BY <1>1, <3>1 DEF Begins
  <2> QED
    BY <2>2, <2>3
<1> HIDE DEF G
<1>5. IsRecursive(f, V, a, g)
  BY <1>2, <1>3, <1>4 DEF IsRecursive
<1> HIDE DEF f
<1> QED
  BY <1>5

-----------------------------------------------------------------------------
(***************************************************************************)
(* Quotients and remainders.                                               *)
(***************************************************************************)
\* Every integer is a multiple of n and a remainder.
LEMMA DivMod ==
  ASSUME NEW n \in Nat \ {0}, NEW x \in Int
  PROVE  /\ x \div n \in Int
         /\ x % n \in 0..(n - 1)
         /\ x = n * (x \div n) + (x % n)
  OBVIOUS

\* Multiples of n are n apart.
LEMMA MultiplesApart ==
  ASSUME NEW n \in Nat \ {0}, NEW p \in Int, NEW q \in Int, p < q
  PROVE  n * p + n <= n * q
<1>1. PICK d \in Nat \ {0} : q = p + d
  BY q = p + (q - p)
<1>2. n * q = n * p + n * d
  BY <1>1
<1>3. n * d >= n
  BY <1>1
<1> QED
  BY <1>2, <1>3

\* Quotient and remainder are unique.
LEMMA DivModUnique ==
  ASSUME NEW n \in Nat \ {0}, NEW q \in Int, NEW r \in 0..(n - 1)
  PROVE  /\ (n * q + r) \div n = q
         /\ (n * q + r) % n = r
<1> DEFINE x == n * q + r
           p == x \div n
           s == x % n
<1>1. x \in Int
  OBVIOUS
<1>2. p \in Int /\ s \in 0..(n - 1) /\ x = n * p + s
  BY <1>1, DivMod
<1> HIDE DEF p, s
<1>3. ~(p < q)
  BY <1>2, MultiplesApart
<1>4. ~(q < p)
  BY <1>2, MultiplesApart
<1>5. p = q
  BY <1>2, <1>3, <1>4
<1>6. s = r
  BY <1>2, <1>5
<1> QED
  BY <1>5, <1>6 DEF p, s

\* A remainder is its own remainder.
LEMMA SmallMod ==
  ASSUME NEW n \in Nat \ {0}, NEW r \in 0..(n - 1)
  PROVE  r % n = r /\ r \div n = 0
  BY DivModUnique, r = n * 0 + r

\* Adding a multiple of n keeps the remainder and moves the quotient.
LEMMA AddMultiple ==
  ASSUME NEW n \in Nat \ {0}, NEW x \in Int, NEW k \in Int
  PROVE  /\ (x + n * k) % n = x % n
         /\ (x + n * k) \div n = (x \div n) + k
<1>1. x \div n \in Int /\ x % n \in 0..(n - 1) /\ x = n * (x \div n) + (x % n)
  BY DivMod
<1>2. x + n * k = n * ((x \div n) + k) + (x % n)
  BY <1>1
<1> DEFINE q == (x \div n) + k
           r == x % n
<1>3. q \in Int /\ r \in 0..(n - 1)
  BY <1>1
<1> HIDE DEF q, r
<1>4. (n * q + r) \div n = q /\ (n * q + r) % n = r
  BY <1>3, DivModUnique, Zenon
<1> QED
  BY <1>2, <1>4 DEF q, r

\* A remainder may be taken before an addition.
LEMMA ModAdd ==
  ASSUME NEW n \in Nat \ {0}, NEW x \in Int, NEW y \in Int
  PROVE  (x + y) % n = ((x % n) + y) % n
<1>1. x \div n \in Int /\ x % n \in 0..(n - 1) /\ x = n * (x \div n) + (x % n)
  BY DivMod
<1>2. x + y = ((x % n) + y) + n * (x \div n)
  BY <1>1
<1>3. (x % n) + y \in Int
  BY <1>1
<1> DEFINE q == x \div n
           r == (x % n) + y
<1> HIDE DEF q, r
<1>4. (r + n * q) % n = r % n
  BY ZenonT(40), <1>1, <1>3, AddMultiple DEF q, r
<1> QED
  BY ZenonT(40), <1>2, <1>4 DEF q, r

\* A remainder modulo a multiple of n keeps the remainder modulo n.
LEMMA ModOfMultiple ==
  ASSUME NEW n \in Nat \ {0}, NEW k \in Nat \ {0}, NEW x \in Int
  PROVE  (x % (n * k)) % n = x % n
<1> DEFINE m == n * k
<1>1. m \in Nat \ {0}
  OBVIOUS
<1>2. x \div m \in Int /\ x % m \in 0..(m - 1) /\ x = m * (x \div m) + (x % m)
  BY <1>1, DivMod
<1>3. PICK y \in Int, z \in Int : y = x % m /\ z = k * (x \div m)
  BY <1>2
<1>4. x = y + n * z
  BY <1>2, <1>3
<1>5. x % n = y % n
  BY <1>4, AddMultiple
<1> QED
  BY <1>3, <1>5

\* Equal remainders of sums with a common term.
LEMMA ModCancel ==
  ASSUME NEW n \in Nat \ {0}, NEW x \in Int, NEW p \in 1..n, NEW q \in 1..n,
         (x + p) % n = (x + q) % n
  PROVE  p = q
<1> DEFINE a == (x + p) \div n
           b == (x + q) \div n
           r == (x + p) % n
<1>1. a \in Int /\ b \in Int /\ r \in 0..(n - 1) /\ x + p = n * a + r /\ x + q = n * b + r
  BY DivMod, x + p \in Int, x + q \in Int
<1> HIDE DEF a, b, r
<1>2. ~(a < b)
  BY <1>1, MultiplesApart
<1>3. ~(b < a)
  BY <1>1, MultiplesApart
<1> QED
  BY <1>1, <1>2, <1>3

\* A counter of two words of w values each after len more: the low word, and
\* the high word with the carry found by comparing the low word with len.
LowAfter(w, lo, len) == (lo + len) % w
HighAfter(w, lo, hi, len) == IF LowAfter(w, lo, len) < len THEN (hi + 1) % w ELSE hi

\* The two words count exactly, modulo what they hold.
LEMMA CarryIsExact ==
  ASSUME NEW w \in Nat \ {0}, NEW n \in Nat, NEW len \in 0..w
  PROVE  /\ LowAfter(w, n % w, len) \in 0..(w - 1)
         /\ LowAfter(w, n % w, len) = (n + len) % w
         /\ HighAfter(w, n % w, (n \div w) % w, len) \in 0..(w - 1)
         /\ HighAfter(w, n % w, (n \div w) % w, len) = ((n + len) \div w) % w
<1> DEFINE lo == n % w
           hi == (n \div w) % w
           low == LowAfter(w, lo, len)
           top == HighAfter(w, lo, hi, len)
<1> SUFFICES low \in 0..(w - 1) /\ low = (n + len) % w /\ top \in 0..(w - 1) /\ top = ((n + len) \div w) % w
  OBVIOUS
<1>0. low = (lo + len) % w /\ top = IF low < len THEN (hi + 1) % w ELSE hi
  BY DEF LowAfter, HighAfter
<1>a. lo = n % w /\ hi = (n \div w) % w
  OBVIOUS
<1> HIDE DEF low, top, lo, hi
<1>1. PICK q \in Int : q = n \div w
  OBVIOUS
<1>2. n = w * q + lo /\ lo \in 0..(w - 1) /\ hi = q % w /\ hi \in 0..(w - 1)
  BY <1>1, <1>a, DivMod
<1>3. CASE lo + len < w
  <2>1. low = lo + len /\ low \in 0..(w - 1)
    BY <1>0, <1>2, <1>3, SmallMod, lo + len \in 0..(w - 1)
  <2>2. n + len = w * q + low
    BY <1>2, <2>1
  <2>3. (n + len) % w = low /\ (n + len) \div w = q
    <3>1. (w * q + low) % w = low /\ (w * q + low) \div w = q
      BY <2>1, DivModUnique, Zenon
    <3> QED
      BY <2>2, <3>1
  <2>4. top = hi
    BY <1>0, <1>2, <2>1
  <2> QED
    BY <1>2, <2>1, <2>3, <2>4
<1>4. CASE ~(lo + len < w)
  <2>1. PICK r \in 0..(w - 1) : r = lo + len - w
    BY <1>2, <1>4
  <2>2. r < len /\ lo + len = w * 1 + r
    BY <1>2, <2>1
  <2>8. n + len = w * (q + 1) + r
    <3> DEFINE z == w * q
    <3>1. z \in Int /\ w * (q + 1) = z + w
      BY <1>1
    <3>2. n = z + lo /\ r + w = lo + len
      BY <1>1, <1>2, <2>1
    <3> HIDE DEF z
    <3>3. n + len = (z + w) + r
      BY <1>2, <2>1, <3>1, <3>2
    <3> QED
      BY <3>1, <3>3
  <2>3. low = r
    <3>1. (w * 1 + r) % w = r
      BY <2>1, DivModUnique, 1 \in Int, Zenon
    <3> QED
      BY <1>0, <2>2, <3>1
  <2>4. (n + len) % w = r /\ (n + len) \div w = q + 1
    <3>1. (w * (q + 1) + r) % w = r /\ (w * (q + 1) + r) \div w = q + 1
      BY <2>1, DivModUnique, q + 1 \in Int, Zenon
    <3> QED
      BY <2>8, <3>1
  <2>5. (q + 1) % w = (hi + 1) % w
    BY <1>2, ModAdd, 1 \in Int, Zenon
  <2>6. top = (hi + 1) % w
    BY <1>0, <2>1, <2>2, <2>3
  <2>7. (hi + 1) % w \in 0..(w - 1)
    BY <1>2, DivMod, hi + 1 \in Int
  <2> QED
    BY <2>1, <2>3, <2>4, <2>5, <2>6, <2>7
<1> QED
  BY <1>3, <1>4

(***************************************************************************)
(* The bit count of n bytes, from the two words lo and hi that count the   *)
(* bytes: the shifts of the hashes' final compute its two low words.  The  *)
(* top three bits of lo and hi * 8 never overlap.                          *)
(***************************************************************************)
LEMMA BitsOfBytes ==
  ASSUME NEW v \in Nat \ {0}, NEW w \in Nat \ {0}, w = 8 * v, NEW n \in Nat
  PROVE  /\ ((n % w) * 8) % w = (8 * n) % w
         /\ ((n % w) \div v) + ((((n \div w) % w) * 8) % w) = ((8 * n) \div w) % w
<1> DEFINE lo == n % w
           q == n \div w
           hi == q % w
           p == q \div w
           a == lo \div v
           b == lo % v
           e == (hi * 8) % w
           c == (hi * 8) \div w
<1>1. lo \in 0..(w - 1) /\ q \in Int /\ n = w * q + lo
  BY DivMod, n \in Int, Zenon
<1>2. hi \in 0..(w - 1) /\ p \in Int /\ q = w * p + hi
  BY <1>1, DivMod
<1>3. a \in Int /\ b \in 0..(v - 1) /\ lo = v * a + b
  <2>1. lo \in Int
    BY <1>1
  <2> HIDE DEF lo
  <2> QED
    BY <2>1, DivMod, Zenon
<1>4. e \in 0..(w - 1) /\ c \in Int /\ hi * 8 = w * c + e
  BY <1>2, DivMod, hi * 8 \in Int
<1> SUFFICES (lo * 8) % w = (8 * n) % w /\ a + e = ((8 * n) \div w) % w
  OBVIOUS
<1>5. e = (hi * 8) % w
  OBVIOUS
<1> HIDE DEF lo, q, hi, p, a, b, e, c
<1>6. a \in 0..7
  <2>1. ~(a >= 8)
    <3>1. a >= 8 => v * a >= v * 8
      BY <1>3
    <3> QED
      BY <1>1, <1>3, <3>1
  <2>2. ~(a < 0)
    <3>1. a < 0 => v * a + v <= 0
      BY <1>3, MultiplesApart, v * 0 = 0
    <3> QED
      BY <1>1, <1>3, <3>1
  <2> QED
    BY <1>3, <2>1, <2>2
<1>7. 8 * b \in 0..(w - 1)
  BY <1>3
<1>8. lo * 8 = w * a + 8 * b
  <2>1. w * a = 8 * (v * a)
    BY <1>3
  <2>2. v * a \in Int
    BY <1>3
  <2> QED
    BY <1>1, <1>3, <2>1, <2>2
<1>9. 8 * n = w * (8 * q + a) + 8 * b
  <2>1. w * (8 * q + a) = 8 * (w * q) + w * a
    BY <1>1, <1>3
  <2>2. w * q \in Int /\ w * a \in Int
    BY <1>1, <1>3
  <2> QED
    BY <1>1, <1>3, <1>8, <2>1, <2>2
<1>10. (w * a + 8 * b) % w = 8 * b
  BY <1>3, <1>7, DivModUnique, Zenon
<1>11. (w * (8 * q + a) + 8 * b) % w = 8 * b /\ (w * (8 * q + a) + 8 * b) \div w = 8 * q + a
  <2>1. 8 * q + a \in Int
    BY <1>1, <1>3
  <2> QED
    BY <1>7, <2>1, DivModUnique, Zenon
<1>12. (8 * q + a) % w = e + a
  <2>1. (8 * q) % w = e
    <3>1. 8 * q = hi * 8 + w * (8 * p)
      <4>1. w * (8 * p) = 8 * (w * p) /\ w * p \in Int
        BY <1>2
      <4> QED
        BY <1>2, <4>1
    <3>2. (hi * 8 + w * (8 * p)) % w = (hi * 8) % w
      <4>1. hi * 8 \in Int /\ 8 * p \in Int
        BY <1>2
      <4> QED
        BY <4>1, AddMultiple, Zenon
    <3> QED
      BY <1>5, <3>1, <3>2
  <2>2. e + a \in 0..(w - 1)
    <3>1. w * c = 8 * (v * c) /\ v * c \in Int
      BY <1>4
    <3>2. PICK f \in Int : e = 8 * f
      BY <1>2, <1>4, <3>1, e = 8 * (hi - v * c), hi - v * c \in Int
    <3> QED
      BY <1>4, <1>6, <3>2
  <2>3. (8 * q + a) % w = (((8 * q) % w) + a) % w
    BY <1>1, <1>3, ModAdd, 8 * q \in Int
  <2>4. (e + a) % w = e + a
    BY <2>2, SmallMod, Zenon
  <2> QED
    BY <2>1, <2>3, <2>4
<1> QED
  BY <1>3, <1>4, <1>8, <1>9, <1>10, <1>11, <1>12
-----------------------------------------------------------------------------
(***************************************************************************)
(* Powers.                                                                 *)
(***************************************************************************)
IsPowers(b, P) == P = [n \in Nat |-> IF n = 0 THEN 1 ELSE b * P[n - 1]]

LEMMA PowersExist ==
  ASSUME NEW b \in Nat
  PROVE  \E P \in [Nat -> Nat] : IsPowers(b, P)
<1> DEFINE g == [pair \in Nat \X Nat |-> b * pair[2]]
<1>1. IsStep(g, Nat)
  BY DEF IsStep
<1>2. \A n, p \in Nat : g[<<n, p>>] = b * p
  OBVIOUS
<1> HIDE DEF g
<1>3. PICK P \in [Nat -> Nat] : P[0] = 1 /\ \A n \in Nat : P[n + 1] = g[<<n, P[n]>>]
  <2>1. 1 \in Nat
    OBVIOUS
  <2>2. \E P : IsRecursive(P, Nat, 1, g)
    BY <1>1, <2>1, Recursion, Zenon
  <2> QED
    BY <2>2 DEF IsRecursive
<1>4. ASSUME NEW n \in Nat
      PROVE  P[n] = IF n = 0 THEN 1 ELSE b * P[n - 1]
  <2>1. CASE n = 0
    BY <1>3, <2>1
  <2>2. CASE n # 0
    <3>1. n - 1 \in Nat /\ P[(n - 1) + 1] = g[<<n - 1, P[n - 1]>>] /\ P[n - 1] \in Nat
      BY <1>3, <2>2
    <3>2. g[<<n - 1, P[n - 1]>>] = b * P[n - 1]
      BY <1>2, <3>1
    <3> QED
      BY <2>2, <3>1, <3>2
  <2> QED
    BY <2>1, <2>2
<1>5. P = [n \in Nat |-> P[n]]
  BY <1>3
<1> QED
  BY <1>4, <1>5 DEF IsPowers

LEMMA PowerType ==
  ASSUME NEW b \in Nat
  PROVE  /\ \A k \in Nat : Power(b, k) \in Nat
         /\ Power(b, 0) = 1
         /\ \A k \in Nat : Power(b, k + 1) = b * Power(b, k)
<1> DEFINE P == CHOOSE Q : Q = [n \in Nat |-> IF n = 0 THEN 1 ELSE b * Q[n - 1]]
<1>1. IsPowers(b, P)
  BY PowersExist, Zenon DEF IsPowers
<1>2. \A k : Power(b, k) = P[k]
  BY DEF Power
<1> HIDE DEF P
<1>3. \A n \in Nat : P[n] = IF n = 0 THEN 1 ELSE b * P[n - 1]
  BY <1>1 DEF IsPowers
<1>4. P[0] = 1 /\ \A k \in Nat : P[k + 1] = b * P[k]
  BY <1>3
<1> DEFINE S == {k \in Nat : P[k] \in Nat}
<1>5. 0 \in S /\ \A k \in Nat : k \in S => k + 1 \in S
  BY <1>4
<1> HIDE DEF S
<1>6. \A k \in Nat : k \in S
  BY <1>5, SetInduction
<1> QED
  BY <1>2, <1>4, <1>6 DEF S

LEMMA PowerPositive ==
  ASSUME NEW b \in Nat \ {0}
  PROVE  \A k \in Nat : Power(b, k) \in Nat \ {0}
<1> DEFINE S == {k \in Nat : Power(b, k) \in Nat \ {0}}
<1>1. 0 \in S
  BY PowerType
<1>2. ASSUME NEW k \in Nat, k \in S
      PROVE  k + 1 \in S
  BY <1>2, PowerType
<1> HIDE DEF S
<1>3. \A k \in Nat : k \in S
  BY <1>1, <1>2, SetInduction
<1> QED
  BY <1>3 DEF S

LEMMA PowerOfSum ==
  ASSUME NEW b \in Nat, NEW j \in Nat
  PROVE  \A k \in Nat : Power(b, j + k) = Power(b, j) * Power(b, k)
<1> DEFINE S == {k \in Nat : Power(b, j + k) = Power(b, j) * Power(b, k)}
<1>1. 0 \in S
  BY PowerType
<1>2. ASSUME NEW k \in Nat, k \in S
      PROVE  k + 1 \in S
  <2>1. /\ Power(b, (j + k) + 1) = b * Power(b, j + k)
        /\ Power(b, k + 1) = b * Power(b, k)
        /\ Power(b, j) \in Nat /\ Power(b, k) \in Nat
    <3>1. j + k \in Nat
      OBVIOUS
    <3> QED
      BY <3>1, PowerType, Zenon
  <2>2. b * (Power(b, j) * Power(b, k)) = Power(b, j) * (b * Power(b, k))
    BY <2>1
  <2> QED
    BY <1>2, <2>1, <2>2, (j + k) + 1 = j + (k + 1)
<1> HIDE DEF S
<1>3. \A k \in Nat : k \in S
  BY <1>1, <1>2, SetInduction
<1> QED
  BY <1>3 DEF S
-----------------------------------------------------------------------------
(***************************************************************************)
(* Digits.                                                                 *)
(***************************************************************************)
\* A remainder below p and a digit below b make a remainder below p * b.
LEMMA BelowProduct ==
  ASSUME NEW p \in Nat \ {0}, NEW b \in Nat \ {0},
         NEW d \in 0..(b - 1), NEW r \in 0..(p - 1)
  PROVE  p * d + r \in 0..(p * b - 1)
<1>1. p * d + p <= p * b
  <2>1. b \in Int /\ d < b
    OBVIOUS
  <2> QED
    BY <2>1, MultiplesApart
<1>2. p * d \in Nat /\ p * b \in Nat
  OBVIOUS
<1> QED
  BY <1>1, <1>2

LEMMA DivModProduct ==
  ASSUME NEW p \in Nat \ {0}, NEW b \in Nat \ {0}, NEW x \in Nat
  PROVE  /\ x \div (p * b) = (x \div p) \div b
         /\ x % (p * b) = p * ((x \div p) % b) + (x % p)
<1> DEFINE q == x \div p
           r == x % p
           u == q \div b
           d == q % b
           m == p * b
           low == p * d + r
<1>1. q \in Int /\ r \in 0..(p - 1) /\ x = p * q + r
  BY DivMod
<1>2. u \in Int /\ d \in 0..(b - 1) /\ q = b * u + d
  <2>1. q \in Int
    BY <1>1
  <2> HIDE DEF q
  <2> QED
    BY <2>1, DivMod
<1> HIDE DEF q, r, u, d
<1>3. low \in 0..(m - 1)
  BY <1>1, <1>2, BelowProduct
<1>4. x = m * u + low
  <2>1. p * (b * u + d) = (p * b) * u + p * d
    BY <1>2
  <2>2. p * d \in Int /\ (p * b) * u \in Int
    BY <1>2
  <2> QED
    BY <1>1, <1>2, <2>1, <2>2
<1>5. m \in Nat \ {0}
  OBVIOUS
<1> HIDE DEF m, low
<1>6. (m * u + low) \div m = u /\ (m * u + low) % m = low
  BY <1>2, <1>3, <1>5, DivModUnique, Zenon
<1>7. x \div m = u /\ x % m = low
  BY <1>4, <1>6
<1> QED
  BY <1>7 DEF m, low, q, r, u, d

LEMMA DigitType ==
  ASSUME NEW b \in Nat \ {0}, NEW x \in Nat, NEW k \in Nat
  PROVE  Digit(b, x, k) \in 0..(b - 1)
<1>1. PICK p \in Nat \ {0} : p = Power(b, k)
  BY PowerPositive
<1>2. x \div p \in Int
  BY DivMod
<1>3. (x \div p) % b \in 0..(b - 1)
  BY <1>2, DivMod
<1> QED
  BY <1>1, <1>3 DEF Digit

\* Numbers that the digits below b^k can write have no digit there.
LEMMA DigitOfSmall ==
  ASSUME NEW b \in Nat \ {0}, NEW k \in Nat, NEW x \in 0..(Power(b, k) - 1)
  PROVE  Digit(b, x, k) = 0
<1>1. x \div Power(b, k) = 0
  BY PowerPositive, SmallMod
<1> QED
  BY <1>1, SmallMod DEF Digit

\* The k digits of x below b^k.
LEMMA LowDigits ==
  ASSUME NEW b \in Nat \ {0}, NEW x \in Nat
  PROVE  \A k \in Nat :
           x % Power(b, k + 1) = Power(b, k) * Digit(b, x, k) + (x % Power(b, k))
<1> TAKE k \in Nat
<1>1. Power(b, k + 1) = Power(b, k) * b /\ Power(b, k) \in Nat \ {0}
  BY PowerType, PowerPositive
<1> QED
  BY ZenonT(40), <1>1, DivModProduct DEF Digit

\* x ends in k digits of b - 1 exactly when its remainder is the largest.
AllLast(b, x, k) == \A j \in 0..(k - 1) : Digit(b, x, j) = b - 1

LEMMA AllLastIsLargest ==
  ASSUME NEW b \in Nat \ {0}, NEW x \in Nat
  PROVE  \A k \in Nat : AllLast(b, x, k) <=> x % Power(b, k) = Power(b, k) - 1
<1> DEFINE S == {k \in Nat : AllLast(b, x, k) <=> x % Power(b, k) = Power(b, k) - 1}
<1>1. 0 \in S
  <2>1. x % 1 = 0
    BY DivMod
  <2>2. Power(b, 0) = 1
    BY PowerType
  <2>3. AllLast(b, x, 0)
    BY DEF AllLast
  <2> QED
    BY <2>1, <2>2, <2>3
<1>2. ASSUME NEW k \in Nat, k \in S
      PROVE  k + 1 \in S
  <2> DEFINE p == Power(b, k)
             d == Digit(b, x, k)
             r == x % p
  <2>1. p \in Nat \ {0} /\ Power(b, k + 1) = p * b
    BY PowerType, PowerPositive
  <2>2. d \in 0..(b - 1) /\ r \in 0..(p - 1)
    <3>1. d \in 0..(b - 1)
      BY DigitType
    <3> HIDE DEF p
    <3>2. r \in 0..(p - 1)
      <4>1. p \in Nat \ {0} /\ x \in Int
        BY <2>1
      <4> QED
        BY <4>1, DivMod, Zenon
    <3> QED
      BY <3>1, <3>2
  <2>3. x % (p * b) = p * d + r
    BY <2>1, LowDigits
  <2>4. AllLast(b, x, k + 1) <=> AllLast(b, x, k) /\ d = b - 1
    <3>1. 0..((k + 1) - 1) = (0..(k - 1)) \cup {k}
      OBVIOUS
    <3> QED
      BY <3>1 DEF AllLast
  <2>5. AllLast(b, x, k) <=> r = p - 1
    BY <1>2
  <2> HIDE DEF p, d, r
  <2>6. p * d + r = p * b - 1 <=> d = b - 1 /\ r = p - 1
    <3>1. ASSUME d = b - 1, r = p - 1
          PROVE  p * d + r = p * b - 1
      <4>1. p * (b - 1) = p * b - p /\ p * b \in Int
        BY <2>1
      <4> QED
        BY <2>1, <3>1, <4>1
    <3>2. ASSUME p * d + r = p * b - 1
          PROVE  d = b - 1 /\ r = p - 1
      <4>1. p * (b - 1) + (p - 1) = p * b - 1
        BY <2>1
      <4>2. (p * d + r) \div p = d /\ (p * d + r) % p = r
        BY SMTT(30), <2>1, <2>2, DivModUnique
      <4>3. (p * (b - 1) + (p - 1)) \div p = b - 1 /\ (p * (b - 1) + (p - 1)) % p = p - 1
        <5>1. b - 1 \in Int /\ p - 1 \in 0..(p - 1)
          BY <2>1
        <5> QED
          BY <2>1, <5>1, DivModUnique, Zenon
      <4> QED
        BY <3>2, <4>1, <4>2, <4>3
    <3> QED
      BY <3>1, <3>2
  <2> QED
    BY <2>1, <2>3, <2>4, <2>5, <2>6 DEF p
<1> HIDE DEF S
<1>3. \A k \in Nat : k \in S
  BY <1>1, <1>2, SetInduction
<1> QED
  BY <1>3 DEF S

(***************************************************************************)
(* What a counter does that carries: the digit moves on when all digits    *)
(* below it wrap.                                                          *)
(***************************************************************************)
LEMMA DigitOfSuccessor ==
  ASSUME NEW b \in Nat \ {0}, NEW x \in Nat, NEW k \in Nat
  PROVE  Digit(b, x + 1, k) =
           IF AllLast(b, x, k) THEN (Digit(b, x, k) + 1) % b ELSE Digit(b, x, k)
<1> DEFINE p == Power(b, k)
           q == x \div p
           r == x % p
<1>1. p \in Nat \ {0}
  BY PowerPositive
<1>2. q \in Int /\ r \in 0..(p - 1) /\ x = p * q + r
  <2> HIDE DEF p
  <2> QED
    BY <1>1, DivMod
<1>3. AllLast(b, x, k) <=> r = p - 1
  BY AllLastIsLargest
<1>4. Digit(b, x, k) = q % b /\ Digit(b, x + 1, k) = ((x + 1) \div p) % b
  BY DEF Digit
<1> HIDE DEF p, q, r
<1>5. CASE r = p - 1
  <2>1. p * (q + 1) = p * q + p /\ p * q \in Int
    BY <1>1, <1>2
  <2>2. x + 1 = p * (q + 1) + 0
    BY <1>1, <1>2, <1>5, <2>1
  <2>3. (p * (q + 1) + 0) \div p = q + 1
    <3>1. q + 1 \in Int /\ 0 \in 0..(p - 1)
      BY <1>1, <1>2
    <3> QED
      BY <1>1, <3>1, DivModUnique, Zenon
  <2>4. (q + 1) % b = ((q % b) + 1) % b
    BY <1>2, ModAdd, 1 \in Int
  <2> QED
    BY <1>3, <1>4, <1>5, <2>2, <2>3, <2>4
<1>6. CASE r # p - 1
  <2>1. r + 1 \in 0..(p - 1)
    BY <1>1, <1>2, <1>6
  <2>2. x + 1 = p * q + (r + 1)
    <3>1. p * q \in Int
      BY <1>1, <1>2
    <3> QED
      BY <1>2, <3>1
  <2>3. (p * q + (r + 1)) \div p = q
    BY <1>1, <1>2, <2>1, DivModUnique, Zenon
  <2> QED
    BY <1>3, <1>4, <1>6, <2>2, <2>3
<1> QED
  BY <1>5, <1>6

\* A digit appended below moves the others up by one.
LEMMA DigitAppended ==
  ASSUME NEW b \in Nat \ {0}, NEW x \in Nat, NEW d \in 0..(b - 1)
  PROVE  /\ Digit(b, b * x + d, 0) = d
         /\ \A e \in Nat : Digit(b, b * x + d, e + 1) = Digit(b, x, e)
<1> DEFINE y == b * x + d
<1>1. y \in Nat
  OBVIOUS
<1>2. y \div b = x /\ y % b = d
  BY DivModUnique
<1>3. y \div 1 = y
  BY <1>1
<1>4. Digit(b, y, 0) = d
  BY <1>2, <1>3, PowerType DEF Digit
<1>5. ASSUME NEW e \in Nat
      PROVE  Digit(b, y, e + 1) = Digit(b, x, e)
  <2>1. PICK p \in Nat \ {0} : p = Power(b, e)
    BY PowerPositive
  <2>2. Power(b, e + 1) = b * p
    BY <2>1, PowerType
  <2> HIDE DEF y
  <2>3. y \div (b * p) = (y \div b) \div p
    BY <1>1, DivModProduct
  <2> QED
    BY <1>2, <2>1, <2>2, <2>3 DEF Digit
<1> QED
  BY <1>4, <1>5

\* Numbers with the same n digits are those with the same remainder.
LEMMA SameDigits ==
  ASSUME NEW b \in Nat \ {0}, NEW x \in Nat, NEW y \in Nat
  PROVE  \A n \in Nat : x % Power(b, n) = y % Power(b, n)
                          <=> \A e \in 0..(n - 1) : Digit(b, x, e) = Digit(b, y, e)
<1> DEFINE Low(z, n) == z % Power(b, n)
           Same(n) == \A e \in 0..(n - 1) : Digit(b, x, e) = Digit(b, y, e)
           S == {n \in Nat : Low(x, n) = Low(y, n) <=> Same(n)}
<1>1. 0 \in S
  <2>1. x % 1 = 0 /\ y % 1 = 0
    BY DivMod
  <2> QED
    BY <2>1, PowerType
<1>2. ASSUME NEW n \in Nat, n \in S
      PROVE  n + 1 \in S
  <2>1. /\ Low(x, n + 1) = Power(b, n) * Digit(b, x, n) + Low(x, n)
        /\ Low(y, n + 1) = Power(b, n) * Digit(b, y, n) + Low(y, n)
    BY LowDigits
  <2>2. PICK p \in Nat \ {0} : p = Power(b, n)
    BY PowerPositive
  <2>3. /\ Low(x, n) \in 0..(p - 1) /\ Low(y, n) \in 0..(p - 1)
        /\ Digit(b, x, n) \in Int /\ Digit(b, y, n) \in Int
    <3>1. x % p \in 0..(p - 1) /\ y % p \in 0..(p - 1)
      BY DivMod, x \in Int, y \in Int
    <3>2. Digit(b, x, n) \in 0..(b - 1) /\ Digit(b, y, n) \in 0..(b - 1)
      BY DigitType
    <3> QED
      BY <2>2, <3>1, <3>2
  <2> HIDE DEF Low
  <2>4. Low(x, n + 1) = Low(y, n + 1)
          => Digit(b, x, n) = Digit(b, y, n) /\ Low(x, n) = Low(y, n)
    <3> DEFINE dx == Digit(b, x, n)
               dy == Digit(b, y, n)
               lx == Low(x, n)
               ly == Low(y, n)
    <3> HIDE DEF dx, dy, lx, ly
    <3> SUFFICES ASSUME p * dx + lx = p * dy + ly PROVE dx = dy /\ lx = ly
      BY <2>1, <2>2 DEF dx, dy, lx, ly
    <3>1. /\ (p * dx + lx) \div p = dx /\ (p * dx + lx) % p = lx
          /\ (p * dy + ly) \div p = dy /\ (p * dy + ly) % p = ly
      BY <2>3, DivModUnique DEF dx, dy, lx, ly
    <3> QED
      BY <3>1
  <2>5. Same(n + 1) <=> Same(n) /\ Digit(b, x, n) = Digit(b, y, n)
    BY 0..((n + 1) - 1) = (0..(n - 1)) \cup {n}
  <2> HIDE DEF Same
  <2>6. Low(x, n + 1) = Low(y, n + 1) <=> Same(n + 1)
    BY <1>2, <2>1, <2>4, <2>5
  <2> QED
    BY <2>6
<1> HIDE DEF S
<1>3. \A n \in Nat : n \in S
  BY <1>1, <1>2, SetInduction
<1> QED
  BY <1>3 DEF S

\* Any digits are those of a number.
LEMMA WithDigits ==
  ASSUME NEW b \in Nat \ {0}, NEW f
  PROVE  \A n \in Nat : f \in [0..(n - 1) -> 0..(b - 1)] =>
           \E x \in Nat : \A e \in 0..(n - 1) : Digit(b, x, e) = f[e]
<1> SUFFICES ASSUME NEW top \in Nat, f \in [0..(top - 1) -> 0..(b - 1)]
             PROVE  \E x \in Nat : \A e \in 0..(top - 1) : Digit(b, x, e) = f[e]
  OBVIOUS
<1> DEFINE Has(x, n) == \A e \in 0..(n - 1) : Digit(b, x, e) = f[e]
           S == {n \in Nat : n <= top => \E x \in Nat : Has(x, n)}
<1>1. 0 \in S
  <2>1. Has(0, 0)
    OBVIOUS
  <2> QED
    BY <2>1
<1>2. ASSUME NEW n \in Nat, n \in S
      PROVE  n + 1 \in S
  <2> SUFFICES ASSUME n + 1 <= top PROVE \E x \in Nat : Has(x, n + 1)
    OBVIOUS
  <2>1. PICK x \in Nat : Has(x, n)
    BY <1>2
  <2>2. PICK p \in Nat \ {0} : p = Power(b, n)
    BY PowerPositive
  <2>3. PICK d \in 0..(b - 1) : d = f[n]
    BY n \in 0..(top - 1)
  <2> DEFINE r == x % p
             y == p * d + r
  <2>4. r \in 0..(p - 1) /\ d \in Int /\ x \in Int
    BY DivMod, x \in Int
  <2> HIDE DEF r
  <2>5. y \div p = f[n] /\ y % p = r /\ y \in Nat
    <3>1. y \in Nat
      BY <2>4
    <3> QED
      BY <2>3, <2>4, <3>1, DivModUnique
  <2>6. f[n] % b = f[n]
    BY <2>3, SmallMod
  <2> HIDE DEF y
  <2>7. Digit(b, y, n) = f[n]
    BY <2>2, <2>5, <2>6 DEF Digit
  <2>8. \A e \in 0..(n - 1) : Digit(b, y, e) = Digit(b, x, e)
    BY <2>2, <2>5, SameDigits DEF r
  <2>9. Has(y, n + 1)
    <3>1. \A e \in 0..((n + 1) - 1) : e \in 0..(n - 1) \/ e = n
      OBVIOUS
    <3> QED
      BY <2>1, <2>7, <2>8, <3>1
  <2> QED
    BY <2>5, <2>9
<1> HIDE DEF S
<1>3. \A n \in Nat : n \in S
  BY <1>1, <1>2, SetInduction
<1>4. top \in S
  BY <1>3
<1> QED
  BY <1>4 DEF S

\* The digits of a number in two parts: those below place c, and the others.
LEMMA DigitsJoined ==
  ASSUME NEW b \in Nat \ {0}, NEW c \in Nat, NEW hi \in Nat, NEW lo \in 0..(Power(b, c) - 1),
         NEW e \in Nat
  PROVE  /\ e < c => Digit(b, Power(b, c) * hi + lo, e) = Digit(b, lo, e)
         /\ e >= c => Digit(b, Power(b, c) * hi + lo, e) = Digit(b, hi, e - c)
<1>1. PICK p \in Nat \ {0} : p = Power(b, c)
  BY PowerPositive
<1> DEFINE x == p * hi + lo
<1>2. lo \in 0..(p - 1)
  BY <1>1
<1>3. x \in Nat /\ x \div p = hi /\ x % p = lo /\ lo % p = lo
  <2>1. x \in Nat
    BY <1>2
  <2>2. hi \in Int
    OBVIOUS
  <2>3. x \div p = hi /\ x % p = lo
    BY <1>2, <2>2, DivModUnique, Zenon
  <2> QED
    BY <1>2, <2>1, <2>3, SmallMod
<1> HIDE DEF x
<1>4. CASE e < c
  <2>1. lo \in Nat /\ e \in 0..(c - 1)
    BY <1>2, <1>4
  <2>2. Digit(b, x, e) = Digit(b, lo, e)
    BY <1>1, <1>3, <2>1, SameDigits
  <2> QED
    BY <1>1, <1>4, <2>2 DEF x
<1>5. CASE e >= c
  <2>1. e - c \in Nat /\ e = c + (e - c)
    BY <1>5
  <2>2. PICK q \in Nat \ {0} : q = Power(b, e - c)
    BY <2>1, PowerPositive
  <2>3. Power(b, e) = p * q
    BY <1>1, <2>1, <2>2, PowerOfSum
  <2>4. x \div (p * q) = hi \div q
    BY <1>3, DivModProduct
  <2>5. Digit(b, x, e) = Digit(b, hi, e - c)
    BY <2>2, <2>3, <2>4 DEF Digit
  <2> QED
    BY <1>1, <1>5, <2>5 DEF x
<1> QED
  BY <1>4, <1>5

\* The digits of the remainder and of the quotient by a power.
LEMMA DigitsSplit ==
  ASSUME NEW b \in Nat \ {0}, NEW c \in Nat, NEW x \in Nat
  PROVE  /\ x \div Power(b, c) \in Nat /\ x % Power(b, c) \in 0..(Power(b, c) - 1)
         /\ \A e \in Nat : e < c => Digit(b, x % Power(b, c), e) = Digit(b, x, e)
         /\ \A e \in Nat : Digit(b, x \div Power(b, c), e) = Digit(b, x, e + c)
<1>1. PICK p \in Nat \ {0} : p = Power(b, c)
  BY PowerPositive
<1>2. x \div p \in Nat /\ x % p \in 0..(p - 1) /\ x = p * (x \div p) + (x % p)
  BY DivMod, x \in Int
<1>3. ASSUME NEW e \in Nat, e < c PROVE Digit(b, x % p, e) = Digit(b, x, e)
  BY <1>1, <1>2, <1>3, DigitsJoined
<1>4. ASSUME NEW e \in Nat PROVE Digit(b, x \div p, e) = Digit(b, x, e + c)
  <2>1. e + c \in Nat /\ e + c >= c /\ (e + c) - c = e
    OBVIOUS
  <2> QED
    BY <1>1, <1>2, <2>1, DigitsJoined
<1> QED
  BY <1>1, <1>2, <1>3, <1>4
=============================================================================
