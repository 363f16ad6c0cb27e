--------------------------- MODULE BlockFunction ---------------------------
(***************************************************************************)
(* The processing of one message block as FIPS 180-4 states it (6.1.2,     *)
(* 6.2.2, 6.4.2), a round at a time: the working variables shift, the      *)
(* schedule grows by one word, and at the end the working variables are    *)
(* added to the chaining value.                                            *)
(***************************************************************************)
EXTENDS Words

VARIABLES
  alg,     \* the algorithm
  H,       \* the chaining value
  M,       \* the words of the block
  busy,    \* TRUE while the block is processed
  v,       \* the working variables a, b, c, ...
  w        \* the schedule so far: w[s + 1] is W_s

vars == <<alg, H, M, busy, v, w>>

Ch(x, y, z)     == [i \in Bits |-> (x[i] /\ y[i]) # (~x[i] /\ z[i])]
Maj(x, y, z)    == [i \in Bits |-> ((x[i] /\ y[i]) # (x[i] /\ z[i])) # (y[i] /\ z[i])]
Parity(x, y, z) == [i \in Bits |-> (x[i] # y[i]) # z[i]]

f(t, x, y, z) ==
  IF t < 20 THEN Ch(x, y, z)
  ELSE IF t >= 40 /\ t < 60 THEN Maj(x, y, z)
  ELSE Parity(x, y, z)

\* W_t, from the block and the words before it.
ScheduleWord(t) ==
  LET Before(n) == w[t - n + 1]
  IN  IF t < 16 THEN M[t]
      ELSE IF alg = "SHA1"
      THEN RotL(Xor(Xor(Xor(Before(3), Before(8)), Before(14)), Before(16)), 1)
      ELSE Plus(Plus(Plus(SUB(alg, 1, Before(2)), Before(7)), SUB(alg, 0, Before(15))),
                Before(16))

ShiftSha1(t, wt) ==
  LET T == Plus(Plus(Plus(Plus(RotL(v[1], 5), f(t, v[2], v[3], v[4])), v[5]), K(alg, t)), wt)
  IN  <<T, v[1], RotL(v[2], 30), v[3], v[4]>>

ShiftSha2(t, wt) ==
  LET T1 == Plus(Plus(Plus(Plus(v[8], SUB(alg, 3, v[5])), Ch(v[5], v[6], v[7])), K(alg, t)), wt)
      T2 == Plus(SUB(alg, 2, v[1]), Maj(v[1], v[2], v[3]))
  IN  <<Plus(T1, T2), v[1], v[2], v[3], Plus(v[4], T1), v[5], v[6], v[7]>>

Init == ~busy /\ v = <<>> /\ w = <<>>

Start ==
  /\ ~busy
  /\ busy' = TRUE
  /\ M' \in [0..15 -> Word]
  /\ v' = H /\ w' = <<>>
  /\ UNCHANGED <<alg, H>>

Round ==
  /\ busy /\ Len(w) < Rounds(alg)
  /\ LET t  == Len(w)
         wt == ScheduleWord(t)
     IN  /\ w' = Append(w, wt)
         /\ v' = IF alg = "SHA1" THEN ShiftSha1(t, wt) ELSE ShiftSha2(t, wt)
  /\ UNCHANGED <<alg, H, M, busy>>

Finish ==
  /\ busy /\ Len(w) = Rounds(alg)
  /\ H' = [j \in 1..Registers(alg) |-> Plus(H[j], v[j])]
  /\ busy' = FALSE /\ v' = <<>> /\ w' = <<>>
  /\ UNCHANGED <<alg, M>>

Next == Start \/ Round \/ Finish

Spec == Init /\ [][Next]_vars
=============================================================================
