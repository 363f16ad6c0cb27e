---------------------------- MODULE Compression ----------------------------
(***************************************************************************)
(* The compression functions of sha1.c, sha256.c and sha512.c.  No value   *)
(* moves between the registers: every round is a call of the macro PAD     *)
(* with the registers in another order.  SHA-1 keeps the last 16 words of  *)
(* its schedule, each overwriting the oldest; SHA-256 computes the words   *)
(* in the rounds that need them, SHA-512 computes all of them before.  The *)
(* builds with and without loops (MIN_SIZE) make the same calls.           *)
(***************************************************************************)
EXTENDS Words

CONSTANTS
  Uninitialized,       \* what a word of W is before it is written
  BlockValues,         \* the blocks a caller may pass
  ChainingValues(_),   \* the chaining values a context may start with
  MaxCalls             \* bound: blocks in a behaviour

VARIABLES
  alg,     \* which of the three files
  pc,      \* "idle", "expand" or "rounds"
  t,       \* the word, then the round, that is next
  block,   \* data, as 16 big-endian words
  W,       \* the schedule
  reg,     \* the locals A, B, C, ...
  h,       \* ctx->h0, h1, ...
  sched,   \* history: the schedule words the rounds have used
  calls

vars == <<alg, pc, t, block, W, reg, h, sched, calls>>

ASSUME CompressionAssumption ==
  /\ Uninitialized \notin Word
  /\ BlockValues \subseteq [0..15 -> Word]
  /\ \A a \in Algorithms : ChainingValues(a) \subseteq [1..Registers(a) -> Word]
  /\ MaxCalls \in Nat

Letters == <<"A", "B", "C", "D", "E", "F", "G", "H">>

Names(a) == {Letters[j] : j \in 1..Registers(a)}

\* W has 16 words in sha1.c, and one per round in the others.
Slots(a) == IF a = "SHA1" THEN 0..15 ELSE 0..(Rounds(a) - 1)
-----------------------------------------------------------------------------
\* Fault: the third call of SHA-1's five has two arguments swapped.
Sha1CallsSwapped == <<
  <<"A", "B", "C", "D", "E">>, <<"E", "A", "B", "C", "D">>, <<"D", "E", "B", "A", "C">>,
  <<"C", "D", "E", "A", "B">>, <<"B", "C", "D", "E", "A">> >>

\* The arguments of the calls of PAD, in the order of the calls.
Sha1Calls == <<
  <<"A", "B", "C", "D", "E">>, <<"E", "A", "B", "C", "D">>, <<"D", "E", "A", "B", "C">>,
  <<"C", "D", "E", "A", "B">>, <<"B", "C", "D", "E", "A">> >>

Sha2Calls == <<
  <<"A", "B", "C", "D", "E", "F", "G", "H">>, <<"H", "A", "B", "C", "D", "E", "F", "G">>,
  <<"G", "H", "A", "B", "C", "D", "E", "F">>, <<"F", "G", "H", "A", "B", "C", "D", "E">>,
  <<"E", "F", "G", "H", "A", "B", "C", "D">>, <<"D", "E", "F", "G", "H", "A", "B", "C">>,
  <<"C", "D", "E", "F", "G", "H", "A", "B">>, <<"B", "C", "D", "E", "F", "G", "H", "A">> >>

Arguments(a, n) == IF a = "SHA1" THEN Sha1Calls[(n % 5) + 1] ELSE Sha2Calls[(n % 8) + 1]

\* z ^ (x & (y ^ z)), (x & y) | (z & (x | y)) and x ^ y ^ z.
F1(x, y, z) == [i \in Bits |-> z[i] # (x[i] /\ (y[i] # z[i]))]
F0(x, y, z) == [i \in Bits |-> (x[i] /\ y[i]) \/ (z[i] /\ (x[i] \/ y[i]))]
FX(x, y, z) == Xor(Xor(x, y), z)

\* The F of sha1.c, which is defined anew for every twenty rounds.
F(n, x, y, z) ==
  IF n < 20 THEN F1(x, y, z)
  ELSE IF n \div 20 = 2 THEN F0(x, y, z)
  ELSE FX(x, y, z)

\* Fault: the mask is 0x07.
SlotOfEight(n) == n % 8

\* t & 0x0F: the slot of word t in sha1.c.
Slot(n) == n % 16

\* The ROT of sha1.c, and that of the two others.
RotSha1(n) ==
  RotL(Xor(Xor(Xor(W[Slot(n - 3)], W[Slot(n - 8)]), W[Slot(n - 14)]), W[Slot(n)]), 1)

RotSha2(n) ==
  Plus(Plus(Plus(SUB(alg, 1, W[n - 2]), W[n - 7]), SUB(alg, 0, W[n - 15])), W[n - 16])
-----------------------------------------------------------------------------
Init ==
  /\ alg \in Algorithms
  /\ h \in ChainingValues(alg)
  /\ pc = "idle" /\ t = 0 /\ sched = <<>> /\ calls = 0
  /\ block = <<>> /\ W = <<>> /\ reg = <<>>

\* The function is called: registers and the first words are loaded.
Begin(b) ==
  /\ pc = "idle" /\ calls < MaxCalls
  /\ calls' = calls + 1
  /\ block' = b
  /\ reg' = [x \in Names(alg) |-> h[CHOOSE j \in 1..Registers(alg) : Letters[j] = x]]
  /\ W' = [s \in Slots(alg) |-> IF s < 16 THEN b[s] ELSE Uninitialized]
  /\ IF alg = "SHA512" THEN pc' = "expand" /\ t' = 16 ELSE pc' = "rounds" /\ t' = 0
  /\ UNCHANGED <<alg, h, sched>>

\* One word of the while loop of sha512.c, which does eight in a turn.
Expand ==
  /\ pc = "expand"
  /\ W' = [W EXCEPT ![t] = RotSha2(t)]
  /\ IF t + 1 < Rounds(alg) THEN t' = t + 1 /\ UNCHANGED pc ELSE t' = 0 /\ pc' = "rounds"
  /\ UNCHANGED <<alg, block, reg, h, sched, calls>>

\* The first 16 words are those of the block; ROT stores the word it computes.
RoundSha1 ==
  /\ pc = "rounds" /\ alg = "SHA1" /\ t < Rounds(alg)
  /\ W' = IF t < 16 THEN W ELSE [W EXCEPT ![Slot(t)] = RotSha1(t)]
  /\ LET arg == Arguments(alg, t)
         x   == W'[Slot(t)]
         sum == Plus(Plus(Plus(RotL(reg[arg[1]], 5),
                               F(t, reg[arg[2]], reg[arg[3]], reg[arg[4]])),
                          K(alg, t)), x)
     IN  /\ reg' = [reg EXCEPT ![arg[5]] = Plus(@, sum), ![arg[2]] = RotL(@, 30)]
         /\ sched' = Append(sched, x)
  /\ t' = t + 1
  /\ UNCHANGED <<alg, pc, block, h, calls>>

RoundSha2 ==
  /\ pc = "rounds" /\ alg # "SHA1" /\ t < Rounds(alg)
  /\ W' = IF t < 16 \/ alg = "SHA512" THEN W ELSE [W EXCEPT ![t] = RotSha2(t)]
  /\ LET arg  == Arguments(alg, t)
         x    == W'[t]
         tmp1 == Plus(Plus(Plus(Plus(reg[arg[8]], SUB(alg, 3, reg[arg[5]])),
                                F1(reg[arg[5]], reg[arg[6]], reg[arg[7]])),
                           K(alg, t)), x)
         tmp2 == Plus(SUB(alg, 2, reg[arg[1]]), F0(reg[arg[1]], reg[arg[2]], reg[arg[3]]))
     IN  /\ reg' = [reg EXCEPT ![arg[4]] = Plus(@, tmp1), ![arg[8]] = Plus(tmp1, tmp2)]
         /\ sched' = Append(sched, x)
  /\ t' = t + 1
  /\ UNCHANGED <<alg, pc, block, h, calls>>

\* ctx->h0 += A, and so on; the locals are gone.
AddBack ==
  /\ pc = "rounds" /\ t = Rounds(alg)
  /\ h' = [j \in 1..Registers(alg) |-> Plus(h[j], reg[Letters[j]])]
  /\ pc' = "idle" /\ t' = 0 /\ sched' = <<>>
  /\ reg' = <<>> /\ W' = <<>>
  /\ UNCHANGED <<alg, block, calls>>

Next ==
  \/ \E b \in BlockValues : Begin(b)
  \/ Expand
  \/ RoundSha1
  \/ RoundSha2
  \/ AddBack

Spec == Init /\ [][Next]_vars
-----------------------------------------------------------------------------
\* The rounds that are done, and the words of the schedule that are known.
Done  == IF pc = "rounds" THEN t ELSE 0
Known == IF pc = "expand" THEN t
         ELSE IF alg = "SHA512" THEN Rounds(alg)
         ELSE IF t < 16 THEN 16 ELSE t

\* The working variables a, b, c, ...: the arguments of the next call.
Working == [j \in 1..Registers(alg) |-> reg[Arguments(alg, Done)[j]]]

TypeOK ==
  /\ alg \in Algorithms
  /\ h \in [1..Registers(alg) -> Word]
  /\ calls \in 0..MaxCalls
  /\ sched \in Seq(Word) /\ Len(sched) = Done
  /\ pc \in {"idle", "expand", "rounds"}
  /\ pc = "expand" => alg = "SHA512" /\ t \in 16..(Rounds(alg) - 1)
  /\ pc = "rounds" => t \in 0..Rounds(alg)
  /\ pc # "idle" =>
       /\ block \in [0..15 -> Word]
       /\ reg \in [Names(alg) -> Word]
       /\ W \in [Slots(alg) -> Word \cup {Uninitialized}]
       /\ \A s \in 0..(Known - 1) : s \in Slots(alg) => W[s] \in Word

(***************************************************************************)
(* Every word of W that is still needed is in its slot: SHA-1's slots hold *)
(* the last 16 words, or the block before them (sha1.c:31-36), and SHA-2's *)
(* the whole schedule up to the last word computed (sha256.c:33-37,        *)
(* sha512.c:132-136); so a round uses no slot that was never written.      *)
(***************************************************************************)
ScheduleIsKept ==
  pc # "idle" =>
    /\ alg = "SHA1" =>
         \A s \in (Known - 16)..(Known - 1) :
           W[Slot(s)] = IF s < t THEN sched[s + 1] ELSE block[s]
    /\ alg # "SHA1" =>
         /\ \A s \in 0..(Known - 1) : W[s] = IF s < 16 THEN block[s] ELSE RotSha2(s)
         /\ \A s \in 0..(Done - 1) : sched[s + 1] = W[s]

(***************************************************************************)
(* The calls of PAD with their arguments in turn (sha1.c:47-281,           *)
(* sha256.c:77-232, sha512.c:99-230) do what FIPS 180-4 does by shifting   *)
(* the working variables, and the chaining value is its, block after       *)
(* block.                                                                  *)
(***************************************************************************)
Fips == INSTANCE BlockFunction WITH
  H <- h, M <- block, busy <- pc # "idle",
  v <- IF pc = "idle" THEN <<>> ELSE Working, w <- sched

ImplementsFips == Fips!Spec
=============================================================================
