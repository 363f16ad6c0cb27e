-------------------------------- MODULE Rc4 --------------------------------
(***************************************************************************)
(* The stream cipher of src/src/rc4.c: ksa and rc4, one step per round.    *)
(* A caller encrypts a message and then decrypts what came out, to another *)
(* buffer or in place.                                                     *)
(***************************************************************************)
EXTENDS Integers, Sequences

CONSTANTS
  ROUNDS,        \* 256
  BitXor(_, _),  \* of bytes
  Messages       \* the calls: key, data, skip, in_place, and the answer known for it

Bytes == 0..(ROUNDS - 1)

ASSUME Rc4Assumption ==
  /\ ROUNDS \in Nat \ {0}
  /\ \A a, b \in Bytes : /\ BitXor(a, b) \in Bytes /\ BitXor(a, b) = BitXor(b, a)
                          /\ BitXor(BitXor(a, b), b) = a
  /\ Messages \subseteq [key : Seq(Bytes) \ {<< >>}, data : Seq(Bytes), skip : Nat,
                         in_place : BOOLEAN, cipher : Seq(Bytes)]

VARIABLES
  message,    \* the call, and whether it is the first or the second one
  pass,
  s,
  i,          \* of ksa; ROUNDS behind it
  k, j,
  skip,
  data,
  out, done   \* the output, and the number of its bytes that are written

rc4Vars == <<message, pass, s, i, k, j, skip, data, out, done>>

\* Fault: what was at a is not kept.
Overwritten(f, a, b) == [f EXCEPT ![a] = f[b]]

Swapped(f, a, b) == [f EXCEPT ![a] = f[b], ![b] = f[a]]

Identity == [x \in Bytes |-> x]

Rc4Init ==
  /\ message \in Messages
  /\ pass = 1
  /\ s = Identity /\ i = 0 /\ j = 0 /\ k = 0
  /\ skip = message.skip
  /\ data = message.data
  /\ out = message.data /\ done = 0

\* Fault: the generator goes on with the index of the key schedule.
KsaKeepsIndex ==
  LET jj == (j + s[i] + message.key[(i % Len(message.key)) + 1]) % ROUNDS
  IN  /\ i < ROUNDS
      /\ s' = Swapped(s, i, jj) /\ i' = i + 1 /\ j' = jj
      /\ UNCHANGED <<message, pass, k, skip, data, out, done>>

KsaRound ==
  LET jj == (j + s[i] + message.key[(i % Len(message.key)) + 1]) % ROUNDS
  IN  /\ i < ROUNDS
      /\ s' = Swapped(s, i, jj)
      /\ i' = i + 1
      /\ j' = IF i' = ROUNDS THEN 0 ELSE jj
      /\ UNCHANGED <<message, pass, k, skip, data, out, done>>

\* The generator moves by one byte.
Stir ==
  LET kk == (k + 1) % ROUNDS
      jj == (j + s[kk]) % ROUNDS
  IN  k' = kk /\ j' = jj /\ s' = Swapped(s, kk, jj)

Skip ==
  /\ i = ROUNDS /\ skip > 0
  /\ Stir
  /\ skip' = skip - 1
  /\ UNCHANGED <<message, pass, i, data, out, done>>

(* With out = data, what is read is what the buffer holds by then.         *)
OutByte ==
  /\ i = ROUNDS /\ skip = 0 /\ done < Len(data)
  /\ Stir
  /\ out' = [out EXCEPT ![done + 1] =
               BitXor(s'[(s'[k'] + s'[j']) % ROUNDS],
                      IF message.in_place THEN out[done + 1] ELSE data[done + 1])]
  /\ done' = done + 1
  /\ UNCHANGED <<message, pass, i, skip, data>>

Finished == i = ROUNDS /\ skip = 0 /\ done = Len(data)

\* Fault: an index is left from the call before.
AgainFromIndex ==
  /\ Finished /\ pass = 1
  /\ pass' = 2
  /\ s' = Identity /\ i' = 0 /\ j' = 0
  /\ skip' = message.skip
  /\ data' = out /\ done' = 0
  /\ UNCHANGED <<message, k, out>>

(* The caller passes what it got to rc4, with the same key. *)
Again ==
  /\ Finished /\ pass = 1
  /\ pass' = 2
  /\ s' = Identity /\ i' = 0 /\ j' = 0 /\ k' = 0
  /\ skip' = message.skip
  /\ data' = out /\ done' = 0
  /\ UNCHANGED <<message, out>>

Rc4Next == KsaRound \/ Skip \/ OutByte \/ Again

Rc4Spec == Rc4Init /\ [][Rc4Next]_rc4Vars

-----------------------------------------------------------------------------
Rc4TypeOK ==
  /\ message \in Messages /\ pass \in {1, 2}
  /\ s \in [Bytes -> Bytes] /\ i \in 0..ROUNDS /\ k \in Bytes /\ j \in Bytes
  /\ skip \in Nat
  /\ data \in Seq(Bytes) /\ out \in Seq(Bytes) /\ Len(out) = Len(data)
  /\ done \in 0..Len(data)

(***************************************************************************)
(* No round of the key schedule or of the generator, with the two indices  *)
(* equal or not, loses a value of s.                                       *)
(***************************************************************************)
SIsPermutation == {s[a] : a \in Bytes} = Bytes

(***************************************************************************)
(* The bytes are those that the published test vectors give.               *)
(***************************************************************************)
MatchesVectors ==
  pass = 1 =>
    \A n \in 1..done : n <= Len(message.cipher) => out[n] = message.cipher[n]

(***************************************************************************)
(* The same call once more gives the message back, in place or not: both   *)
(* passes go through the same states of the generator, whatever was        *)
(* skipped.                                                                *)
(***************************************************************************)
SecondPassDecrypts == pass = 2 => \A n \in 1..done : out[n] = message.data[n]
=============================================================================
