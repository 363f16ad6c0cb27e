---------------------------- MODULE MCPrimitives ----------------------------
(***************************************************************************)
(* TLC instance of the primitives that keep nothing from one call to the   *)
(* next, or only a seed or a chaining value: RC4, the AES block cipher,    *)
(* the AES modes, the generator and the compression functions.  They share *)
(* no state, so that one of them runs, with the others at rest.            *)
(*                                                                         *)
(* RC4 and the block cipher have their real sizes and published vectors.   *)
(* The modes have blocks of three bytes of two bits, and the generator has *)
(* a seed of five bits.  The compression functions have words of four      *)
(* bits, their real numbers of rounds, and blocks in which every word      *)
(* matters.                                                                *)
(***************************************************************************)
EXTENDS Rc4, AesCipher, AesTables, AesModes, Drbg, Compression

VARIABLE service

allVars == <<service, rc4Vars, aesVars, modesVars, drbgVars, vars>>

Numbers == INSTANCE Bitwise

MCXor(x, y) == Numbers!^^(x, y)

-----------------------------------------------------------------------------
(* "Plaintext" under "Key", "pedia" under "Wiki", and a message of which   *)
(* the first bytes of the stream are skipped.                              *)
MCMessages ==
  {[key |-> <<75, 101, 121>>, skip |-> 0, in_place |-> p,
    data |-> <<80, 108, 97, 105, 110, 116, 101, 120, 116>>,
    cipher |-> <<187, 243, 22, 232, 217, 64, 175, 10, 211>>] : p \in BOOLEAN}
  \cup
  {[key |-> <<87, 105, 107, 105>>, skip |-> 0, in_place |-> FALSE,
    data |-> <<112, 101, 100, 105, 97>>, cipher |-> <<16, 33, 191, 4, 32>>],
   [key |-> <<87, 105, 107, 105>>, skip |-> 3, in_place |-> TRUE,
    data |-> <<105, 97>>, cipher |-> <<4, 32>>]}

-----------------------------------------------------------------------------
ByteOf(n) == {b \in 0..7 : (n \div 2 ^ b) % 2 = 1}

NumberOf(x) == LET bit(b) == IF b \in x THEN 2 ^ b ELSE 0
               IN  bit(0) + bit(1) + bit(2) + bit(3) + bit(4) + bit(5) + bit(6) + bit(7)

MCSBox    == [x \in Byte |-> ByteOf(SBoxTable[NumberOf(x) + 1])]
MCInvSBox == [x \in Byte |-> ByteOf(InvSBoxTable[NumberOf(x) + 1])]

(* The examples of FIPS 197, appendix C.                                   *)
Answer(type) ==
  CASE type = "AES128" ->
         <<105, 196, 224, 216, 106, 123, 4, 48, 216, 205, 183, 128, 112, 180, 197, 90>>
    [] type = "AES192" ->
         <<221, 169, 124, 164, 134, 76, 223, 224, 110, 175, 112, 160, 236, 13, 113, 145>>
    [] type = "AES256" ->
         <<142, 162, 183, 202, 81, 103, 69, 191, 234, 252, 73, 144, 75, 73, 96, 137>>

MCJobs ==
  {[type   |-> type,
    key    |-> [m \in 0..(Nk(type) - 1) |-> [n \in 0..3 |-> ByteOf(4 * m + n)]],
    block  |-> [n \in 0..15 |-> ByteOf(17 * n)],
    answer |-> [n \in 0..15 |-> ByteOf(Answer(type)[n + 1])]] : type \in Types}

-----------------------------------------------------------------------------
(* A cipher of 64 blocks that depends on the key.                          *)
MCEncryptBlock(key, x) ==
  LET n == (ToNumber(x) * 37 + (IF key[1] = "AES128" THEN 11 ELSE 30)) % 64
  IN  [m \in 0..2 |-> (n \div 4 ^ (2 - m)) % 4]

MCCalls ==
  {[type |-> type, expansion |-> "NOT_REQUIRED", key_fits |-> fits, mode |-> mode,
    iv |-> iv, data_len |-> len, data |-> [n \in 0..(len - 1) |-> (3 * n + 1) % 4],
    in_place |-> p, beyond |-> b] :
     type \in KeyTypes \cup {"?"}, fits \in BOOLEAN, mode \in Modes \cup {"GCM"},
     iv \in {[n \in 0..2 |-> 3], [n \in 0..2 |-> IF n = 0 THEN 1 ELSE 3]},
     len \in 0..7, p \in BOOLEAN, b \in {0, 2}}
  \cup
  {[type |-> type, expansion |-> expansion, key_fits |-> FALSE, mode |-> "CBC",
    iv |-> [n \in 0..2 |-> n], data_len |-> 4, data |-> [n \in 0..3 |-> n],
    in_place |-> FALSE, beyond |-> 1] : type \in KeyTypes, expansion \in {"SHA1", "SHA256", "SHA512", "?"}}

-----------------------------------------------------------------------------
MCBits == 0..3

Value(x) == (IF x[0] THEN 1 ELSE 0) + (IF x[1] THEN 2 ELSE 0)
              + (IF x[2] THEN 4 ELSE 0) + (IF x[3] THEN 8 ELSE 0)

OfValue(n) == [b \in MCBits |-> (n \div 2 ^ b) % 2 = 1]

Number(a) == CASE a = "SHA1" -> 1 [] a = "SHA256" -> 5 [] a = "SHA512" -> 7

MCPlus(x, y) == OfValue(Value(x) + Value(y))

MCRotL(x, n) == [b \in MCBits |-> x[(b - n) % 4]]

MCSUB(a, n, x) == OfValue((2 * n + 3) * Value(x) + Number(a))

MCK(a, n) == OfValue(IF a = "SHA1" THEN 3 + 5 * (n \div 20) ELSE n * n + Number(a))

MCChainingValues(a) == {[n \in 1..Registers(a) |-> OfValue(n * n + 1)]}

MCBlockValues == {[m \in 0..15 |-> OfValue(n * m + 11 * n)] : n \in {1, 6, 7}}

-----------------------------------------------------------------------------
One(S) == CHOOSE x \in S : TRUE

MCInit ==
  /\ service \in {"rc4", "cipher", "modes", "generator", "compression"}
  /\ IF service = "rc4" THEN Rc4Init ELSE message = One(Messages) /\ Rc4Init
  /\ IF service = "cipher" THEN AesInit ELSE job = One(Jobs) /\ AesInit
  /\ IF service = "modes" THEN ModesInit ELSE call = One(Calls) /\ ModesInit
  /\ IF service = "generator" THEN DrbgInit ELSE behind = 0 /\ DrbgInit
  /\ IF service = "compression" THEN Init ELSE alg = One(Algorithms) /\ Init

MCNext ==
  \/ /\ service = "rc4" /\ Rc4Next
     /\ UNCHANGED <<service, aesVars, modesVars, drbgVars, vars>>
  \/ /\ service = "cipher" /\ AesNext
     /\ UNCHANGED <<service, rc4Vars, modesVars, drbgVars, vars>>
  \/ /\ service = "modes" /\ ModesNext
     /\ UNCHANGED <<service, rc4Vars, aesVars, drbgVars, vars>>
  \/ /\ service = "generator" /\ DrbgNext
     /\ UNCHANGED <<service, rc4Vars, aesVars, modesVars, vars>>
  \/ /\ service = "compression" /\ Next
     /\ UNCHANGED <<service, rc4Vars, aesVars, modesVars, drbgVars>>

MCSpec == MCInit /\ [][MCNext]_allVars
=============================================================================
