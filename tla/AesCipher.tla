----------------------------- MODULE AesCipher -----------------------------
(***************************************************************************)
(* The block cipher of src/src/aes.c: the key expansion word by word, and  *)
(* the two directions of the cipher round by round, for the three types of *)
(* key.  A byte is the set of its bits that are 1.                         *)
(***************************************************************************)
EXTENDS Integers

CONSTANTS
  s_box, inv_s_box,
  Jobs    \* what a caller wants: a type of key, a key, a block, and the answer known

Byte == SUBSET (0..7)

XorBits(x, y) == (x \ y) \cup (y \ x)

Types == {"AES128", "AES192", "AES256"}

\* _mbcrypt_aes_info; Nb is 4 for all types.
Nk(type) == CASE type = "AES128" -> 4 [] type = "AES192" -> 6 [] type = "AES256" -> 8
Nr(type) == Nk(type) + 6

ScheduleLength(type) == 4 * (Nr(type) + 1)

ASSUME AesAssumption ==
  /\ s_box \in [Byte -> Byte] /\ inv_s_box \in [Byte -> Byte]
  /\ \A x \in Byte : inv_s_box[s_box[x]] = x
  /\ \A job \in Jobs :
       /\ job.type \in Types
       /\ job.key \in [0..(Nk(job.type) - 1) -> [0..3 -> Byte]]
       /\ job.block \in [0..15 -> Byte] /\ job.answer \in [0..15 -> Byte]

-----------------------------------------------------------------------------
(***************************************************************************)
(* Arithmetic in GF(2^8): the shift wraps with 0x1B, and a product by a    *)
(* constant adds up shifts.                                                *)
(***************************************************************************)
xtime(x) == XorBits({b + 1 : b \in x \ {7}}, IF 7 \in x THEN {0, 1, 3, 4} ELSE {})

x2(x) == xtime(x)
x4(x) == xtime(xtime(x))
x8(x) == xtime(xtime(xtime(x)))

gf_mult(a, x) ==
  CASE a = 1  -> x
    [] a = 2  -> x2(x)
    [] a = 3  -> XorBits(x2(x), x)
    [] a = 9  -> XorBits(x8(x), x)
    [] a = 11 -> XorBits(XorBits(x8(x), x2(x)), x)
    [] a = 13 -> XorBits(XorBits(x8(x), x4(x)), x)
    [] a = 14 -> XorBits(XorBits(x8(x), x4(x)), x2(x))

mix_coloums_vector     == [n \in 0..3 |-> CASE n = 0 -> 2 [] n = 1 -> 1 [] n = 2 -> 1 [] n = 3 -> 3]
inv_mix_coloums_vector == [n \in 0..3 |-> CASE n = 0 -> 14 [] n = 1 -> 9 [] n = 2 -> 13 [] n = 3 -> 11]

(* Row r of the product of the vector's circulant matrix and a column.     *)
coef_mult(a, col) ==
  [r \in 0..3 |-> XorBits(XorBits(gf_mult(a[r], col[0]), gf_mult(a[(r + 3) % 4], col[1])),
                      XorBits(gf_mult(a[(r + 2) % 4], col[2]), gf_mult(a[(r + 1) % 4], col[3])))]

(***************************************************************************)
(* The state holds the block row by row, byte r of column c at 4r + c: a   *)
(* block is turned on the way in and on the way out.                       *)
(***************************************************************************)
Row(n)   == n \div 4
Col(n)   == n % 4
At(r, c) == 4 * r + c

Turned(st) == [n \in 0..15 |-> st[At(Col(n), Row(n))]]

sub_bytes(st)     == [n \in 0..15 |-> s_box[st[n]]]
inv_sub_bytes(st) == [n \in 0..15 |-> inv_s_box[st[n]]]

shift_rows(st)     == [n \in 0..15 |-> st[At(Row(n), (Col(n) + Row(n)) % 4)]]
inv_shift_rows(st) == [n \in 0..15 |-> st[At(Row(n), (Col(n) + 4 - Row(n)) % 4)]]

Column(st, c) == [r \in 0..3 |-> st[At(r, c)]]

mix_coloums(st, vect) == [n \in 0..15 |-> coef_mult(vect, Column(st, Col(n)))[Row(n)]]

\* The round key is four words of the schedule, one for each column.
add_round_key(r, st, key) == [n \in 0..15 |-> XorBits(st[n], key[At(r, Col(n))][Row(n)])]

-----------------------------------------------------------------------------
VARIABLES
  job,
  aes_pc,
  w,       \* the words of the schedule: n_words of them are there
  n_words,
  state, round,
  block_out,
  trail    \* history: the state after each round of the encryption

aesVars == <<job, aes_pc, w, n_words, state, round, block_out, trail>>

rcon(n) == CASE n = 9 -> {0, 1, 3, 4} [] n = 10 -> {1, 2, 4, 5} [] OTHER -> {n - 1}

SubWord(word) == [n \in 0..3 |-> s_box[word[n]]]
RotWord(word) == [n \in 0..3 |-> word[(n + 1) % 4]]

FirstOfKey(prev, n) == [SubWord(RotWord(prev)) EXCEPT ![0] = XorBits(@, rcon(n \div Nk(job.type)))]

\* Fault: the extra substitution of the longest keys is left out.
TempWithoutSub(prev) ==
  IF n_words % Nk(job.type) = 0 THEN FirstOfKey(prev, n_words) ELSE prev

\* tempa, made from the word before.
Temp(prev) ==
  IF n_words % Nk(job.type) = 0 THEN FirstOfKey(prev, n_words)
  ELSE IF Nk(job.type) > 6 /\ n_words % Nk(job.type) = 4 THEN SubWord(prev)
  ELSE prev

(* _mbcrypt_aes_expand_key, one word. *)
ExpandWord ==
  LET temp == Temp(w[n_words - 1])
      word == [n \in 0..3 |-> XorBits(w[n_words - Nk(job.type)][n], temp[n])]
  IN  /\ aes_pc = "expand" /\ n_words < ScheduleLength(job.type)
      /\ w' = [m \in 0..n_words |-> IF m = n_words THEN word ELSE w[m]]
      /\ n_words' = n_words + 1
      /\ UNCHANGED <<job, aes_pc, state, round, block_out, trail>>

\* What round leaves behind, added to the trail.
Goes(st) == state' = st /\ trail' = [r \in 0..round' |-> IF r = round' THEN st ELSE trail[r]]

BeginEncrypt ==
  /\ aes_pc = "expand" /\ n_words = ScheduleLength(job.type)
  /\ aes_pc' = "encrypt" /\ round' = 0
  /\ Goes(add_round_key(0, Turned(job.block), w))
  /\ UNCHANGED <<job, w, n_words, block_out>>

EncryptRound ==
  /\ aes_pc = "encrypt" /\ round + 1 < Nr(job.type)
  /\ round' = round + 1
  /\ Goes(add_round_key(round + 1,
            mix_coloums(shift_rows(sub_bytes(state)), mix_coloums_vector), w))
  /\ UNCHANGED <<job, aes_pc, w, n_words, block_out>>

EncryptLast ==
  /\ aes_pc = "encrypt" /\ round + 1 = Nr(job.type)
  /\ aes_pc' = "encrypted" /\ round' = round + 1
  /\ Goes(add_round_key(round + 1, shift_rows(sub_bytes(state)), w))
  /\ block_out' = Turned(state')
  /\ UNCHANGED <<job, w, n_words>>

(* The caller decrypts what it got. *)
BeginDecrypt ==
  /\ aes_pc = "encrypted"
  /\ aes_pc' = "decrypt" /\ round' = Nr(job.type) - 1
  /\ state' = add_round_key(Nr(job.type), Turned(block_out), w)
  /\ UNCHANGED <<job, w, n_words, block_out, trail>>

\* Fault: the columns are mixed before the key is added.
Unmixed(st, key) == add_round_key(round, mix_coloums(st, inv_mix_coloums_vector), key)

Unkeyed(st, key) == mix_coloums(add_round_key(round, st, key), inv_mix_coloums_vector)

DecryptRound ==
  /\ aes_pc = "decrypt" /\ round > 0
  /\ state' = Unkeyed(inv_sub_bytes(inv_shift_rows(state)), w)
  /\ round' = round - 1
  /\ UNCHANGED <<job, aes_pc, w, n_words, block_out, trail>>

DecryptLast ==
  /\ aes_pc = "decrypt" /\ round = 0
  /\ aes_pc' = "decrypted"
  /\ state' = add_round_key(0, inv_sub_bytes(inv_shift_rows(state)), w)
  /\ block_out' = Turned(state')
  /\ UNCHANGED <<job, w, n_words, round, trail>>

AesInit ==
  /\ job \in Jobs
  /\ aes_pc = "expand"
  /\ w = job.key /\ n_words = Nk(job.type)
  /\ state = [n \in 0..15 |-> {}] /\ round = 0
  /\ block_out = [n \in 0..15 |-> {}]
  /\ trail = [r \in {} |-> {}]

AesNext ==
  \/ ExpandWord
  \/ BeginEncrypt \/ EncryptRound \/ EncryptLast
  \/ BeginDecrypt \/ DecryptRound \/ DecryptLast

AesSpec == AesInit /\ [][AesNext]_aesVars

-----------------------------------------------------------------------------
AesTypeOK ==
  /\ job \in Jobs
  /\ aes_pc \in {"expand", "encrypt", "encrypted", "decrypt", "decrypted"}
  /\ n_words \in Nk(job.type)..ScheduleLength(job.type)
  /\ w \in [0..(n_words - 1) -> [0..3 -> Byte]]
  /\ state \in [0..15 -> Byte] /\ block_out \in [0..15 -> Byte]
  /\ round \in 0..Nr(job.type)

(***************************************************************************)
(* The cipher is AES: with each type of key the block that comes out is    *)
(* the one of the examples in FIPS 197.                                    *)
(***************************************************************************)
MatchesFips197 == aes_pc = "encrypted" => block_out = job.answer

(***************************************************************************)
(* Decryption goes through the states of the encryption backwards, round   *)
(* for round, and ends with the block that was encrypted.                  *)
(***************************************************************************)
DecryptionRetraces ==
  /\ aes_pc = "decrypt" => inv_sub_bytes(inv_shift_rows(state)) = trail[round]
  /\ aes_pc = "decrypted" => block_out = job.block
=============================================================================
