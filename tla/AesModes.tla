------------------------------ MODULE AesModes ------------------------------
(***************************************************************************)
(* mbcrypt_aes_encrypt of src/src/aes.c: the life of the key schedule and  *)
(* the modes ECB, CBC, OFB, CFB and CTR block by block.  The block cipher, *)
(* of AesCipher, is free.  XTS does not compile and is left out.           *)
(*                                                                         *)
(* The padding loops of ECB and CBC also write the byte behind buf.  What  *)
(* lies there the build decides: the model shows the byte and goes on as   *)
(* if nothing of the call were kept in it.                                 *)
(***************************************************************************)
EXTENDS Powers

CONSTANTS
  BLOCK_SIZE,           \* 16
  ByteValues,           \* 256
  EncryptBlock(_, _),   \* of a schedule and a block
  XorByte(_, _),
  Calls,                \* type, expansion, key_fits, mode, iv, data, data_len,
                        \* in_place, and beyond: what lies behind buf
  Capacity              \* of the output buffer

Positions == 0..(BLOCK_SIZE - 1)
Blocks    == [Positions -> 0..(ByteValues - 1)]

\* A byte holds the length of the padding, and the output buffer what is put out.
ASSUME ModesAssumption ==
  /\ {BLOCK_SIZE, ByteValues} \subseteq Nat \ {0} /\ BLOCK_SIZE < ByteValues
  /\ Capacity \in Nat
  /\ \A x, y \in 0..(ByteValues - 1) : XorByte(x, y) \in 0..(ByteValues - 1)
  /\ \A c \in Calls :
       /\ c.iv \in Blocks /\ c.beyond \in 0..(ByteValues - 1) /\ c.in_place \in BOOLEAN /\ c.key_fits \in BOOLEAN
       /\ c.data_len \in 0..Capacity
       /\ c.data_len % BLOCK_SIZE # 0 =>
            (c.data_len \div BLOCK_SIZE + 1) * BLOCK_SIZE <= Capacity
       /\ c.data \in [0..(c.data_len - 1) -> 0..(ByteValues - 1)]
       /\ \A x \in Blocks : EncryptBlock(<<c.type, c.expansion>>, x) \in Blocks

KeyTypes    == {"AES128", "AES192", "AES256"}
StreamModes == {"OFB", "CFB", "CTR"}
Modes       == {"ECB", "CBC"} \cup StreamModes

Untouched == -1

VARIABLES
  call,
  step,       \* of mbcrypt_aes_encrypt
  status,
  schedule,   \* where w points: unset, NULL, raw memory or the words of a key
  buf,
  beyond,     \* the byte of memory behind buf
  output,     \* the output buffer, which holds the data if the call is in place
  blocks      \* the full blocks done

modesVars == <<call, step, status, schedule, buf, beyond, output, blocks>>

full_blocks == call.data_len \div BLOCK_SIZE
left_data   == call.data_len % BLOCK_SIZE

XorBlock(x, y) == [n \in Positions |-> XorByte(x[n], y[n])]

FirstOut(c) == [n \in 0..(Capacity - 1) |->
  IF c.in_place /\ n < c.data_len THEN c.data[n] ELSE Untouched]

Source(n) == IF call.in_place THEN output[n] ELSE call.data[n]

ModesInit ==
  /\ call \in Calls
  /\ step = "init" /\ status = "OK" /\ schedule = "unset"
  /\ buf = [n \in Positions |-> 0] /\ beyond = call.beyond
  /\ output = FirstOut(call)
  /\ blocks = 0

-----------------------------------------------------------------------------
(***************************************************************************)
(* The key schedule.                                                       *)
(***************************************************************************)
Fail == step' = "exit" /\ status' = "FAIL"

key_init ==
  /\ step = "init"
  /\ \/ call.type \notin KeyTypes /\ Fail /\ UNCHANGED schedule
     \/ call.type \in KeyTypes /\ Fail /\ schedule' = "NULL"
     \/ /\ call.type \in KeyTypes
        /\ step' = "expand" /\ schedule' = "raw" /\ UNCHANGED status
  /\ UNCHANGED <<call, buf, beyond, output, blocks>>

Refused ==
  \/ call.expansion = "SHA1" /\ call.type # "AES128"
  \/ call.expansion = "NOT_REQUIRED" /\ ~call.key_fits
  \/ call.expansion \notin {"SHA1", "SHA256", "SHA512", "NOT_REQUIRED"}

key_expand ==
  /\ step = "expand"
  /\ \/ Refused /\ Fail /\ UNCHANGED <<schedule, buf>>
     \/ /\ ~Refused
        /\ schedule' = "keyed"
        /\ buf' = IF call.mode \in Modes \ {"ECB"} THEN call.iv ELSE buf
        /\ step' = IF call.mode \in Modes THEN "blocks" ELSE "exit"
        /\ UNCHANGED status
  /\ UNCHANGED <<call, beyond, output, blocks>>

\* Fault: only a call that succeeds gives the schedule back.
FreeOnSuccess ==
  /\ step = "exit"
  /\ IF schedule = "unset" THEN step' \in {"done", "undefined"} ELSE step' = "done"
  /\ schedule' = IF status = "OK" THEN "freed" ELSE schedule
  /\ UNCHANGED <<call, status, buf, beyond, output, blocks>>

(* key_free.  When key_init refused the type, w was never set: what is     *)
(* there by chance is freed unless it is NULL.                             *)
key_free ==
  /\ step = "exit"
  /\ IF schedule = "unset" THEN step' \in {"done", "undefined"} ELSE step' = "done"
  /\ schedule' = IF schedule \in {"raw", "keyed"} THEN "freed" ELSE schedule
  /\ UNCHANGED <<call, status, buf, beyond, output, blocks>>

-----------------------------------------------------------------------------
(***************************************************************************)
(* The modes.                                                              *)
(***************************************************************************)
Key == <<call.type, call.expansion>>
E(block) == EncryptBlock(Key, block)

Data == [n \in Positions |-> Source(blocks * BLOCK_SIZE + n)]

\* The first len bytes of block go to the output.
PutOut(block, len) == output' = [n \in DOMAIN output |->
  LET m == n - blocks * BLOCK_SIZE IN IF m \in 0..(len - 1) THEN block[m] ELSE output[n]]

\* Fault: the carry of the counter is lost.
IncrementedLast(block) == [block EXCEPT ![BLOCK_SIZE - 1] = (@ + 1) % ByteValues]

\* The counter is big-endian, and wraps as a whole.
Incremented(block) == [n \in Positions |->
  IF \A m \in (n + 1)..(BLOCK_SIZE - 1) : block[m] = ByteValues - 1
  THEN (block[n] + 1) % ByteValues ELSE block[n]]

ChainedBlock ==
  LET x == IF call.mode = "CBC" THEN XorBlock(Data, buf) ELSE Data
  IN  /\ call.mode \in {"ECB", "CBC"}
      /\ PutOut(E(x), BLOCK_SIZE)
      /\ buf' = IF call.mode = "CBC" THEN E(x) ELSE buf

(* The key stream is written to the output before the data is read.        *)
StreamBlock ==
  LET read == IF call.in_place THEN E(buf) ELSE Data
      x    == XorBlock(E(buf), read)
  IN  /\ call.mode \in StreamModes
      /\ PutOut(x, BLOCK_SIZE)
      /\ buf' = CASE call.mode = "OFB" -> E(buf)
                  [] call.mode = "CFB" -> x
                  [] call.mode = "CTR" -> Incremented(buf)

FullBlock ==
  /\ step = "blocks" /\ blocks < full_blocks
  /\ ChainedBlock \/ StreamBlock
  /\ blocks' = blocks + 1
  /\ UNCHANGED <<call, step, status, schedule, beyond>>

\* The rest of the data, followed by the number of bytes that are missing.
Padded(rest) == [n \in Positions |-> IF n < left_data THEN rest[n] ELSE BLOCK_SIZE - left_data]

Rest == [n \in 0..(left_data - 1) |-> Source(blocks * BLOCK_SIZE + n)]

\* Fault: the tail is encrypted in the output buffer.
TailInPlace ==
  /\ call.mode \in StreamModes
  /\ PutOut([n \in Positions |-> IF n < left_data THEN XorByte(E(buf)[n], Rest[n])
                                 ELSE E(buf)[n]], BLOCK_SIZE)
  /\ UNCHANGED beyond

StreamTail ==
  /\ call.mode \in StreamModes
  /\ PutOut([n \in 0..(left_data - 1) |-> XorByte(E(buf)[n], Rest[n])], left_data)
  /\ UNCHANGED beyond

(* The loop that pads runs to i <= BLOCK_SIZE, one byte behind buf.         *)
PaddedTail ==
  LET x   == IF call.mode = "CBC" THEN XorBlock(Padded(Rest), buf) ELSE Padded(Rest)
      pad == BLOCK_SIZE - left_data
  IN  /\ call.mode \in {"ECB", "CBC"}
      /\ PutOut(E(x), BLOCK_SIZE)
      /\ beyond' = IF call.mode = "CBC" THEN XorByte(beyond, pad) ELSE pad

LastBlock ==
  /\ step = "blocks" /\ blocks = full_blocks
  /\ IF left_data = 0 THEN UNCHANGED <<output, beyond>> ELSE PaddedTail \/ StreamTail
  /\ step' = "exit"
  /\ UNCHANGED <<call, status, schedule, buf, blocks>>

ModesNext == key_init \/ key_expand \/ FullBlock \/ LastBlock \/ key_free

ModesSpec == ModesInit /\ [][ModesNext]_modesVars

-----------------------------------------------------------------------------
(***************************************************************************)
(* The modes as NIST SP 800-38A defines them, for a call c.  A partial     *)
(* last block is padded in ECB and CBC and cut short in the rest.          *)
(***************************************************************************)
Enc(c, block) == EncryptBlock(<<c.type, c.expansion>>, block)

Plain(c, n) == [m \in Positions |->
  LET at_byte == n * BLOCK_SIZE + m
  IN  IF at_byte < c.data_len THEN c.data[at_byte] ELSE BLOCK_SIZE - (c.data_len % BLOCK_SIZE)]

\* The block fed forward behind block n, from the one fed to it.
FeedForward(c, n, block) ==
  CASE c.mode = "CBC" -> Enc(c, XorBlock(Plain(c, n), block))
    [] c.mode = "CFB" -> XorBlock(Enc(c, block), Plain(c, n))
    [] OTHER          -> Enc(c, block)

Fed(c) == LET F[n \in Nat] == IF n = 0 THEN c.iv ELSE FeedForward(c, n - 1, F[n - 1]) IN F

\* A block as a number, most significant byte first.
ToNumber(block) ==
  LET N[n \in 0..BLOCK_SIZE] == IF n = 0 THEN 0 ELSE ByteValues * N[n - 1] + block[n - 1]
  IN  N[BLOCK_SIZE]

Counter(c, n) ==
  [m \in Positions |-> Digit(ByteValues, ToNumber(c.iv) + n, BLOCK_SIZE - 1 - m)]

Cipher(c, n) ==
  CASE c.mode = "ECB"          -> Enc(c, Plain(c, n))
    [] c.mode \in {"CBC", "CFB"} -> Fed(c)[n + 1]
    [] c.mode = "OFB"          -> XorBlock(Enc(c, Fed(c)[n]), Plain(c, n))
    [] c.mode = "CTR"          -> XorBlock(Enc(c, Counter(c, n)), Plain(c, n))

OutLen ==
  IF call.mode \in StreamModes \/ left_data = 0 THEN call.data_len
  ELSE (full_blocks + 1) * BLOCK_SIZE

(***************************************************************************)
(* The chaining, the carry of the counter and the tails are those of the   *)
(* standard for data of any length.  In place this holds for ECB and CBC,  *)
(* and for the others only if there is no full block.                      *)
(***************************************************************************)
SafeInPlace == call.mode \in {"ECB", "CBC"} \/ full_blocks = 0

ModeIsStandard ==
  (step = "done" /\ status = "OK" /\ call.mode \in Modes /\ (call.in_place => SafeInPlace)) =>
    \A n \in 0..(OutLen - 1) : output[n] = Cipher(call, n \div BLOCK_SIZE)[n % BLOCK_SIZE]

(***************************************************************************)
(* What a call changes: its output, up to a block more than the data, once *)
(* a schedule is there and the mode is one of the five; and the byte       *)
(* behind buf, in ECB and CBC when the data end within a block.            *)
(***************************************************************************)
OnlyOutputIsWritten ==
  /\ \A n \in DOMAIN output : output[n] # FirstOut(call)[n] =>
       status = "OK" /\ call.mode \in Modes /\ n < OutLen
  /\ beyond # call.beyond =>
       status = "OK" /\ call.mode \in {"ECB", "CBC"} /\ left_data # 0

(***************************************************************************)
(* Every way through the call gives the memory of the schedule back, no    *)
(* block is encrypted before the schedule is there, and memory that was    *)
(* never allocated is freed only for a type that is not supported.         *)
(***************************************************************************)
ScheduleIsFreed ==
  /\ step = "done" => schedule \notin {"raw", "keyed"}
  /\ step = "blocks" => schedule = "keyed"
  /\ step = "undefined" => call.type \notin KeyTypes
=============================================================================
