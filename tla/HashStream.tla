----------------------------- MODULE HashStream -----------------------------
(***************************************************************************)
(* The streaming hashes of mbedCL: src/sha256.c, src/sha1.c and            *)
(* src/sha512.c.  The three files hold the same control: a context with    *)
(* the chaining value, a length counter of two uint32_t and one block of   *)
(* buffered bytes; init, update and final; final feeds the padding and the *)
(* length through update.                                                  *)
(*                                                                         *)
(* update is broken at its memcpy and process calls: BeginUpdate runs up   *)
(* to the while loop, ProcessBlock is one iteration, StoreTail the rest.   *)
(* `caller' says who is in update: the user, or final with one of its two  *)
(* arguments.  The chaining value is the sequence of bytes compressed so   *)
(* far: the compression function is free.                                  *)
(***************************************************************************)
EXTENDS HashPadding

CONSTANTS
  MaxLen,      \* bound: bytes the user gives between two inits
  MaxFinals,   \* bound: calls of final between two inits
  Message,     \* the user's bytes, in the order it gives them
  ChunkSizes   \* the data_len it may pass to update

VARIABLES
  chain,       \* ctx->h0 .. h7
  total,       \* ctx->total[0] and [1]
  buffer,      \* ctx->buffer; buffer[i] is byte i - 1
  data,        \* what is left of update's argument
  left,        \* update's local: bytes of the buffer in use
  msglen,      \* final's local: the encoded length
  caller,      \* who called update
  pc,          \* where the call is
  status,      \* the status of the last call
  out,         \* the digest final wrote last
  stream,      \* history: every byte passed to update since init
  message,     \* history: stream when the last final was called
  fed,         \* bytes of Message given since init
  finals       \* calls of final since init

ctx    == <<chain, total, buffer>>
locals == <<data, left, msglen>>
vars   == <<ctx, locals, caller, pc, status, out, stream, message, fed, finals>>

\* The abstract state: while final runs, its padding is not a message yet.
Absorbed == IF caller = "user" THEN stream ELSE message

Hash == INSTANCE HashFunction WITH message <- Absorbed, digest <- out

ASSUME UserAssumption ==
  /\ MaxLen \in Nat /\ MaxFinals \in Nat
  /\ Message \in [1..MaxLen -> Byte]
  /\ ChunkSizes \subseteq 0..(WordMod - 1)   \* data_len is a uint32_t
-----------------------------------------------------------------------------
ZeroBlock == [i \in 1..BlockSize |-> 0]

\* memcpy(b + at, src, Len(src)), which must stay inside the buffer.
MemCpy(b, at, src) ==
  [i \in 1..BlockSize |-> IF i \in (at + 1)..(at + Len(src)) THEN src[i - at] ELSE b[i]]

\* The compression of one block, whatever it computes.
Process(c, block) == c \o block

\* Fault: the carry is tested with <=, so a low word of len carries too.
CountCarriesEqual(t, len) ==
  LET low == (t[0] + len) % WordMod
  IN  [t EXCEPT ![0] = low, ![1] = IF low <= len THEN (@ + 1) % WordMod ELSE @]

\* Fault: the low word is wider than the 32 bits the code masks it to.
CountUnmasked(t, len) == [t EXCEPT ![0] = @ + len]

\* The counter after len more bytes: two words with a carry.
Count(t, len) ==
  LET low == (t[0] + len) % WordMod
  IN  [t EXCEPT ![0] = low, ![1] = IF low < len THEN (@ + 1) % WordMod ELSE @]

Drop(s, n) == SubSeq(s, n + 1, Len(s))
Take(s, n) == SubSeq(s, 1, n)

\* Fault: the high word of the counter is left out of the length.
EncodedHighOfLow(t) == t[0] \div (WordMod \div 8)

\* The length of the message in bits as final encodes it, of the counter t.
EncodedHigh(t) == (t[0] \div (WordMod \div 8)) + ((t[1] * 8) % WordMod)
EncodedLow(t)  == (t[0] * 8) % WordMod

(***************************************************************************)
(* sha512.c shifts a uint32_t by 61: undefined, and the builds give either *)
(* the shift by 29 or zero; and it shifts total[0] left in 32 bits.        *)
(***************************************************************************)
MsgLens(t) ==
  IF Wide
  THEN {   PutUint32BE(0) \o PutUint32BE(high)
        \o PutUint32BE(0) \o PutUint32BE(EncodedLow(t)) :
          high \in {EncodedHigh(t), (t[1] * 8) % WordMod}}
  ELSE {PutUint32BE(EncodedHigh(t)) \o PutUint32BE(EncodedLow(t))}

\* Fault: <= lets a message that ends at the length field go without padding.
PadNOffByOne(t) ==
  LET last == t[0] % BlockSize
      room == BlockSize - LenSize
  IN  IF last <= room THEN room - last ELSE BlockSize + room - last

\* Bytes of the padding array final passes to update.
PadN(t) ==
  LET last == t[0] % BlockSize
      room == BlockSize - LenSize
  IN  IF last < room THEN room - last ELSE BlockSize + room - last
-----------------------------------------------------------------------------
Init ==
  /\ chain = <<>> /\ total = [w \in 0..1 |-> 0] /\ buffer = ZeroBlock
  /\ data = <<>> /\ left = 0 /\ msglen = <<>>
  /\ caller = "user" /\ pc = "idle" /\ status = "OK" /\ out = <<>>
  /\ stream = <<>> /\ message = <<>> /\ fed = 0 /\ finals = 0

\* Fault: init forgets the counter of an abandoned message.
HashInitKeepsTotal ==
  /\ pc = "idle"
  /\ chain' = <<>> /\ buffer' = ZeroBlock
  /\ stream' = <<>> /\ fed' = 0 /\ finals' = 0 /\ status' = "OK"
  /\ UNCHANGED <<total, locals, caller, pc, out, message>>

(***************************************************************************)
(* init: the whole context is zeroed and the initial value is stored.      *)
(***************************************************************************)
HashInit ==
  /\ pc = "idle"
  /\ chain' = <<>> /\ total' = [w \in 0..1 |-> 0] /\ buffer' = ZeroBlock
  /\ stream' = <<>> /\ fed' = 0 /\ finals' = 0 /\ status' = "OK"
  /\ UNCHANGED <<locals, caller, pc, out, message>>

\* Fault: > where >= is meant, so that a block that is just full stays.
BeginUpdateStrict(d) ==
  LET held == total[0] % BlockSize
      fill == BlockSize - held
  IN  /\ total' = Count(total, Len(d))
      /\ stream' = stream \o d
      /\ pc' = "update"
      /\ IF held # 0 /\ Len(d) > fill
         THEN /\ buffer' = MemCpy(buffer, held, Take(d, fill))
              /\ chain' = Process(chain, buffer')
              /\ data' = Drop(d, fill)
              /\ left' = 0
         ELSE /\ data' = d
              /\ left' = held
              /\ UNCHANGED <<buffer, chain>>

(***************************************************************************)
(* update with the bytes d, down to its while loop: the counter, and the   *)
(* buffered block when d completes it.  No bytes, no effect.               *)
(***************************************************************************)
BeginUpdate(d) ==
  LET held == total[0] % BlockSize
      fill == BlockSize - held
  IN  /\ total' = Count(total, Len(d))
      /\ stream' = stream \o d
      /\ pc' = "update"
      /\ IF held # 0 /\ Len(d) >= fill
         THEN /\ buffer' = MemCpy(buffer, held, Take(d, fill))
              /\ chain' = Process(chain, buffer')
              /\ data' = Drop(d, fill)
              /\ left' = 0
         ELSE /\ data' = d
              /\ left' = held
              /\ UNCHANGED <<buffer, chain>>

Update(n) ==
  /\ pc = "idle" /\ fed + n <= MaxLen
  /\ fed' = fed + n /\ status' = "OK"
  /\ IF n = 0
     THEN UNCHANGED <<ctx, data, left, stream, pc>>
     ELSE BeginUpdate([i \in 1..n |-> Message[fed + i]])
  /\ UNCHANGED <<msglen, caller, out, message, finals>>

\* NULL arguments are refused before anything is touched.
RejectNull ==
  /\ pc = "idle"
  /\ status' = "NULL_PTR"
  /\ UNCHANGED <<ctx, locals, caller, pc, out, stream, message, fed, finals>>

\* Fault: the loop does not consume the block it compressed.
ProcessBlockStuck ==
  /\ pc = "update" /\ Len(data) >= BlockSize
  /\ UNCHANGED vars

\* Fault: the pointer to the data is not moved on.
ProcessBlockAgain ==
  /\ pc = "update" /\ Len(data) >= BlockSize
  /\ chain' = Process(chain, Take(data, BlockSize))
  /\ UNCHANGED <<total, buffer, locals, caller, pc, status, out, stream, message, fed, finals>>

ProcessBlock ==
  /\ pc = "update" /\ Len(data) >= BlockSize
  /\ chain' = Process(chain, Take(data, BlockSize))
  /\ data' = Drop(data, BlockSize)
  /\ UNCHANGED <<total, buffer, left, msglen, caller, pc, status, out, stream, message, fed, finals>>

\* Fault: the tail is copied to the start of the buffer.
StoreTailAtStart ==
  /\ pc = "update" /\ Len(data) < BlockSize
  /\ buffer' = MemCpy(buffer, 0, data)
  /\ data' = <<>> /\ left' = 0
  /\ pc' = IF caller = "user" THEN "idle" ELSE "final"
  /\ UNCHANGED <<chain, total, msglen, caller, status, out, stream, message, fed, finals>>

StoreTail ==
  /\ pc = "update" /\ Len(data) < BlockSize
  /\ buffer' = MemCpy(buffer, left, data)
  /\ data' = <<>> /\ left' = 0
  /\ pc' = IF caller = "user" THEN "idle" ELSE "final"
  /\ UNCHANGED <<chain, total, msglen, caller, status, out, stream, message, fed, finals>>

(***************************************************************************)
(* final: the length is encoded before the padding changes the counter.    *)
(***************************************************************************)
FinalPadding ==
  /\ pc = "idle" /\ finals < MaxFinals
  /\ msglen' \in MsgLens(total)
  /\ message' = stream
  /\ finals' = finals + 1 /\ status' = "OK"
  /\ caller' = "padding"
  /\ BeginUpdate(Padding(PadN(total)))
  /\ UNCHANGED <<out, fed>>

FinalLength ==
  /\ pc = "final" /\ caller = "padding"
  /\ caller' = "msglen"
  /\ BeginUpdate(msglen)
  /\ UNCHANGED <<msglen, status, out, message, fed, finals>>

FinalOutput ==
  /\ pc = "final" /\ caller = "msglen"
  /\ out' = chain
  /\ caller' = "user" /\ pc' = "idle" /\ msglen' = <<>>
  /\ UNCHANGED <<ctx, data, left, status, stream, message, fed, finals>>

Next ==
  \/ HashInit
  \/ \E n \in ChunkSizes : Update(n)
  \/ RejectNull
  \/ ProcessBlock
  \/ StoreTail
  \/ FinalPadding
  \/ FinalLength
  \/ FinalOutput

Spec == Init /\ [][Next]_vars

FairSpec == Spec /\ WF_vars(ProcessBlock \/ StoreTail \/ FinalLength \/ FinalOutput)
-----------------------------------------------------------------------------
TypeOK ==
  /\ chain \in Seq(Byte)
  /\ total \in [0..1 -> 0..(WordMod - 1)]
  /\ buffer \in [1..BlockSize -> Byte]
  /\ data \in Seq(Byte) /\ left \in 0..(BlockSize - 1)
  /\ msglen \in Seq(Byte)
  /\ caller \in {"user", "padding", "msglen"}
  /\ pc \in {"idle", "update", "final"}
  /\ status \in {"OK", "NULL_PTR"}
  /\ out \in Seq(Byte)
  /\ stream \in Seq(Byte) /\ message \in Seq(Byte)
  /\ fed \in 0..MaxLen /\ finals \in 0..MaxFinals

\* Bytes of the buffer that belong to the stream.
Held == IF pc = "update" THEN left ELSE total[0] % BlockSize

(***************************************************************************)
(* No byte is lost, repeated or moved however the message is cut (update,  *)
(* sha256.c:289-322): the bytes compressed, then those held in the buffer, *)
(* then those still to be taken from the argument are the stream.          *)
(***************************************************************************)
StreamIsKept ==
  stream = (chain \o Take(buffer, Held)) \o data

(***************************************************************************)
(* Whole blocks are compressed, and no copy leaves the buffer: what is     *)
(* held and what is left of the argument agree with the counter.  When     *)
(* final is done the padded message has been compressed to its last byte.  *)
(***************************************************************************)
BlockDiscipline ==
  /\ Len(chain) % BlockSize = 0
  /\ pc = "update" => /\ left > 0 => left + Len(data) < BlockSize
                      /\ (left + Len(data)) % BlockSize = total[0] % BlockSize
  /\ caller = "msglen" /\ pc = "final" => Held = 0

(***************************************************************************)
(* The two words count the stream, modulo what they can hold, whatever the *)
(* sizes of the updates: the carry is exact (sha256.c:292-298).            *)
(***************************************************************************)
CounterIsExact ==
  /\ total[0] = Len(stream) % WordMod
  /\ total[1] = (Len(stream) \div WordMod) % WordMod

(***************************************************************************)
(* The length final appends is the length of the message it was called on, *)
(* not of the message and its padding (sha256.c:350-358).                  *)
(***************************************************************************)
LengthIsEncoded ==
  caller # "user" => msglen = LengthField(Len(message))

(***************************************************************************)
(* When final returns, what was compressed is the padded message: the      *)
(* digest covers the whole of it (sha256.c:350-370).                       *)
(***************************************************************************)
DigestIsComplete ==
  caller = "msglen" /\ pc = "final" => chain = Padded(message)

(***************************************************************************)
(* SHA-512 too hashes the padded message, whatever its shifts give, as     *)
(* long as the bits of the message can be counted in one word: below 2^29  *)
(* bytes the words that sha512.c:342-348 puts in the wrong place are zero. *)
(***************************************************************************)
Countable(n) == Wide => 8 * n < WordMod

ShortDigestIsComplete ==
  Countable(Len(message)) => LengthIsEncoded /\ DigestIsComplete

\* Every step of the streaming hash is a step of the abstract hash, or none.
ImplementsHash == Hash!Spec

(***************************************************************************)
(* A call of update or final that began ends: no data_len and no padding   *)
(* keeps the loop of sha256.c:311-316 running.  The code is sequential, so *)
(* the caller's thread takes the next step of the call.                    *)
(***************************************************************************)
CallsReturn == pc # "idle" ~> pc = "idle"

\* Calls of update that final has still to make or to leave.
Stage == (IF caller = "padding" THEN 2 ELSE 0) + (IF caller # "user" /\ pc = "update" THEN 1 ELSE 0)

(***************************************************************************)
(* Why it returns: each step of a call ends it, takes final to its next    *)
(* step, or leaves less of the argument (sha256.c:311-316).                *)
(***************************************************************************)
CallsAdvance ==
  [][pc # "idle" /\ pc' # "idle" =>
       Stage' < Stage \/ (Stage' = Stage /\ Len(data') < Len(data))]_vars
=============================================================================
