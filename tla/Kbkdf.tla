-------------------------------- MODULE Kbkdf -------------------------------
(***************************************************************************)
(* src/kbkdf.c: the key derivation of NIST SP 800-108 over the user's HMAC *)
(* callbacks, in counter, feedback and double pipeline mode.  A block is   *)
(* the sequence of callbacks its loop body makes (`todo'); the assignments *)
(* between two callbacks belong to the step of the first.                  *)
(*                                                                         *)
(* The PRF is free: a block is the sequence of bits, and of earlier        *)
(* blocks, it was computed from.  Bits and bytes are real, since what is   *)
(* easy to get wrong is where the counter goes, which is counted in bits.  *)
(***************************************************************************)
EXTENDS Powers, Sequences

CONSTANTS
  ByteBits,    \* bits of a byte                                    (8)
  HmacSize,    \* hmac_size, bytes of a block                       (20..64)
  Fixed,       \* the bytes of fixed_input, of which a call uses a prefix
  Requests,    \* the calls: mode, key_out_len, fixed_input_len,
               \* iv_in_len, ctr_rlen, ctr_rpos
  MaxCalls,    \* bound: calls in a behaviour
  MaxFaults    \* bound: callbacks that fail

VARIABLES
  req,      \* the arguments of the call
  i,        \* the number of the block
  todo,     \* the callbacks of the block that are still to make
  prf,      \* hmac_ctx: what the HMAC has absorbed since its init
  A,        \* double pipeline: A_i_1, then A_i
  prev,     \* feedback: k_i_1
  out,      \* the blocks in key_out, and how many bits of each
  status,   \* mbcrypt_ret
  calls, faults

vars == <<req, i, todo, prf, A, prev, out, status, calls, faults>>

ByteMod == Power(2, ByteBits)
Byte    == 0..(ByteMod - 1)
RLEN    == 4
Modes   == {"counter", "feedback", "pipeline"}
IV      == <<"iv">>

Request == [mode : Modes, bits : Nat, fixed : 0..Len(Fixed), iv : 0..1,
            rlen : 0..(RLEN + 1), rpos : Int]

ASSUME KbkdfAssumption ==
  /\ ByteBits \in Nat \ {0, 1} /\ HmacSize \in Nat \ {0}
  /\ Fixed \in Seq(Byte)
  /\ Requests \subseteq Request
  /\ MaxCalls \in Nat /\ MaxFaults \in Nat
-----------------------------------------------------------------------------
Bits(bytes) ==
  [n \in 1..(ByteBits * Len(bytes)) |->
     LET byte == bytes[((n - 1) \div ByteBits) + 1]
         down == (ByteBits - 1) - ((n - 1) % ByteBits)
     IN  <<"bit", Digit(2, byte, down)>>]

\* Fault: the bytes are those at the start of ctr[].
CtrFromStart(n, rlen) == [k \in 1..rlen |-> Digit(ByteMod, n, RLEN - k)]

\* The block number, most significant byte first, in the last rlen bytes.
Ctr(n, rlen) == [k \in 1..rlen |-> Digit(ByteMod, n, rlen - k)]

Take(s, n) == SubSeq(s, 1, n)
After(s, n) == SubSeq(s, n + 1, Len(s))

Prf(input) == <<<<"prf", input>>>>

(***************************************************************************)
(* SP 800-108 with the options of kbkdf.h: the counter of rlen bytes stands *)
(* at bit rpos of the fixed input, or before the chained value when rpos   *)
(* is -1.                                                                  *)
(***************************************************************************)
FixedBits(r) == Bits(Take(Fixed, r.fixed))

Input(r, n, chained) ==
  LET c == Bits(Ctr(n, r.rlen))
      p == IF r.rpos < 0 THEN 0 ELSE r.rpos
      numbered == Take(FixedBits(r), p) \o c \o After(FixedBits(r), p)
  IN  IF r.rpos < 0 THEN c \o chained \o FixedBits(r) ELSE chained \o numbered

\* A(n) of the double pipeline, and K(n) of the mode.
Chain(r) ==
  LET C[n \in Nat] ==
        IF n = 0 THEN [A |-> FixedBits(r), K |-> IF r.iv > 0 THEN <<IV>> ELSE <<>>]
        ELSE LET a == Prf(C[n - 1].A)
             IN  [A |-> a,
                  K |-> Prf(Input(r, n, CASE r.mode = "counter"  -> <<>>
                                          [] r.mode = "feedback" -> C[n - 1].K
                                          [] r.mode = "pipeline" -> a))]
  IN  C

DerivedKey(r) ==
  LET size == ByteBits * HmacSize
      rest == r.bits % size
      count == (r.bits \div size) + (IF rest = 0 THEN 0 ELSE 1)
  IN  [n \in 1..count |->
         [block |-> Chain(r)[n].K[1],
          bits  |-> IF n = count /\ rest # 0 THEN rest ELSE size]]
-----------------------------------------------------------------------------
(***************************************************************************)
(* The helpers of kbkdf.c.                                                 *)
(***************************************************************************)
BIT_MASK_LEFT(byte, n)  == (byte \div Power(2, ByteBits - n)) * Power(2, ByteBits - n)
BIT_MASK_RIGHT(byte, n) == byte % Power(2, n)

\* Fault: the carry of the first byte is not taken over.
ShiftWithoutCarry(array, shift, carry) ==
  [k \in 1..Len(array) |->
     (array[k] \div Power(2, shift))
       + (IF k = 1 THEN 0 ELSE (array[k - 1] * Power(2, ByteBits - shift)) % ByteMod)]

\* The array shifted right, each byte taking the bits of the one before it.
ShiftArrayRight(array, shift, carry) ==
  [k \in 1..Len(array) |->
     (array[k] \div Power(2, shift))
       + (IF k = 1 THEN carry ELSE (array[k - 1] * Power(2, ByteBits - shift)) % ByteMod)]

\* The counter, between the bits of the byte of fixed input it splits.
Splice(ctr, byte, m) ==
  LET shifted == ShiftArrayRight(Append(ctr, 0), m, BIT_MASK_LEFT(byte, m))
      last == Len(shifted)
  IN  [shifted EXCEPT ![last] = @ + BIT_MASK_RIGHT(byte, ByteBits - m)]

Modulo(r)     == IF r.bits % ByteBits > 1 THEN 1 ELSE 0
OutBytes(r)   == (r.bits \div ByteBits) + Modulo(r)
FullBlocks(r) == OutBytes(r) \div HmacSize
Leftover(r)   == OutBytes(r) % HmacSize
-----------------------------------------------------------------------------
(***************************************************************************)
(* The callbacks of block n, in order.  An update names its bytes, the     *)
(* chained value k_i_1, or A_i.                                            *)
(***************************************************************************)
InitStep       == <<<<"init">>>>
Update(bytes)  == <<<<"update", "bytes", bytes>>>>
UpdatePrev     == <<<<"update", "prev">>>>
UpdateA        == <<<<"update", "A">>>>
FinalA         == <<<<"final", "A">>>>
FinalKey       == <<<<"final", "key">>>>
When(cond, s)  == IF cond THEN s ELSE <<>>

CounterBlock(r, n) ==
  LET m == r.rpos % ByteBits
      p == r.rpos \div ByteBits
      p_fixed == p + (IF m > 0 THEN 1 ELSE 0)
      ctr == Ctr(n, r.rlen)
      fixed == Take(Fixed, r.fixed)
  IN  InitStep
      \o When(p > 0, Update(Take(fixed, p)))
      \o When(r.rlen > 0, Update(IF m > 0 THEN Splice(ctr, fixed[p + 1], m) ELSE ctr))
      \o When(p_fixed # r.fixed, Update(After(fixed, p_fixed)))
      \o FinalKey

\* The fixed input with the counter in it, for the two other modes: the
\* position in bits is compared with the length in bytes.
FixedAndCounter(r, n) ==
  LET p == r.rpos \div ByteBits
      fixed == Take(Fixed, r.fixed)
  IN  IF r.rpos > 0 /\ r.rlen > 0
      THEN Update(Take(fixed, p)) \o Update(Ctr(n, r.rlen))
           \o When(r.rpos # r.fixed, Update(After(fixed, p)))
      ELSE Update(fixed)

CounterAt(r, n, pos) == When(r.rpos = pos /\ r.rlen > 0, Update(Ctr(n, r.rlen)))

FeedbackBlock(r, n) ==
  InitStep
  \o CounterAt(r, n, -1)
  \o When(n > 1 \/ r.iv > 0, UpdatePrev)
  \o CounterAt(r, n, 0)
  \o FixedAndCounter(r, n)
  \o FinalKey

(***************************************************************************)
(* The last, incomplete block of the double pipeline returns after its     *)
(* first update: the braces that follow it hold an unconditional goto.     *)
(***************************************************************************)
PipelineBlock(r, n) ==
  IF n > FullBlocks(r)
  THEN InitStep \o UpdateA
  ELSE InitStep \o UpdateA \o FinalA
       \o InitStep \o UpdateA
       \o CounterAt(r, n, -1) \o CounterAt(r, n, 0)
       \o FixedAndCounter(r, n)
       \o FinalKey

BlockSteps(r, n) ==
  CASE r.mode = "counter"  -> CounterBlock(r, n)
    [] r.mode = "feedback" -> FeedbackBlock(r, n)
    [] r.mode = "pipeline" -> PipelineBlock(r, n)

BlockCount(r) == FullBlocks(r) + (IF Leftover(r) > 0 THEN 1 ELSE 0)

\* The bits of block n that stay in key_out: all, what memcpy takes of the
\* incomplete block, and what the mask leaves of the last byte.
OutBits(r, n) ==
  LET bytes == IF n <= FullBlocks(r) THEN HmacSize ELSE Leftover(r)
      masked == n = BlockCount(r) /\ Modulo(r) = 1
  IN  IF masked THEN ByteBits * (bytes - 1) + (r.bits % ByteBits) ELSE ByteBits * bytes
-----------------------------------------------------------------------------
NoRequest == [mode |-> "counter", bits |-> 0, fixed |-> 0, iv |-> 0, rlen |-> 0, rpos |-> 0]

Init ==
  /\ req = NoRequest /\ i = 0 /\ todo = <<>> /\ prf = <<>> /\ A = <<>> /\ prev = <<>>
  /\ out = <<>> /\ status = "OK" /\ calls = 0 /\ faults = 0

idle == todo = <<>>

Call(r) ==
  /\ idle /\ calls < MaxCalls
  /\ calls' = calls + 1
  /\ req' = r /\ out' = <<>>
  /\ A' = FixedBits(r)
  /\ prev' = IF r.iv > 0 THEN <<IV>> ELSE <<>>
  /\ IF r.rlen > RLEN
     THEN status' = "FAIL" /\ i' = 0 /\ todo' = <<>>
     ELSE /\ status' = "OK" /\ i' = 1
          /\ todo' = IF BlockCount(r) = 0 THEN <<>> ELSE BlockSteps(r, 1)
  /\ UNCHANGED <<prf, faults>>

HmacInit ==
  /\ ~idle /\ Head(todo) = <<"init">>
  /\ prf' = <<>>
  /\ todo' = Tail(todo)
  /\ UNCHANGED <<req, i, A, prev, out, status, calls, faults>>

\* What the update at the head of todo gives the HMAC.
Absorbed ==
  CASE Head(todo)[2] = "bytes" -> Bits(Head(todo)[3])
    [] Head(todo)[2] = "prev"  -> prev
    [] Head(todo)[2] = "A"     -> A

HmacUpdate ==
  /\ ~idle /\ Head(todo)[1] = "update"
  /\ Absorbed # <<>>
  /\ prf' = prf \o Absorbed
  /\ todo' = Tail(todo)
  /\ UNCHANGED <<req, i, A, prev, out, status, calls, faults>>

\* mbcrypt_hmac_update refuses an empty update, and the function returns.
HmacRefuses ==
  /\ ~idle /\ Head(todo)[1] = "update"
  /\ Absorbed = <<>>
  /\ status' = "FAIL"
  /\ todo' = <<>>
  /\ UNCHANGED <<req, i, prf, A, prev, out, calls, faults>>

HmacFinalA ==
  /\ ~idle /\ Head(todo) = <<"final", "A">>
  /\ A' = Prf(prf)
  /\ prf' = <<>>
  /\ todo' = Tail(todo)
  /\ UNCHANGED <<req, i, prev, out, status, calls, faults>>

\* Fault: the loop runs a block too far.
HmacFinalKeyRunsOver ==
  /\ ~idle /\ Head(todo) = <<"final", "key">>
  /\ out' = Append(out, [block |-> <<"prf", prf>>, bits |-> OutBits(req, i)])
  /\ prev' = Prf(prf)
  /\ i' = i + 1 /\ prf' = <<>>
  /\ todo' = IF i <= BlockCount(req) THEN BlockSteps(req, i + 1) ELSE <<>>
  /\ UNCHANGED <<req, A, status, calls, faults>>

\* The block is written, and the loop goes on to the next one.
HmacFinalKey ==
  /\ ~idle /\ Head(todo) = <<"final", "key">>
  /\ out' = Append(out, [block |-> <<"prf", prf>>, bits |-> OutBits(req, i)])
  /\ prev' = Prf(prf)
  /\ i' = i + 1 /\ prf' = <<>>
  /\ todo' = IF i < BlockCount(req) THEN BlockSteps(req, i + 1) ELSE <<>>
  /\ UNCHANGED <<req, A, status, calls, faults>>

\* A callback fails and the function returns; what was written stays.
CallbackFails ==
  /\ ~idle /\ Head(todo)[1] \in {"init", "update", "final"}
  /\ faults < MaxFaults
  /\ faults' = faults + 1
  /\ status' = "FAIL"
  /\ todo' = <<>>
  /\ UNCHANGED <<req, i, prf, A, prev, out, calls>>

Next ==
  \/ \E r \in Requests : Call(r)
  \/ HmacInit
  \/ HmacUpdate
  \/ HmacRefuses
  \/ HmacFinalA
  \/ HmacFinalKey
  \/ CallbackFails

Spec == Init /\ [][Next]_vars
-----------------------------------------------------------------------------
TypeOK ==
  /\ req \in Requests \cup {NoRequest}
  /\ i \in 0..(BlockCount(req) + 1)
  /\ \A k \in 1..Len(todo) : Head(todo[k]) \in {"init", "update", "final"}
  /\ \A k \in 1..Len(out) : out[k].bits \in 1..(ByteBits * HmacSize)
  /\ status \in {"OK", "FAIL"}
  /\ calls \in 0..MaxCalls /\ faults \in 0..MaxFaults

(***************************************************************************)
(* The requests that the code derives the right key for: keys that do not  *)
(* end one bit into a byte (kbkdf.c:105), and a counter that stands within *)
(* the fixed input: at any bit in counter mode (kbkdf.c:101-133), between  *)
(* bytes in the others, except where the bits of its position are the      *)
(* bytes of the input (kbkdf.c:267), and with whole blocks only in double  *)
(* pipeline mode (kbkdf.c:448).  Requests with a long counter fail.        *)
(***************************************************************************)
AtByte(r)  == r.rpos % ByteBits = 0
BetweenBytes(r) == r.rlen = 0 \/ r.rpos <= 0 \/ (AtByte(r) /\ r.rpos # r.fixed)

Promised(r) ==
  \/ r.rlen > RLEN
  \/ /\ r.bits % ByteBits # 1
     /\ -1 <= r.rpos /\ r.rpos <= ByteBits * r.fixed
     /\ r.mode = "counter" => r.rpos >= 0 /\ (r.rlen > 0 \/ AtByte(r))
     /\ r.mode = "feedback" => BetweenBytes(r)
     /\ r.mode = "pipeline" => BetweenBytes(r) /\ r.rpos >= 0 /\ Leftover(r) = 0

(***************************************************************************)
(* What is in key_out is at all times the beginning of the key SP 800-108  *)
(* derives, whatever bit the counter stands at and wherever the key ends   *)
(* (kbkdf.c:110-191), and all of the key when the function returns OK;     *)
(* also after a call that failed halfway with the same context.            *)
(***************************************************************************)
OutputIsDerivedKey ==
  LET key == DerivedKey(req)
  IN  /\ out = SubSeq(key, 1, Len(out))
      /\ idle /\ status = "OK" => Len(out) = Len(key)

(***************************************************************************)
(* No block of a key is derived from the same input as another: whatever   *)
(* the length in the modes that chain their blocks, and in counter mode as *)
(* long as the numbers of the blocks differ in ctr_rlen bytes, which the   *)
(* code leaves to its caller (kbkdf.c:93 accepts zero bytes).              *)
(***************************************************************************)
BlocksDiffer ==
  (req.mode = "counter" => Len(out) <= Power(ByteMod, req.rlen))
    => \A j, k \in 1..Len(out) : out[j].block = out[k].block => j = k
=============================================================================
