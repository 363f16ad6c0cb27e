------------------------------- MODULE Pbkdf2 -------------------------------
(***************************************************************************)
(* src/pbkdf2.c: mbcrypt_pbkdf2_hmac over the user's table of HMAC         *)
(* callbacks, each of which may fail.  The HMAC is a free function of the  *)
(* items given since its init, a block T is the SET of the values xored    *)
(* into it, and what is written to out is a sequence of cut blocks.        *)
(***************************************************************************)
EXTENDS Powers, Sequences

CONSTANTS
  ByteMod,      \* values of a byte of the counter                  (256)
  CtrLen,       \* bytes of the counter                             (4)
  ULen,         \* U_len: bytes of a block, the hash size           (20..64)
  Iterations,   \* the iters a caller may pass
  OutLengths,   \* the out_len a caller may pass
  MaxCalls,     \* bound: calls in a behaviour
  MaxFaults     \* bound: callbacks that fail

VARIABLES
  pc,        \* where the call is
  ctr,       \* ctr[0] is the most significant byte
  U, T, i,   \* the locals of the loop
  iters,     \* the argument
  out_len,   \* the argument, then what is left to write
  out,       \* what has been written to out
  prf,       \* hmac_ctx: the items since its init
  status,    \* mbcrypt_ret
  asked,     \* history: the out_len of the call
  calls, faults

vars == <<pc, ctr, U, T, i, iters, out_len, out, prf, status, asked, calls, faults>>

ASSUME Pbkdf2Assumption ==
  /\ ByteMod \in Nat \ {0, 1} /\ CtrLen \in Nat \ {0, 1} /\ ULen \in Nat \ {0}
  /\ Iterations \subseteq Nat /\ OutLengths \subseteq Nat
  /\ MaxCalls \in Nat /\ MaxFaults \in Nat

Counter == [0..(CtrLen - 1) -> 0..(ByteMod - 1)]
Zero    == [k \in 0..(CtrLen - 1) |-> 0]
None    == <<"none">>
-----------------------------------------------------------------------------
(***************************************************************************)
(* RFC 2898: T_n is the xor of the iterates of the HMAC from the salt and  *)
(* the block number n, most significant byte first.                        *)
(***************************************************************************)
Prf(items) == <<"hmac", items>>

INT(n) == [k \in 0..(CtrLen - 1) |-> Digit(ByteMod, n, CtrLen - 1 - k)]

\* The iterates of block n, counted from 0.
Iterates(n) ==
  LET F[k \in Nat] == IF k = 0 THEN Prf(<<<<"salt">>, <<"ctr", INT(n)>>>>) ELSE Prf(<<F[k - 1]>>)
  IN  F

Iterate(n, j) == Iterates(n)[j - 1]

Block(n, c) == {Iterate(n, j) : j \in 1..c}

\* The first bytes of T_1, T_2, ...: len of them.
DerivedKey(len, c) ==
  LET full == len \div ULen
      rest == len % ULen
  IN  [n \in 1..(full + (IF rest = 0 THEN 0 ELSE 1)) |->
         [block |-> Block(n, c), bytes |-> IF n <= full THEN ULen ELSE rest]]
-----------------------------------------------------------------------------
\* Fault: the counter stops carrying at its last byte.
IncrementLastByte(c) == [c EXCEPT ![CtrLen - 1] = (@ + 1) % ByteMod]

(***************************************************************************)
(* The loop of the increment: a byte that wraps carries into the one       *)
(* before it, and the loop ends before it reaches ctr[0].                  *)
(***************************************************************************)
Increment(c) ==
  LET Carries(k) == \A m \in (k + 1)..(CtrLen - 1) : c[m] = ByteMod - 1
  IN  [k \in 0..(CtrLen - 1) |-> IF k > 0 /\ Carries(k) THEN (c[k] + 1) % ByteMod ELSE c[k]]

Xor(t, u) == (t \ {u}) \cup ({u} \ t)

Init ==
  /\ pc = "idle" /\ ctr = Zero /\ U = None /\ T = {} /\ i = 0
  /\ iters = 0 /\ out_len = 0 /\ out = <<>> /\ prf = <<>>
  /\ status = "OK" /\ asked = 0 /\ calls = 0 /\ faults = 0

\* The argument checks, and the counter of the first block.
Call(c, len) ==
  /\ pc = "idle" /\ calls < MaxCalls
  /\ calls' = calls + 1
  /\ iters' = c /\ out_len' = len /\ asked' = len /\ out' = <<>>
  /\ IF c = 0 \/ len = 0
     THEN status' = "INCORRECT_FUNCTION_PARAM" /\ UNCHANGED <<pc, ctr>>
     ELSE status' = "OK" /\ pc' = "init" /\ ctr' = [Zero EXCEPT ![CtrLen - 1] = 1]
  /\ UNCHANGED <<U, T, i, prf, faults>>

\* p_hmac_init; the xor of the iterate that ended follows it in the loop.
HmacInit ==
  /\ \/ pc = "init" /\ pc' = "salt" /\ UNCHANGED <<T, i>>
     \/ pc = "rekey" /\ pc' = "loop" /\ i' = 1 /\ UNCHANGED T
     \/ pc = "again" /\ pc' = "loop" /\ i' = i + 1 /\ T' = Xor(T, U)
  /\ prf' = <<>>
  /\ UNCHANGED <<ctr, U, iters, out_len, out, status, asked, calls, faults>>

HmacUpdate ==
  /\ \/ pc = "salt" /\ pc' = "ctr" /\ prf' = Append(prf, <<"salt">>)
     \/ pc = "ctr" /\ pc' = "first" /\ prf' = Append(prf, <<"ctr", ctr>>)
     \/ pc = "loop" /\ i < iters /\ pc' = "next" /\ prf' = Append(prf, U)
  /\ UNCHANGED <<ctr, U, T, i, iters, out_len, out, status, asked, calls, faults>>

\* Fault: the first block of the iteration is not copied to T.
HmacFinalKeepsT ==
  /\ \/ pc = "first" /\ pc' = "rekey" /\ UNCHANGED T
     \/ pc = "next" /\ pc' = "again" /\ UNCHANGED T
  /\ U' = Prf(prf)
  /\ prf' = Append(prf, <<"padding">>)
  /\ UNCHANGED <<ctr, i, iters, out_len, out, status, asked, calls, faults>>

HmacFinal ==
  /\ \/ pc = "first" /\ pc' = "rekey" /\ T' = {Prf(prf)}
     \/ pc = "next" /\ pc' = "again" /\ UNCHANGED T
  /\ U' = Prf(prf)
  /\ prf' = Append(prf, <<"padding">>)
  /\ UNCHANGED <<ctr, i, iters, out_len, out, status, asked, calls, faults>>

\* Fault: the length left is not reduced by what was written.
EmitForever ==
  /\ pc = "loop" /\ i >= iters
  /\ out' = <<[block |-> T, bytes |-> IF out_len < ULen THEN out_len ELSE ULen]>>
  /\ ctr' = Increment(ctr)
  /\ pc' = "init"
  /\ UNCHANGED <<U, T, i, iters, out_len, prf, status, asked, calls, faults>>

\* Fault: the last block is not cut to what is left.
EmitWholeBlocks ==
  /\ pc = "loop" /\ i >= iters
  /\ out' = Append(out, [block |-> T, bytes |-> ULen])
  /\ out_len' = out_len - ULen
  /\ ctr' = Increment(ctr)
  /\ pc' = IF out_len' <= 0 THEN "idle" ELSE "init"
  /\ UNCHANGED <<U, T, i, iters, prf, status, asked, calls, faults>>

\* The block is written, cut to what is left, and the counter goes on.
Emit ==
  /\ pc = "loop" /\ i >= iters
  /\ LET use_len == IF out_len < ULen THEN out_len ELSE ULen
     IN  /\ out' = Append(out, [block |-> T, bytes |-> use_len])
         /\ out_len' = out_len - use_len
  /\ ctr' = Increment(ctr)
  /\ pc' = IF out_len' = 0 THEN "idle" ELSE "init"
  /\ UNCHANGED <<U, T, i, iters, prf, status, asked, calls, faults>>

CallbackPending == pc \notin {"idle", "loop"} \/ (pc = "loop" /\ i < iters)

\* A callback fails and the function returns; what was written stays.
CallbackFails ==
  /\ CallbackPending /\ faults < MaxFaults
  /\ faults' = faults + 1
  /\ status' = "FAIL" /\ pc' = "idle"
  /\ UNCHANGED <<ctr, U, T, i, iters, out_len, out, prf, asked, calls>>

Next ==
  \/ \E c \in Iterations, len \in OutLengths : Call(c, len)
  \/ HmacInit
  \/ HmacUpdate
  \/ HmacFinal
  \/ Emit
  \/ CallbackFails

Spec == Init /\ [][Next]_vars

FairSpec == Spec /\ WF_vars(HmacInit \/ HmacUpdate \/ HmacFinal \/ Emit \/ CallbackFails)
-----------------------------------------------------------------------------
TypeOK ==
  /\ pc \in {"idle", "init", "salt", "ctr", "first", "rekey", "loop", "next", "again"}
  /\ ctr \in Counter
  /\ iters \in Iterations \cup {0}
  /\ pc = "loop" => i \in 1..iters
  /\ pc \in {"next", "again"} => i \in 1..(iters - 1)
  /\ out_len \in 0..asked
  /\ asked \in OutLengths \cup {0}
  /\ status \in {"OK", "FAIL", "INCORRECT_FUNCTION_PARAM"}
  /\ calls \in 0..MaxCalls /\ faults \in 0..MaxFaults

(***************************************************************************)
(* What is in out is at all times the beginning of the derived key, whole  *)
(* iterations and blocks in order (pbkdf2.c:65-128), and all of it when    *)
(* the function returns OK; also when an earlier call failed halfway.      *)
(***************************************************************************)
OutputIsDerivedKey ==
  LET key == DerivedKey(asked, iters)
  IN  /\ out = SubSeq(key, 1, Len(out))
      /\ pc = "idle" /\ status = "OK" => Len(out) = Len(key)

(***************************************************************************)
(* The counter that a block is derived from is the number of the block:    *)
(* "if overflow happens then next byte + 1" (pbkdf2.c:119-127).            *)
(***************************************************************************)
CounterIsBlockNumber ==
  pc # "idle" => ctr = INT(Len(out) + 1)

(***************************************************************************)
(* A call returns, however many blocks and iterations it was asked for:    *)
(* the caller's thread executes it and every callback returns.             *)
(***************************************************************************)
CallReturns == pc # "idle" ~> pc = "idle"

\* Callbacks that the block at hand still takes, and the start of the loop.
Work ==
  CASE pc = "init"  -> 3 * iters + 4
    [] pc = "salt"  -> 3 * iters + 3
    [] pc = "ctr"   -> 3 * iters + 2
    [] pc = "first" -> 3 * iters + 1
    [] pc = "rekey" -> 3 * iters
    [] pc = "loop"  -> 3 * (iters - i)
    [] pc = "next"  -> 3 * (iters - i) - 1
    [] pc = "again" -> 3 * (iters - i) - 2
    [] OTHER        -> 0

(***************************************************************************)
(* Why it returns: each step of a call ends it, or leaves less to write,   *)
(* or leaves less to do for the block, neither of which ever goes below    *)
(* zero (pbkdf2.c:68-128: the lengths and counts are unsigned).            *)
(***************************************************************************)
CallShrinks ==
  [][pc # "idle" /\ pc' # "idle" =>
       /\ out_len' \in Nat /\ Work' \in Nat
       /\ out_len' < out_len \/ (out_len' = out_len /\ Work' < Work)]_vars
=============================================================================
