---------------------------- MODULE HashFunction ----------------------------
(***************************************************************************)
(* What a hash of mbedCL promises its caller, whatever the way the message *)
(* is cut into update calls: the digest is the compression of the WHOLE    *)
(* padded message.  The compression itself is a free function: a digest is *)
(* identified with the padded message, so two digests agree in the model   *)
(* only when they agree for every possible compression function.           *)
(***************************************************************************)
EXTENDS HashPadding

VARIABLES
  message,   \* the bytes given since the last init
  digest     \* the last digest written, <<>> before the first

vars == <<message, digest>>

Init == message = <<>> /\ digest = <<>>

Restart == message' = <<>> /\ UNCHANGED digest

Absorb == /\ message' \in Seq(Byte)
          /\ Len(message') >= Len(message)
          /\ \A i \in 1..Len(message) : message'[i] = message[i]
          /\ UNCHANGED digest

(***************************************************************************)
(* final leaves its padding in the context: bytes given after it without a *)
(* new init extend the padded message.                                     *)
(***************************************************************************)
Digest == /\ digest' = Padded(message)
          /\ message' = Padded(message)

Next == Restart \/ Absorb \/ Digest

Spec == Init /\ [][Next]_vars
=============================================================================
