------------------------------- MODULE MCHmac -------------------------------
(***************************************************************************)
(* TLC instance of Hmac: keys that fill and exceed the shorter block, and  *)
(* two tables, one per block size, which the contexts may share.           *)
(***************************************************************************)
EXTENDS Hmac, TLC

CONSTANTS t256, t512, k64, k65

MCSymmetry == Permutations(Contexts)

MCHashType == [t \in Tables |-> IF t = t256 THEN "SHA256" ELSE "SHA512"]
MCKeyLen   == [k \in Keys |-> IF k = k64 THEN 64 ELSE 65]

(* Calls that do not overlap, with a fault; and calls that do, with a key  *)
(* that is longer than the block.                                          *)
MCUsages == {
  [preemptive |-> FALSE, keys |-> {k64, k65}, max_calls |-> 4, max_faults |-> 1],
  [preemptive |-> TRUE, keys |-> {k65}, max_calls |-> 3, max_faults |-> 0]}
=============================================================================
