---------------------------- MODULE MCHashStream ----------------------------
(***************************************************************************)
(* TLC instances of HashStream.  A byte has few values and a word is one   *)
(* byte, so that blocks, the carry of the counter and the length field all *)
(* overflow within a short message.                                        *)
(***************************************************************************)
EXTENDS HashStream

MCPlace   == [k \in 0..0 |-> 1]
\* Neighbouring positions and blocks hold different bytes.
MCMessage == [i \in 1..MaxLen |-> (i + (i \div BlockSize)) % ByteMod]
=============================================================================
