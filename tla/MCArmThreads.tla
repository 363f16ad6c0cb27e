---------------------------- MODULE MCArmThreads ----------------------------
(***************************************************************************)
(* TLC instance of ArmThreads.  The unit of memory is a machine word, and  *)
(* headers, thread_t, guards and half frames are one word each.            *)
(***************************************************************************)
EXTENDS ArmThreads

CONSTANTS zero, v, guard, magic, thread

MCValues == {zero, v}
MCData   == {zero, v, guard, magic, thread}
\* What is in memory before it is written matters to nobody.
MCInit == mem = [c \in Cells |-> zero] /\ Init
MCSpec == MCInit /\ [][Next]_vars
=============================================================================
