------------------------- MODULE IndependentThreads -------------------------
(***************************************************************************)
(* What the threads of the ARM port rely on: each has a processor of its   *)
(* own.  Its registers and its stack change when it runs, and not while    *)
(* others run or while it is switched out.  When the promise is void is up *)
(* to the one that implements the threads.                                 *)
(***************************************************************************)
VARIABLES
  running,   \* the thread that runs, or none before the first switch
  context,   \* thread |-> its registers and its stack
  void

Init(none) == running = none /\ context = [t \in {} |-> {}] /\ ~void

Create == \E t \in DOMAIN context' \ DOMAIN context :
  /\ context' = [u \in DOMAIN context \cup {t} |->
                   IF u = t THEN context'[t] ELSE context[u]]
  /\ UNCHANGED running

Run == \E t \in DOMAIN context :
  /\ running = t
  /\ context' = [context EXCEPT ![t] = context'[t]]
  /\ UNCHANGED running

Switch == running' \in DOMAIN context /\ UNCHANGED context

Lose == void'

Next == (~void /\ ~void' /\ (Create \/ Run \/ Switch)) \/ Lose
=============================================================================
