----------------------------- MODULE Allocator -----------------------------
(***************************************************************************)
(* What the users of an allocator rely on: each block they hold is memory  *)
(* of their own.  There are no addresses here that two blocks could share: *)
(* a block changes when its user writes to it, and at no other time.  The  *)
(* allocator may become void, which is when it promises nothing until all  *)
(* blocks are released; when that is, is up to the one that implements it. *)
(***************************************************************************)
VARIABLES
  content,   \* pointer |-> what the bytes of its block hold
  void

NoBlock == [p \in {} |-> {}]

Init == content = NoBlock /\ ~void

(* A new block may hold anything. *)
Allocate == \E p \in DOMAIN content' \ DOMAIN content :
  content' = [q \in DOMAIN content \cup {p} |->
                IF q = p THEN content'[p] ELSE content[q]]

(* Its user changes one block, not its size. *)
Write == \E p \in DOMAIN content \cap DOMAIN content' :
  /\ DOMAIN content'[p] = DOMAIN content[p]
  /\ content' = [content EXCEPT ![p] = content'[p]]

Release == \E p \in DOMAIN content :
  content' = [q \in DOMAIN content \ {p} |-> content[q]]

ReleaseAll == content' = NoBlock /\ ~void'

Lose == content' = NoBlock /\ void'

Next ==
  \/ ~void /\ ~void' /\ (Allocate \/ Write \/ Release)
  \/ ReleaseAll
  \/ Lose

Spec == Init /\ [][Next]_<<content, void>>
=============================================================================
