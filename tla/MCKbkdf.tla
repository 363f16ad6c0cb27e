------------------------------ MODULE MCKbkdf ------------------------------
(* Bytes of three bits and blocks of two bytes, so that the counter can    *)
(* split any byte at any bit and three blocks hold every kind of ending.   *)
EXTENDS Kbkdf

MCFixed == <<5, 3, 6>>

Req(mode, bits, fixed, iv, rlen, rpos) ==
  [mode |-> mode, bits |-> bits, fixed |-> fixed, iv |-> iv, rlen |-> rlen, rpos |-> rpos]

\* Keys that end at a block, within one, and within a byte.
KeyBits == {2, 6, 8, 11, 12, 15}

\* What the three modes promise to derive; with as many blocks as one byte
\* numbers and one more, and with no counter at all.
MCRequests ==
  {Req("counter", bits, 2, 0, rlen, rpos) : bits \in KeyBits, rlen \in {1, 4, 5}, rpos \in 0..6}
  \cup {Req("counter", bits, 2, 0, 1, rpos) : bits \in {48, 54}, rpos \in {0, 4}}
  \cup {Req("counter", 18, 2, 0, 0, 0)}
  \cup {Req("counter", 14, 3, 0, 2, rpos) : rpos \in 0..9}
  \cup {Req("feedback", bits, 2, iv, rlen, rpos) :
          bits \in KeyBits, iv \in {0, 1}, rlen \in {0, 2}, rpos \in {-1, 0, 3, 6}}
  \cup {Req("pipeline", bits, 2, 0, 2, rpos) : bits \in {6, 11, 12}, rpos \in {0, 3, 6}}

ASSUME MCPromised == \A r \in MCRequests : Promised(r)

\* A double pipeline key that ends within a block.
PipelineRequests == {Req("pipeline", 9, 2, 0, 2, rpos) : rpos \in {0, 3}}

\* A counter at the bit whose number is the length of the fixed input.
PositionRequests == {Req("feedback", 12, 3, iv, 2, 3) : iv \in {0, 1}}
=============================================================================
