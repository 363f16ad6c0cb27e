-------------------------------- MODULE Drbg --------------------------------
(***************************************************************************)
(* The generator of src/src/drbg.c: srand, srand_bytes and rand over one   *)
(* static seed.  A number is the hash of the seed; what matters about it   *)
(* is which seed was hashed.                                               *)
(*                                                                         *)
(* Nothing locks the seed: the calls of two threads can overlap, and each  *)
(* byte is loaded and stored in two steps.  Seeding is one step, at a time *)
(* when no thread is in rand.                                              *)
(***************************************************************************)
EXTENDS Integers, FiniteSets

CONSTANTS
  BASE_SEED_SIZE,  \* 32
  UINT8,           \* the number of values of a byte: 256
  Callers          \* the threads that call rand

ASSUME DrbgAssumption ==
  /\ BASE_SEED_SIZE \in Nat /\ BASE_SEED_SIZE >= 4
  /\ UINT8 \in Nat \ {0}

Places == 0..(BASE_SEED_SIZE - 1)
Octets == 0..(UINT8 - 1)
Seeds  == [Places -> Octets]

Idle  == -1
NoOct == -1

VARIABLES
  seed,
  behind,     \* the byte of memory behind the seed
  at,         \* i of inc_seed, for each thread, or Idle outside of rand
  loaded,     \* what a thread has loaded from there
  hashed,     \* history: the seeds hashed since the last seeding
  overlapped  \* history: two calls have overlapped since then

drbgVars == <<seed, behind, at, loaded, hashed, overlapped>>

InRand == {t \in Callers : at[t] # Idle}

Seeded ==
  /\ InRand = {}
  /\ hashed' = {} /\ overlapped' = FALSE
  /\ UNCHANGED <<behind, at, loaded>>

(* srand: the rest of the seed adds up the two bytes before. *)
srand(first) ==
  LET f[i \in Places] == IF i < 4 THEN first[i] ELSE (f[i - 1] + f[i - 2]) % UINT8
  IN  seed' = f /\ Seeded

(* srand_bytes: when the seed is short, the bytes given are overwritten    *)
(* from the start by as many as are missing.                               *)
srand_bytes(bytes, seed_len) ==
  LET missing == BASE_SEED_SIZE - seed_len
  IN  /\ seed' = [i \in Places |->
                    IF i < missing THEN missing % UINT8
                    ELSE IF i < seed_len THEN bytes[i] ELSE seed[i]]
      /\ Seeded

Hash(t) ==
  /\ at[t] = Idle
  /\ at' = [at EXCEPT ![t] = 0]
  /\ overlapped' = (overlapped \/ InRand # {})
  /\ hashed' = IF overlapped' THEN {} ELSE hashed \cup {seed}
  /\ UNCHANGED <<seed, behind, loaded>>

Load(t) ==
  /\ at[t] # Idle /\ loaded[t] = NoOct
  /\ loaded' = [loaded EXCEPT ![t] = IF at[t] < BASE_SEED_SIZE THEN seed[at[t]] ELSE behind]
  /\ UNCHANGED <<seed, behind, at, hashed, overlapped>>

\* Fault: the carry goes one byte far.
CarriesOnce(value, i) == value = 0 /\ i < 1

\* Fault: the first byte is always taken to wrap.
CarriesAnyway(value, i) == (value = 0 \/ i = 0) /\ i < BASE_SEED_SIZE

Carries(value, i) == value = 0 /\ i < BASE_SEED_SIZE

(* inc_seed increments a byte before it looks at i, so that when all bytes *)
(* wrap the byte behind the seed is incremented as well.                   *)
inc_seed(t) ==
  LET i     == at[t]
      value == (loaded[t] + 1) % UINT8
  IN  /\ loaded[t] # NoOct
      /\ seed' = IF i < BASE_SEED_SIZE THEN [seed EXCEPT ![i] = value] ELSE seed
      /\ behind' = IF i = BASE_SEED_SIZE THEN value ELSE behind
      /\ at' = [at EXCEPT ![t] = IF Carries(value, i) THEN i + 1 ELSE Idle]
      /\ loaded' = [loaded EXCEPT ![t] = NoOct]
      /\ UNCHANGED <<hashed, overlapped>>

DrbgInit ==
  /\ seed = [i \in Places |-> 0]
  /\ behind \in Octets
  /\ at = [t \in Callers |-> Idle] /\ loaded = [t \in Callers |-> NoOct]
  /\ hashed = {} /\ overlapped = FALSE

DrbgNext ==
  \/ \E first \in [0..3 -> Octets] : srand(first)
  \/ \E seed_len \in 0..BASE_SEED_SIZE :
       \E bytes \in [0..(seed_len - 1) -> Octets] : srand_bytes(bytes, seed_len)
  \/ \E t \in Callers : Hash(t) \/ Load(t) \/ inc_seed(t)

DrbgSpec == DrbgInit /\ [][DrbgNext]_drbgVars

-----------------------------------------------------------------------------
(***************************************************************************)
(* As long as no two calls have overlapped, no seed is hashed twice before *)
(* all have been: inc_seed carries through the whole seed, and numbers do  *)
(* not repeat.                                                             *)
(***************************************************************************)
SeedsAreFresh ==
  ~overlapped /\ InRand = {} /\ seed \in hashed => hashed = Seeds

(***************************************************************************)
(* As long as no two calls have overlapped, rand writes behind the seed    *)
(* only when the whole seed wraps, which then is all zero.                 *)
(***************************************************************************)
OnlySeedIsWritten ==
  [][behind' # behind /\ ~overlapped => \A p \in Places : seed[p] = 0]_drbgVars
=============================================================================
