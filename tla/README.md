# A verification of mbedCL

mbedCL (the repository calls itself mbedCrypto) is a C library of cryptographic
functions for embedded systems.  Its parts are sequential functions over
contexts that the caller owns, joined by tables of callbacks that the caller
fills in: HMAC runs over any hash, the key derivations over any HMAC.  Beside it
lie ciphers, a random generator, and the beginning of a port to ARM, with a heap
and threads.  What is hard to get right here is mostly not concurrency inside
the library.  It is

- **streams**: a message arrives in pieces of any size, and counters, buffers
  and padding have to agree at every boundary;
- **numeric edges**: carries between words and bytes, positions in bits against
  lengths in bytes, the last block, the last byte, the last bit;
- **shared state**: two contexts may use the same table of callbacks, all
  threads one seed and one heap;
- **partial failure**: a callback fails in the middle of a derivation;
- **long sequences of calls** on one context, one heap, one thread;
- **interrupts** that switch threads between any two steps.

This directory holds TLA+ modules of these parts, TLC configurations that check
them on small instances, and proofs that TLAPS checks for every size.

## Inventory

| Part | State it keeps | Operations | What makes it correct |
|---|---|---|---|
| Compression functions (in `src/sha*.c`) | locals A, B, C..., the schedule W; the chaining value of the context | one function in each file | FIPS 180-4, word for word |
| SHA-1, SHA-256, SHA-512 (`src/sha*.c`) | context: chaining value, `total[2]`, one block of `buffer` | init, update, final, one-shot | the digest is that of the padded whole message, however it is cut |
| HMAC (`src/hmac.c`) | context: padded key, pointer to the callbacks; the running hash is in the table's `hash_ctx` | init, update, final, one-shot | the MAC of the last key and all data since; an error is never a MAC |
| PBKDF2 (`src/pbkdf2.c`) | locals of one call, the HMAC's context | one function | the output is the derived key, block by block |
| KBKDF (`src/kbkdf.c`) | locals of one call, the HMAC's context | counter, feedback, double pipeline | the same, with the counter at any bit and the key ending at any bit |
| DRBG (`src/drbg.c`) | static seed of 32 bytes | srand, srand_bytes, rand | no seed is hashed twice before all have been; nothing behind the seed is written |
| AES (`src/aes.c`) | within a call: expanded key on the heap, state, chaining block | key life cycle, key expansion, both directions of the cipher, modes | FIPS 197 and SP 800-38A; decryption undoes encryption; the schedule is freed and nothing behind the output written |
| RC4 (`src/rc4.c`) | none between calls | ksa, rc4 | the published stream; applying it twice gives the data back |
| RSA, big numbers | none | a demonstration | - |
| HKDF, self tests | empty files | - | - |
| Entropy measure, utilities | none | - | - |
| ARM heap (`arch/arm/armv7_mem_test.c`) | offset, count of blocks, a header in front of each block | alloc, free, realloc, force free | each block is memory of its user's own; the headers stay true |
| ARM threads, interrupts (`armv7_kernel_test.c`, `armv7_test_vectors.c`, `armv7_isr.c`) | next id; current and next thread; on each stack a `thread_t`, guard bytes and saved registers | create a thread, timer, PendSV, give up a switch | a thread does not notice that others run |
| ARM start-up, C library | none | - | - |

Interaction: `hmac.c` calls `hash_init/update/final` of the table its context
points to, with that table's `hash_ctx`; `pbkdf2.c` and `kbkdf.c` call
`hmac_init/update/final` of the table they are given, with its `hmac_ctx`.
Every call returns a status, and the macros of `mbcrypt.h` leave the function
at the first that is not OK.  The code behind `MBCRYPT_LEVEL == MAX` wipes
locals, and HMAC's output after an error.  DRBG, AES and RC4 call nothing else
of the library that keeps state.  The stacks of ARM threads are memory that the
creator of a thread passes in; the only allocator of the port is the linear
heap.  The scheduler that PendSV calls is not in the repository.

`src/src/CMakeLists.txt` builds the hashes, HMAC, PBKDF2, KBKDF and
`mbcrypt_utils.c`, and nothing else.  DRBG, AES, RC4 and the ARM files are not
compiled by it, and the XTS part of `aes.c` cannot be; the modules of these
parts model what their source says.

## Modules

| Module | Models |
|---|---|
| `HashPadding` | sizes of a hash and the padding of FIPS 180-4, shared by the next two |
| `HashFunction` | the abstract hash: a message and the digest of its padded whole |
| `HashStream` | `sha1.c`, `sha256.c`, `sha512.c` |
| `Words` | the words and operators of the compression functions |
| `BlockFunction` | the abstract compression function: the rounds of FIPS 180-4 |
| `Compression` | `_sha1_process`, `sha256_process`, `_sha512_process` |
| `CompressionProofs` | the theorems about `Compression` |
| `HashStreamProofs` | the theorems about `HashStream` |
| `MacFunction` | the abstract keyed hash: each context as if it had the library to itself |
| `Hmac` | `hmac.c` over tables of hash callbacks |
| `HmacProofs` | the theorems about `Hmac` |
| `Pbkdf2` | `pbkdf2.c` over a table of HMAC callbacks |
| `Pbkdf2Proofs` | the theorems about `Pbkdf2` |
| `Kbkdf` | `kbkdf.c` over a table of HMAC callbacks |
| `KbkdfProofs` | the theorems about `Kbkdf` |
| `Allocator` | the abstract allocator: each block is a memory of its own |
| `LinearHeap` | `armv7_mem_test.c` and the users of its blocks |
| `IndependentThreads` | the abstract threads: each has a processor of its own |
| `ArmThreads` | threads, timer and PendSV of the ARM port, over `LinearHeap` |
| `ArmProofs` | the theorems about `LinearHeap` and `ArmThreads` |
| `Rc4` | `rc4.c` |
| `AesCipher`, `AesTables` | the block cipher of `aes.c`, and its two tables |
| `AesModes` | `mbcrypt_aes_encrypt`: the life of a key and the modes, over any block cipher |
| `Drbg` | `drbg.c`, with threads that overlap in it |
| `PrimitivesProofs` | the theorems about `AesCipher`, `AesModes`, `Rc4` and `Drbg` |
| `Powers` | powers and digits of a number, as recursive functions |
| `Arithmetic` | lemmas on induction and recursion over numbers, `\div` and `%`, powers and digits |
| `MCHashStream`, `MCHmac`, `MCKbkdf`, `MCArmThreads`, `MCPrimitives` | values of the constants for TLC |

A definition whose comment begins with "Fault:" is not part of a specification.
It is a mistake the code could have had, used to see that a property notices.

### HashStream

The three files hold one algorithm, so there is one module with the sizes as
constants: `BlockSize`, the bytes of a word, and `Wide`, which is TRUE for
SHA-512, whose length field holds two 64-bit words.  `chain`, `total` and
`buffer` are the context.  The chaining value is the sequence of the bytes
compressed so far, and `Process` appends a block to it: this is the most
general compression function: what a real one computes is the next module's
subject and does not matter to this one.

`update` is cut into the steps at which it calls memcpy or the compression:
`BeginUpdate` (counter, and the buffered block if the argument fills it),
`ProcessBlock` (one turn of the while loop), `StoreTail`.  `final` calls update
twice, for the padding and for the length; `caller` tells whose update is
running, as the return address would.  `RejectNull` is the argument check.  The
one-shot functions are init, update and final in a row, which the
specification can do.

`HashFunction` is what a user relies on: a message grows, and a digest is
`Padded(message)`.  It also says what the code does when the user goes on after
final without init.  `ImplementsHash` maps `message` to the bytes of the
stream, or to what they were before final began to pad them, and `digest` to
what final wrote.

### Compression

FIPS 180-4 shifts eight (or five) working variables in each round.  The code
moves no value: the macro `PAD` is called 64 or 80 times with the registers in
rotated order, and changes two of them.  `Arguments` is the table of the calls,
`reg` holds the locals, `Done` the rounds done, and `Working`, the refinement
mapping, reads the registers in the order of the next call.  `W` is the
schedule as the file keeps it: in SHA-1 sixteen slots that are overwritten in
place, in SHA-256 filled by the rounds, in SHA-512 filled before them
(`Expand`); a slot holds `Uninitialized` until it is written.  `sched` is
history.  The two copies of each function, with loops (`..._MIN_SIZE`) and
unrolled, were compared call by call: they make the same calls, so the model
has one.

A word is a vector of bits, so that the three functions of single bits are the
code's on one side and FIPS's on the other.  Sums, rotations, the sigma
functions (`SUBk`) and the round constants are CONSTANT operators with few
laws (`WordAssumption`): that the tables of numbers are the published ones is
for test vectors, not for a model.

### Hmac

A call is the sequence `todo` of the callbacks it has still to make; each is a
step.  `hash[t]` is what the `hash_ctx` of table `t` has absorbed, as symbolic
items, and `Unknown` when the items of two contexts are mixed or a failed
callback may have left anything.  A behaviour follows one of the `Usages`: they
say whether calls on different contexts may overlap, which keys are used, and
how many calls there are and how many callbacks fail.  `level` is the protection level, and final's exit code
depends on it.  `given`, `said`, `phase` and `wrote` are history: the key
and data of the exchange, whether it is void, and what the last call wrote.
The hash types of the tables are the ones the library implements.

`MacFunction` is what the user of a context relies on without knowing who shares
its table: between init and final an exchange keeps its key and gains one item at
a time, final gives the MAC of that key and data, and this MAC stays.
`ImplementsMac` maps the history of each context to it.  Any exchange may become
void, and does when another context uses its table before final.

### Pbkdf2

`pc` is the place in the loops, `T` the set of the values xored into the block
(xor is symmetric difference), `ctr` the four bytes of the counter.  The HMAC
is free: a value is the items it was computed from.  A callback fails at any
point, after which the caller may call again with the same context.

### Kbkdf

Here bits and bytes are real, since the counter may stand at any bit of the
fixed input: `Splice` and `ShiftArrayRight` do what the masks and shifts of the
C file do, for bytes of `ByteBits` bits.  `BlockSteps` is the sequence of
callbacks one turn of a mode's loop makes.  The copy of the loop body for the
incomplete last block makes the same callbacks in counter and feedback mode.  In the
double pipeline it does not: it stops after its first update.
`DerivedKey` is SP 800-108, stated without blocks of callbacks: `Chain` is the
function of A(n) and K(n) from block to block, and `Input` puts the counter at
its bit.  `Promised` says which requests the code derives the right key for;
the others are listed under Runs.  `BlocksDiffer` says that no block of a key
repeats another.  In counter mode this takes a counter that has enough bytes
for the blocks, which the code does not check (`kbkdf.c:93`; `kbkdf.h:31` asks
for 1 to 4 bytes and says nothing of the number of blocks): without that premise TLC finds two equal blocks in the run `kbkdf`.

### LinearHeap

The heap is `offset`, `blocks_allocated` and the bytes `mem`; a header is kept
whole, at its first byte, in the same memory as the data of the users, so that a
user or a later header that got over it would destroy it.  `live` and `freed`
are history: the blocks held, with the sizes asked for, and those given back
since the heap was last empty.  A block may be freed twice while another one is
held, which the header has to stop.

Sizes, offsets and addresses are words that wrap (`WordMod`, 2^32), and a header
keeps a size in one bit less (`SizeMod`).  `armv7_mem_test.c:23` compares the size
with the bytes left and forgets the header: the last block may end one header
behind `HEAP_SIZE`.  From there (`Overrun`) the difference of line 23 wraps, and
`linear_memory_alloc` grants any size but 0 up to nearly 2^32, as the code does.
`sound` is history: it is FALSE from the first block that was taken from an overrun
heap.  `BlocksNeverOverlap`, which the check of line 23 is there for, is then false
(the run `arm_heap_wrap`); the other properties say what the code keeps until then.
`HeapSpec` goes on after that point with allocations and `force_free`, which makes
the heap sound again, and `HeapTypeOK` holds of them; what `free`, `realloc` and
the users do with headers that were written over is not followed.  A call is one
step.

`Allocator` says what a user relies on: blocks change when their users write to
them, and at no other time.  `ImplementsAllocator` maps a block to the bytes at
its address.  `void` is the promise lost, and stands for `~sound`: `Lose` is the
one step in which the contents may become anything.

### ArmThreads

This composes the heap with the threads.  A stack is a block of the heap:

    guard bytes | thread_t | guard bytes | ... | r4-r11 | r0-psr

The stack pointer that `thread_create` aligns moves the second part by one to
eight bytes.  `CreateThread` writes all of it and passes a copy of the
`thread_t` to the scheduler, under the first of the two ids it takes.  It does so
for a block of any size: nothing in `thread_create` or `hw_build_stack` compares
`stack_size` with what the alignment, `thread_t`, guards and frame take.  `Room` is
what is left behind the guards, the third argument of `hw_build_stack`.  With less
than a frame (`2 * HalfFrame`) the frame lies on the guards and the `thread_t`
(`NewStack`); with less than nothing the length of the `memset` wraps and memory is
filled from there on until the processor faults (`thread_create_faults`; what lies
in front of the heap is not in the model).  Either makes `sound` FALSE and ends the
behaviour.  Nothing holds of the guards from there;
`StacksAreIntact` promises them for stacks that had room when they were built.  `Tick` is
the timer interrupt that sets PendSV, and `hw_sw_ctx` clears it: bit 27 of the
register it writes takes a pending PendSV away, bit 28 would set it.  A pending
PendSV reads back as bit 28, so the read-modify-write may write both; the
architecture leaves that open and the model allows both outcomes.
`SwitchTo` and `SameThread` are `PendSV_Handler` for the two answers of the
scheduler, which may be any thread: the processor has pushed half of the
registers when the handler begins, and the handler stores and restores the rest.
The thread that runs computes, pushes and pops, and keeps room for the frame of
an exception.  `UseHeap` are other users of the heap, start-up code or threads;
stacks are never given back.

`IndependentThreads` gives each thread registers and a stack that change when
it runs.  `ImplementsThreads` maps the thread that runs to the processor, and a
thread that is switched out to what lies on its stack.

### Rc4

One step is a round of the key schedule, of the skipping, or a byte of output.
The caller encrypts a message and passes what came out to the same call again;
in place the data is read from the output buffer.

### AesCipher and AesTables

A byte is the set of its bits, so that products in GF(2^8) are shifts and
symmetric differences.  One step is a word of the key schedule or a round.
The state is kept row by row, as `aes.c` does, and a block is turned on the way
in and out.  `trail` is history: the states encryption goes through.
`AesTables` holds the two tables as numbers.

### AesModes

The block cipher is free here: any function of a schedule and a block.
`schedule` is where the pointer `w` points, from the call's entry to the label
that frees it; a refused type never sets it, and the free of line 851 then acts
on what was there by chance.  `ModeIsStandard` compares the output with
SP 800-38A, stated over all blocks at once and with the counter as one number.
The padding loops of ECB and CBC run to `i <= 16` and write the byte behind `buf`:
`beyond` is that byte, which `PaddedTail` sets or xors.  It may hold anything when
the call comes.  Which variable it belongs to is up to the build; the model goes
on as if nothing of the call were kept in it.  `OnlyOutputIsWritten` says in
which calls each of the two, output and `beyond`, may change; that it names
`beyond` at all is the error of the code.  A mode the code does not have (GCM,
AEAD) returns OK with nothing put out, in the model as in line 846.
OFB, CFB and CTR write the key stream to the output before they read the data
(`aes.c:599`), so that in place a full block loses its data; the property says
so (`SafeInPlace`): no document of the repository promises calls in place.

### Drbg

A number is the hash of the seed, so what matters is which seed was hashed.
`inc_seed` loads and stores one byte after the other; the steps of two callers
can alternate.  It increments a byte before it tests whether that byte is still
in the seed: `behind` is the byte after it, and `OnlySeedIsWritten` says when
that one changes.  While calls overlap nothing is promised; after the next
seeding the promises hold again.

## Runs

| Run | Question | Bounds, and why they are enough |
|---|---|---|
| `hash_sha256` | does any cutting of a message give the digest of the whole? | bytes of 32 values, words of one byte, blocks of 4: 90 bytes and the padding are 24 blocks and wrap the low word of the counter three times; the bits of either counter word enter the high word of the length (`total[0] >> 29` and `total[1] << 3`), and its low word takes four values; updates of 0, 1, 3 and 31 bytes begin and end at every place of a block, leave it open, just fill it or go on over many; two finals between two inits |
| `hash_sha512` | is the digest right while the length fits, although the shift is undefined; do calls return, each step leaving less to do? | words and bytes of 128 values, so that the bits of messages below 16 bytes can be counted and those of longer ones not; messages of up to 20 bytes, blocks of 8, the two outcomes of the shift |
| `hash_sha512_length` | is SHA-512's length field the length? (no) | as above, with words and bytes of 32 values |
| `hmac` | is the result the MAC, is nothing left behind after an error; do calls that overlap disturb each other; is each context a keyed hash of its own? | two contexts on one or two tables; without overlap keys of 64 and 65 bytes against blocks of 64 and 128, four calls, one failure; with overlap at every callback three calls and the key that needs the longest call |
| `pbkdf2` | is the output the derived key; do the loops end? | bytes of 2 values, four of them: the carry passes every byte below the first within 7 blocks; 0 to 3 iterations; last blocks whole and cut; two calls, one failure |
| `pbkdf2_wrap` | does the counter carry into its first byte? (no) | 8 blocks, the first to need it |
| `kbkdf` | is the output the derived key, in every mode; do its blocks differ? | bytes of 3 bits, blocks of 2 bytes, up to 3 blocks: counter at every bit position, keys ending at every kind of place; 8 and 9 blocks with a counter of one byte, which has 8 values, and 3 with a counter of none; two calls, one failure |
| `kbkdf_pipeline` | is the last block of the double pipeline written? (no) | one call |
| `kbkdf_position` | is the position compared in the right unit? (no) | one call |
| `arm_threads` | are blocks private, are stacks intact, do threads notice each other? | a heap of 13 words in a memory of 32, for up to three blocks of 1 or 6 words, or of 20, which only the wrapped bound grants; a last header can overrun it; a block of one word is no stack, and one of 6 has room or not according to its address; headers, `thread_t`, guards and half frames of one word, alignment to two, so that stacks begin at odd and even addresses; two threads; registers of two values |
| `arm_heap_wrap` | do blocks that were granted never overlap? (no) | a heap of 3 bytes in a memory of 16: three requests, the second of which the wrapped bound grants |
| `primitives` | are RC4, AES and the modes what the standards say, does the generator repeat itself, do the calls of the macro compute what FIPS 180-4 does? | RC4 and AES at full size, with published vectors for each length of key; modes over blocks of three bytes of two bits, data of 0 to 7 bytes, in place or not, two values of the byte behind the buffer, counters that carry within and through the block; a seed of five bits that runs through all its values and wraps, two callers; compression with words of 4 bits, sums with carries, sigma functions and constants that differ by algorithm and round, all 64 or 80 rounds, two blocks one after the other, out of three whose neighbouring words differ |

The runs whose answer is "no" are findings; PROJECT.json quotes the lines they
contradict.

- `sha512.c:342` shifts a 32-bit word as if it had 64 bits: the digest is wrong
  for messages of 512 MiB and more.
- `pbkdf2.c:120` never carries into `ctr[0]`.
- `kbkdf.c:448` leaves the double pipeline before its last block, with OK.
- `kbkdf.c:267` compares bits with bytes and may leave out fixed input.
- `armv7_mem_test.c:23` forgets the header: a request that takes exactly the bytes
  left makes the bound wrap, and later blocks overlap.

Three more things the models do as the code does.  No property that holds
excludes them, and no document says otherwise in so many words:

- `armv7_kernel_test.c:65` passes on what alignment, `thread_t` and guards leave of
  a stack without a look: the frame of a short one destroys them, and a negative
  rest becomes a length of nearly 2^32.
- `aes.c:520` and `:561` write a byte behind the block they pad.
- `aes.c:846` returns OK for the modes that are not implemented.

The requests of `kbkdf` are those of `Promised`, which TLC evaluates on them.
They leave out what the two runs `kbkdf_pipeline` and `kbkdf_position` show, and, because no document says what
they should give or because they are undefined: a counter of no bytes that
splits a byte in counter mode, a negative position in counter mode or in the
double pipeline, a position in feedback mode or in the double pipeline that is
not a whole number of bytes (it is rounded down), and a key of 8k + 1 bits.

The services of `primitives` share no state; one of them runs in each behaviour
and the others stay as they were.

Deadlock is checked in the runs of the hashes.  The others turn the check off:
the number of calls, or of blocks and threads, is bounded, or memory is lost, so
the behaviours end.

## Fairness

Only `HashStream` and `Pbkdf2` state liveness.  Their `FairSpec` says that a call that has begun is
executed on: the code is sequential, the caller's thread takes its next step,
and a callback returns (well or not).  No fairness is assumed of the user, who
need never call.  The loops then have to end by themselves.

Why they do is a safety property: `CallsAdvance` and `CallShrinks` say that each
step of a call ends it or makes a measure smaller that never falls below zero,
and the proofs below show this for every size.  TLC checks that with the
fairness the calls return (`CallsReturn`, `CallReturns`).

## Proofs

`HashStreamProofs` proves for all constants that satisfy the assumptions of
`HashPadding` and `HashStream`, so for the real sizes:

| Theorem | Property | For |
|---|---|---|
| `TypeCorrect` | `TypeOK` | all |
| `StreamKept` | `StreamIsKept` | all |
| `BlocksAreWhole` | `BlockDiscipline` | all |
| `CounterExact` | `CounterIsExact` | all |
| `LengthEncoded` | `LengthIsEncoded` | `~Wide`: SHA-1, SHA-256 |
| `DigestComplete` | `DigestIsComplete` | `~Wide` |
| `ShortDigestComplete` | `ShortDigestIsComplete` | all |
| `Refinement` | `ImplementsHash` | `AllCountable` |
| `CallsDoAdvance` | `CallsAdvance` | all |

`ShortDigestIsComplete` is what SHA-512 does promise.  When a word counts the bits
of the message (`Countable`: below 512 MiB), what `sha512.c:342` puts into the
wrong place is zero whatever the undefined shift gives, and the length and the
digest are the standard's.  `AllCountable` says that `~Wide`, or that all that a
user may give between two inits is so, with the padding that a final without
a new init leaves in the stream (`Growth`).

The assumptions: a byte has at least two values, a word is a number of bytes
whose place values are given, holds whole blocks and a multiple of 8; a block
is longer than the length field; an update is not longer than a word.

The argument.  None of the properties is inductive.  `IInv` adds to them that
the stream does not change while final runs except by its own padding, that the
length was encoded from the counter of the unpadded message, and how much of
the padding and length is in the stream at each place of final.  Each action
keeps it (the lemmas named `...Keeps`): the steps that move bytes between
argument, buffer and chaining value need associativity of concatenation
(`Regroup`), the counter needs the carry lemma of `Arithmetic`, and the
padding needs that `PadN` of the counter is the least padding
(`PadLengthType`), because a word holds whole blocks.  The refinement maps
`BeginUpdate` of the user to `Absorb`, `FinalOutput` to `Digest`, `HashInit` to
`Restart` and every other step to a stutter.  In `CallsAdvance` the measure is
the part of final still to come (`Stage`), and within it the bytes of the
argument.

`CompressionProofs` proves for words of any width and for any operators with
the laws of `WordAssumption` (words are closed under them, `Plus` is associative
and commutative), so for the real sums, rotations and constants:

| Theorem | Property |
|---|---|
| `TypeCorrect` | `TypeOK` |
| `ScheduleKept` | `ScheduleIsKept` |
| `Refinement` | `ImplementsFips` |

Here the two invariants together are inductive (`IInv`).  A SHA-1 round
overwrites the slot of the word sixteen before and of no other that is needed
(`SlotsDiffer`).  The refinement maps a round to `Round`: the word used is
FIPS's `W_t` because its ancestors are still in their slots, and the arguments
of the next call are those of this one, turned by one (`Sha1CallsTurn`,
`Sha2CallsTurn`).  SHA-1's macro adds E to the finished sum, FIPS in the middle
of it: this needs the laws of `Plus`.  `AddBack` is `Finish` because 80 is a
multiple of 5 and 64 and 80 of 8 (`FirstArguments`).

`HmacProofs` proves for any contexts, tables, keys, data and usages, so for any
number of threads that overlap at any callback and any callbacks that fail:

| Theorem | Property |
|---|---|
| `HmacTypeCorrect` | `TypeOK` |
| `MacCorrect` | `MacIsCorrect` |
| `FailedMacWiped` | `FailedMacIsWiped` |
| `MacRefinement` | `ImplementsMac` |
| `HmacInvariance` | the invariant below |

`IInv` says in which list of callbacks a call can be (`Kinds`) and, for each
context whose exchange is not void, what the `hash_ctx` of its table holds at
each place of the call: while the key is absorbed (`Opening`), in updates,
between them and in final (`Open`), and after it (`Done`); and that what an error
leaves at the MAX level is wiped (`Cleared`).  A step of one context leaves
what another one knows (`Elsewhere`), because either their tables differ or the
step voids the other's exchange.

The refinement goes context by context: the call under way maps to `Update`,
`Final`, `Void` or a step at rest of its own context, and to `Void` or rest of
every other one (`CallMac`, `ElsewhereMac`).  An exchange opens at the callback of
init that absorbs the padded key.  That the MAC written is that of key and data
needs `IInv` at the last callback of final; that it stays needs that a context
with a call under way has no done exchange (`NotDone`).

`Pbkdf2Proofs` proves for any sizes of a byte's range, the counter and a block,
any iterations and lengths, and callbacks that fail anywhere:

| Theorem | Property | For |
|---|---|---|
| `TypeCorrect` | `TypeOK` | all |
| `CounterCorrect` | `CounterIsBlockNumber` | each call with `Numbered(asked)` |
| `OutputCorrect` | `OutputIsDerivedKey` | the same |
| `CallsShrink` | `CallShrinks` | all |

`Numbered(asked)` says that the key asked for needs no more blocks than the bytes
of the counter that are incremented can number, which is 2^24 - 1.  The run
`pbkdf2_wrap`, with one block more, shows that it cannot be left out.  It is a
premise about the call and not about the caller: a call that asks for more may
have come before, and leaves nothing that the next one could take over.  So
the inductive invariant is `CInv`: the types, and `IInv` while the call under way
is numbered.  `IInv` says, for the block
behind what is written, which iterate `U` is and which iterates `T` has the sum
of at each place of the loops (`Computing`), that the length left and the length
written are the length asked for, and that `ctr` is the number of the block.
The iterates of a block are all different, because each is longer in its nesting
than the one before it: so the symmetric difference never takes one out of `T`.
`CallShrinks` compares the length left first and then `Work`, the callbacks that
the block still takes.

`KbkdfProofs` proves for any width of a byte, size of the PRF, fixed input and
requests, and callbacks that fail anywhere:

| Theorem | Property | For |
|---|---|---|
| `TypeCorrect` | `TypeOK` | all |
| `PromiseKept` | `OutputIsDerivedKey` | each call with `Promised(req)` |
| `OutputCorrect` | `OutputIsDerivedKey` | callers that make promised requests only |
| `BlocksAreDifferent` | `BlocksDiffer` | each call with `Promised(req)` |

The runs `kbkdf_pipeline` and `kbkdf_position` make requests that are not
`Promised` and break the property; a later call that is promised is right all
the same, which is why the inductive invariant is `CInv`: the types, and `IInv`
while the request is promised.  The argument has three parts.

- Bits: `SpliceBits` says that the bytes `Splice` makes of the counter and of a
  byte of fixed input are the first bits of that byte, the bits of the counter,
  and the other bits of the byte.  It rests on the digits of `Arithmetic`: a
  shift is a quotient by a power, a mask a remainder.
- Callbacks: `Leads(x, U, y, a, k)` says that updates U take the HMAC from
  having absorbed x to y, with a in A and k in k_i_1.  `CounterBlockStarts`,
  `FeedbackBlockStarts` and `PipelineBlockStarts` show, for every position of
  the counter, that the updates of a block lead from nothing to the input of
  SP 800-108.
- Sizes: `SizesOfKey` says that the whole blocks, the bytes of the incomplete
  one and the mask of the last byte leave as many bits of each block as the key
  has.  It is false for keys of 8k + 1 bits.

`IInv` says that the call stands at a block `i`, one behind what is written,
with `prev` from the chain, and at a place of that block from which the
callbacks left lead to its input (`Doing`), first for A and then for the key in
the double pipeline.  An empty update, which `mbcrypt_hmac_update` refuses, ends
the call with what is written so far.

`BlocksAreDifferent` is about the inputs: an input determines both the bits of its
counter and what it is chained to (`SplitEqual`, `InputDetermines`).  In the
chained modes each block, or each A, so determines the one before it, and the
first comes from none, so that none comes back (`NeverAgain`).  In counter mode
equal bits are equal bytes (`BitsDetermine`), and numbers up to as many as the
counter has values, with the same bytes, are the same (`NumbersDiffer`).  A call
with more than four counter bytes is refused and writes nothing (`Refused`).

`ArmProofs` proves for any size of heap, header and request, up to all that a word
can hold:

| Theorem | Property | For |
|---|---|---|
| `HeapTypeCorrect` | `HeapTypeOK` | all allocations, also behind the end of the heap |
| `Apartness` | `BlocksAreApart` | as long as `sound` |
| `HeadersKept` | `HeadersTell` | as long as `sound` |
| `NothingLeaks` | `CountIsLive` | as long as `sound` |
| `HeapInvariance` | the invariant below | |
| `HeapRefinement` | `ImplementsAllocator` | all; `Lose` when `sound` ends |

No step is kept from happening for this: `sound` is computed from what the steps
do.  That it cannot be left out the run `arm_heap_wrap` shows.  The properties are
not inductive without `FreedAreOutside`: the header of a block given back is not
in a block that is held, so that no user can write over the mark that stops a
second free.  All of them together are, while `sound` (`HeapIInv`); a request that
line 23 lets through then fits, because the difference does not wrap up to the
end of the heap (`Refuses`), and a block that ends a header behind it makes the next
request lose `sound`.  `HeapTypeOK` is inductive by itself.

It proves further, for any number of threads, stacks of any size, and constants
that satisfy `HeapAssumption` and `ThreadAssumption`, what holds as long as
`sound`, that is, as long as each block and each stack that was made had room
(`Room(base, size) >= 2 * HalfFrame`; `NewStack` and `thread_create_faults` say what
is lost without it):

| Theorem | Property |
|---|---|
| `ThreadTypesCorrect` | `ThreadsTypeOK` |
| `StacksKept` | `StacksAreIntact` |
| `ThreadRefinement` | `ImplementsThreads` |
| `ThreadInvariance` | the invariant below |

The invariant is `sound => TInv`.  `TInv` takes over the heap's invariant, and with it its lemmas for the steps of
the allocator.  It adds that threads have distinct blocks, each with the size its
thread was given (`Owns`), that guards and `thread_t` are as they were written
(`Guarded`), that the frame of a thread that is switched out lies above its
guards and holds registers (`Suspended`), and that the stack pointer lies within
the stack of the thread that runs (`Running`).  Because blocks are apart, a
write to one stack is seen by no other.  In the refinement a switch changes no
context: what PendSV stores is what the context of the old thread was, and what it
restores is the context of the new one.

`PrimitivesProofs` proves about four of the services of the run `primitives`, each
for its own specification:

| Theorem | Property | For |
|---|---|---|
| `AesTypesCorrect` | `AesTypeOK` | any two tables, one the inverse of the other, any keys and blocks |
| `Retraced` | `DecryptionRetraces` | the same |
| `ModeCorrect` | `ModeIsStandard` | any block cipher, xor, size of block and calls |
| `OutputKept` | `OnlyOutputIsWritten` | the same |
| `ScheduleFreed` | `ScheduleIsFreed` | the same |
| `Rc4TypesCorrect` | the types | any size of the state, any messages |
| `Permutation` | `SIsPermutation` | the same |
| `SecondPass` | `SecondPassDecrypts` | the same, any commutative xor that undoes itself |
| `Fresh` | `SeedsAreFresh` | a seed of any size, any callers |
| `Contained` | `OnlySeedIsWritten` | the same |

and the invariants they follow from (`AesInvariance`, `ModesInvariance`,
`PermInvariance`, `DrbgInvariance`):

- `AesIInv`: neighbouring entries of the trail are a round apart (`TrailIs`),
  encryption stands at the last entry, and decryption at the entry of its round
  with bytes and rows still to be undone (`Going`).  The round is undone because
  the operations on bytes and on rows commute, each is undone by its inverse,
  the key by itself, and the columns by the second vector: `xtime` is linear, so
  the product of the two circulant matrices is computed from its coefficients,
  which is the unit.
- `ModesIInv`: before block n, `buf` is what the standard feeds to block n
  (`FedTo`), the output up to there is the standard's and behind it untouched.
  For CTR the bytes of the counter are the digits of one number
  (`DigitAppended` and its neighbours in `Arithmetic`).  `ModesAssumption` is
  what is asked of the cipher (blocks to blocks) and of a call (its output fits
  into the buffer).
- `PermIInv`: a swap keeps the set of the values, provided the two indices are
  in range, for which the type of every variable is needed.  `Rc4IInv` adds
  that the generator is where the key takes it after as many steps as have been
  made (`Generator`, a recursion over steps), and that the output is the data
  with the stream added to it; the second pass starts from the same key and so
  adds the same stream.
- `DrbgIInv`: unless calls have overlapped, the seeds hashed are those of
  numbers in a row, and a seed that is being incremented is the next number in
  its low bytes and the last one in the others (`Partly`).  A row of no more
  numbers than there are seeds has no seed twice.

Where a proof needs induction over numbers (`Pbkdf2`, `Kbkdf`, the modes, RC4
and the generator of numbers), it is not used as a rule that takes an operator
but through a set: `SetInduction` and `Recursion` of `Arithmetic` are
proved from the theorem that a well-founded relation has a minimum in every set
that is not empty.

Only model-checked, and why:

- `MatchesVectors` and `MatchesFips197`, the published vectors: computations
  with particular tables and keys;
- the liveness properties `CallsReturn` and `CallReturns`: the prover does not
  handle fairness.  What makes them true, that every step of a call leaves less
  to do, is proved (`CallsDoAdvance`, `CallsShrink`).

Proved and in no run: the types of `Compression`, `AesCipher`, `ArmThreads` and
`Rc4`, whose other properties break when a type does; and `DigestIsComplete`, which
the runs check as a step of `ImplementsHash` and as a part of
`ShortDigestIsComplete`.

## Not modelled

In parts that are modelled:

- the values of the constants and shift counts of the compression functions,
  which are for test vectors;
- the wiping of locals, which no caller can see;
- NULL arguments of `sha512_update` and of the callback tables, which crash;
- in `kbkdf.c`, requests that the runs leave out (above);
- in `drbg.c`, `rand_bytes_ex`, which is compiled out; that different short
  seeds give different sequences (line 76), which nothing promises;
- in `aes.c`, XTS, which uses a variable that is not declared and does not
  compile; GCM and AEAD, which are comments; what the build keeps in the byte
  that the padding loops of lines 520 and 561 write behind `buf`, and what becomes
  of a call whose own variables lie there;
- in `armv7_mem_test.c`, `free`, `realloc` and the users of blocks after a block was
  taken from an overrun heap, when headers hold anything; a pointer that is freed after the heap has become
  empty and started again; a switch of threads within a call of the allocator
  (line 30 reads the offset that a later line adds to), against which nothing
  protects it: users have to;
- in `armv7_kernel_test.c`, the threads after one was created on a stack without
  room for its frame, when guards, `thread_t` and what lies around hold anything;
- the scheduler, which is not in the repository: `ArmThreads` lets it choose any
  thread.

Parts that are not modelled:

- RSA: a demonstration over libtommath with fixed primes and one message;
  big numbers, HKDF and self tests: empty files;
- the entropy measure: a floating-point statistic over a million samples;
- ARM start-up and C library: set-up of registers and timers, partly assembly
  that is not finished and refers to a header that is missing, and string
  functions that keep nothing;
- `src/lib/googletest`, vendored, and the tests.

## What could follow

1. A composition: `Pbkdf2` and `Kbkdf` over `Hmac` over `HashStream`, each using
   the abstract specification of the one below.
   The refinements `ImplementsHash` and `ImplementsMac` are the steps it needs.
2. The heap and the threads of the ARM port after a block or a stack had no room.
