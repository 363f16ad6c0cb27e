----------------------------- MODULE LinearHeap -----------------------------
(***************************************************************************)
(* The linear allocator of src/arch/arm/armv7_mem_test.c: blocks are taken *)
(* one after the other, each behind a header, and the space comes back     *)
(* when no block is left.  Addresses are those of the whole memory, in     *)
(* bytes and relative to HEAP_BASE: they wrap like the uint32_t they are.  *)
(***************************************************************************)
EXTENDS Integers, FiniteSets

CONSTANTS
  HEAP_SIZE,    \* bytes of the heap
  HeaderSize,   \* sizeof(_header_t)
  SizeMod,      \* a header holds sizes below this: 2^31
  Sizes,        \* the sizes that callers ask for
  Data          \* what a byte holds that is no header

ASSUME HeapAssumption ==
  /\ HEAP_SIZE \in Nat /\ SizeMod \in Nat
  /\ HeaderSize \in Nat \ {0}
  /\ HEAP_SIZE + HeaderSize < SizeMod
  /\ Sizes \subseteq 0..(2 * SizeMod - 1)

NULL == -1

\* What the bytes at a header's place hold when taken as a header.
Header == [size : 0..(SizeMod - 1), is_free : BOOLEAN]

Content == Data \cup Header

WordMod == 2 * SizeMod

Cells == 0..(WordMod - 1)

VARIABLES
  offset,             \* where the next header goes
  blocks_allocated,
  mem,                \* the bytes; the first one of a header stands for it
  live,               \* history: the blocks callers hold, pointer |-> size
  freed,              \* history: blocks given back since the heap was empty
  sound               \* history: no block was taken, and no stack built, where
                      \* there was no room for it

heapVars == <<offset, blocks_allocated, mem, live, freed, sound>>

(* linear_init is called once, before the first allocation. *)
HeapInit ==
  /\ offset = 0 /\ blocks_allocated = 0
  /\ mem \in [Cells -> Data]
  /\ live = [p \in {} |-> 0]
  /\ freed = {}
  /\ sound = TRUE

HeaderOf(ptr) == mem[ptr - HeaderSize]

(***************************************************************************)
(* linear_memory_alloc.  The bound leaves out the header, so a block may   *)
(* end up to a header behind the heap.  From there the difference wraps,   *)
(* and the next call gets a block, of nearly any size, that lies behind    *)
(* the heap or on the blocks in front.                                     *)
(***************************************************************************)
Overrun == offset > HEAP_SIZE

\* Fault: what is taken already does not count.
RefusesTooLarge(size) == size > HEAP_SIZE \/ size = 0

Refuses(size) == size > (HEAP_SIZE - offset) % WordMod \/ size = 0

Allocated(size) ==
  LET ptr == (offset + HeaderSize) % WordMod
  IN  /\ mem' = [mem EXCEPT ![offset] = [size |-> size % SizeMod, is_free |-> FALSE]]
      /\ blocks_allocated' = blocks_allocated + 1
      /\ live' = [q \in DOMAIN live \cup {ptr} |->
                    IF q = ptr THEN size ELSE live[q]]
      /\ sound' = (sound /\ ~Overrun)
      /\ UNCHANGED freed

\* Fault: the header is not counted.
TakeWithoutHeader(size) ==
  /\ Allocated(size)
  /\ offset' = (offset + size) % WordMod

\* Fault: the offset is wider than 32 bits.
TakeWide(size) ==
  /\ Allocated(size)
  /\ offset' = offset + size + HeaderSize

Take(size) ==
  /\ Allocated(size)
  /\ offset' = (offset + size + HeaderSize) % WordMod

linear_memory_alloc(size) == ~Refuses(size) /\ Take(size)

(* linear_memory_realloc: a block that is large enough gives NULL; else a  *)
(* new block, and the old one stays as it is.                              *)
linear_memory_realloc(ptr, size) ==
  /\ HeaderOf(ptr).size < size
  /\ linear_memory_alloc(size)

linear_memory_force_free ==
  /\ offset' = 0 /\ blocks_allocated' = 0
  /\ live' = [p \in {} |-> 0]
  /\ freed' = {}
  /\ sound' = TRUE
  /\ UNCHANGED mem

\* Fault: a block that is free already is freed again.
IgnoredWhenEmpty(ptr) == blocks_allocated = 0

Ignored(ptr) ==
  blocks_allocated = 0 \/ HeaderOf(ptr).is_free \/ HeaderOf(ptr).size = 0

MarkFree(ptr) ==
  mem' = [mem EXCEPT ![ptr - HeaderSize] = [size |-> 0, is_free |-> TRUE]]

\* Fault: the heap starts again while a block is left.
FreeLastEarly(ptr) ==
  /\ ~Ignored(ptr) /\ blocks_allocated <= 2
  /\ MarkFree(ptr)
  /\ offset' = 0 /\ blocks_allocated' = 0
  /\ live' = [p \in DOMAIN live \ {ptr} |-> live[p]]
  /\ freed' = {}
  /\ UNCHANGED sound

(* linear_memory_free of the only block left. *)
FreeLast(ptr) ==
  /\ ~Ignored(ptr) /\ blocks_allocated = 1
  /\ MarkFree(ptr)
  /\ offset' = 0 /\ blocks_allocated' = 0
  /\ live' = [p \in DOMAIN live \ {ptr} |-> live[p]]
  /\ freed' = {}
  /\ UNCHANGED sound

FreeOne(ptr) ==
  /\ ~Ignored(ptr) /\ blocks_allocated # 1
  /\ MarkFree(ptr)
  /\ blocks_allocated' = blocks_allocated - 1
  /\ live' = [p \in DOMAIN live \ {ptr} |-> live[p]]
  /\ freed' = freed \cup {ptr}
  /\ UNCHANGED <<offset, sound>>

linear_memory_free(ptr) == FreeLast(ptr) \/ FreeOne(ptr)

(* Memory is written: f maps the addresses to what is put there. *)
Put(f) ==
  /\ mem' = [c \in Cells |-> IF c \in DOMAIN f THEN f[c] ELSE mem[c]]
  /\ UNCHANGED <<offset, blocks_allocated, live, freed>>

Store(f) == Put(f) /\ UNCHANGED sound

(* The user of a block writes to some of its bytes. *)
BytesOf(ptr) == ptr..(ptr + live[ptr] - 1)

Write(ptr) == \E S \in SUBSET BytesOf(ptr) : \E f \in [S -> Data] : Store(f)

(* A caller may free a pointer twice, as long as the heap has not become   *)
(* empty in between: the header then says that the block is free.  Once    *)
(* blocks have been taken behind the end, allocations go on; what realloc, *)
(* free and the users then find in place of headers is not followed.       *)
HeapNext ==
  \/ \E size \in Sizes : linear_memory_alloc(size)
  \/ linear_memory_force_free
  \/ /\ sound
     /\ \/ \E ptr \in DOMAIN live, size \in Sizes : linear_memory_realloc(ptr, size)
        \/ \E ptr \in DOMAIN live \cup freed : linear_memory_free(ptr)
        \/ \E ptr \in DOMAIN live : Write(ptr)

HeapSpec == HeapInit /\ [][HeapNext]_heapVars

-----------------------------------------------------------------------------
\* Words stay words, also where sums wrap.
HeapTypeOK ==
  /\ offset \in Cells
  /\ blocks_allocated \in Nat
  /\ mem \in [Cells -> Content]
  /\ DOMAIN live \subseteq Cells
  /\ live \in [DOMAIN live -> 1..(WordMod - 1)]
  /\ freed \subseteq Cells
  /\ sound \in BOOLEAN

Apart(p, q) == p + live[p] <= q - HeaderSize \/ q + live[q] <= p - HeaderSize

(***************************************************************************)
(* A block that the check of linear_memory_alloc lets through is the       *)
(* caller's alone: whatever was asked for before, no byte belongs to two   *)
(* blocks, counting each block's header.                                   *)
(***************************************************************************)
BlocksNeverOverlap == \A p, q \in DOMAIN live : p # q => Apart(p, q)

(***************************************************************************)
(* What of that the code keeps: until a block is taken from a heap that is *)
(* overrun, blocks are apart, and all end at the offset at the latest,     *)
(* which is at most a header behind the heap.                              *)
(***************************************************************************)
Disjoint ==
  /\ \A p \in DOMAIN live : p + live[p] <= offset
  /\ BlocksNeverOverlap

BlocksAreApart == sound => offset <= HEAP_SIZE + HeaderSize /\ Disjoint

(***************************************************************************)
(* The header in front of a block says what free and realloc need: the     *)
(* size of a block that is held; of one given back, that it is free, so    *)
(* that giving it back again changes nothing.  No caller's data gets over  *)
(* a header, as long as every block had room.                              *)
(***************************************************************************)
Labelled ==
  /\ \A p \in DOMAIN live : HeaderOf(p) = [size |-> live[p], is_free |-> FALSE]
  /\ \A p \in freed : HeaderOf(p) = [size |-> 0, is_free |-> TRUE]

HeadersTell == sound => Labelled

(***************************************************************************)
(* The counter is the number of blocks held, through double frees and      *)
(* reallocations, and the heap is whole again when there is none: nothing  *)
(* leaks, as long as every block had room.                                 *)
(***************************************************************************)
Counted ==
  /\ blocks_allocated = Cardinality(DOMAIN live)
  /\ DOMAIN live = {} => offset = 0

CountIsLive == sound => Counted

(***************************************************************************)
(* Each block is private memory of its user: neither the allocator's       *)
(* headers nor another block ever change a byte of it, until a block is    *)
(* taken for which there is no room.                                       *)
(***************************************************************************)
Contents == [p \in DOMAIN live |-> [i \in 0..(live[p] - 1) |-> mem[p + i]]]

SoundContents == IF sound THEN Contents ELSE [p \in {} |-> {}]

Abstract == INSTANCE Allocator WITH content <- SoundContents, void <- ~sound

ImplementsAllocator == Abstract!Spec
=============================================================================
