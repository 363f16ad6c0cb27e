------------------------------- MODULE ArmProofs -------------------------------
(***************************************************************************)
(* Proofs about LinearHeap, for heaps, headers and requests of every size, *)
(* and about ArmThreads: stacks of any size and alignment in such a heap,  *)
(* with any number of threads and blocks.                                  *)
(***************************************************************************)
EXTENDS ArmThreads, FiniteSetTheorems, TLAPS

-----------------------------------------------------------------------------
(***************************************************************************)
(* What has to be added to make the properties inductive: the headers of   *)
(* the blocks given back are below the offset and outside every block that *)
(* is held, so that they keep saying "free" until the heap is empty.  All  *)
(* this is of a heap from which no block was taken when it was overrun.    *)
(***************************************************************************)
HeapBounds ==
  /\ offset \in 0..(HEAP_SIZE + HeaderSize)
  /\ blocks_allocated \in Nat
  /\ mem \in [Cells -> Content]
  /\ DOMAIN live \subseteq HeaderSize..(HEAP_SIZE + HeaderSize)
  /\ live \in [DOMAIN live -> 1..HEAP_SIZE]
  /\ freed \subseteq HeaderSize..(HEAP_SIZE + HeaderSize)

FreedAreOutside ==
  /\ \A f \in freed : f <= offset
  /\ \A f \in freed, p \in DOMAIN live :
       f <= p - HeaderSize \/ p + live[p] <= f - HeaderSize

HeapIInv ==
  /\ sound
  /\ HeapBounds
  /\ IsFiniteSet(DOMAIN live)
  /\ Disjoint
  /\ FreedAreOutside
  /\ Labelled
  /\ Counted

LEMMA InitHeapIInv == HeapInit => HeapIInv
<1> SUFFICES ASSUME HeapInit PROVE HeapIInv
  OBVIOUS
<1> USE HeapAssumption DEF HeapInit
<1>1. DOMAIN live = {}
  OBVIOUS
<1>2. IsFiniteSet(DOMAIN live) /\ Cardinality(DOMAIN live) = 0
  BY <1>1, FS_EmptySet
<1>3. HeapBounds
  BY <1>1 DEF HeapBounds, Content, Cells, WordMod
<1>4. Disjoint /\ FreedAreOutside /\ Labelled
  BY <1>1 DEF Disjoint, BlocksNeverOverlap, FreedAreOutside, Labelled
<1>5. Counted
  BY <1>2 DEF Counted
<1>. QED
  BY <1>2, <1>3, <1>4, <1>5 DEF HeapIInv

(* An allocation from a heap that is not overrun: nothing wraps. *)
LEMMA AllocSteps ==
  ASSUME HeapIInv, NEW size \in Nat, linear_memory_alloc(size), sound'
  PROVE  /\ offset \in Nat /\ offset <= HEAP_SIZE
         /\ size \in 1..HEAP_SIZE /\ size <= HEAP_SIZE - offset
         /\ offset' = offset + size + HeaderSize
         /\ mem' = [mem EXCEPT ![offset] = [size |-> size % SizeMod, is_free |-> FALSE]]
         /\ blocks_allocated' = blocks_allocated + 1
         /\ live' = [q \in DOMAIN live \cup {offset + HeaderSize} |->
                       IF q = offset + HeaderSize THEN size ELSE live[q]]
         /\ freed' = freed
<1> USE HeapAssumption
<1>1. /\ offset \in Nat /\ HEAP_SIZE \in Nat /\ HeaderSize \in Nat \ {0} /\ SizeMod \in Nat
      /\ HEAP_SIZE + HeaderSize < SizeMod /\ WordMod = 2 * SizeMod
  BY DEF HeapIInv, HeapBounds, WordMod
<1>2. offset <= HEAP_SIZE
  <2>1. ~Overrun
    BY Zenon DEF linear_memory_alloc, Take, Allocated
  <2>. QED
    BY <1>1, <2>1 DEF Overrun
<1>3. (HEAP_SIZE - offset) % WordMod = HEAP_SIZE - offset
  BY <1>1, <1>2
<1>4. size <= HEAP_SIZE - offset /\ size \in 1..HEAP_SIZE
  BY <1>1, <1>2, <1>3 DEF linear_memory_alloc, Refuses
<1>5. /\ (offset + size + HeaderSize) % WordMod = offset + size + HeaderSize
      /\ (offset + HeaderSize) % WordMod = offset + HeaderSize
  BY <1>1, <1>2, <1>4
<1>. QED
  BY <1>1, <1>2, <1>4, <1>5 DEF linear_memory_alloc, Take, Allocated

(***************************************************************************)
(* An allocation: the new block lies behind all others.                    *)
(***************************************************************************)
LEMMA AllocKeeps ==
  ASSUME HeapIInv, NEW size \in Nat, linear_memory_alloc(size), sound'
  PROVE  HeapIInv'
<1> DEFINE ptr == offset + HeaderSize
           hdr == [size |-> size % SizeMod, is_free |-> FALSE]
<1> USE HeapAssumption
<1>1. /\ offset \in Nat /\ offset <= HEAP_SIZE
      /\ size \in 1..HEAP_SIZE /\ size <= HEAP_SIZE - offset
  BY AllocSteps
<1>2. /\ offset' = offset + size + HeaderSize
      /\ mem' = [mem EXCEPT ![offset] = hdr]
      /\ blocks_allocated' = blocks_allocated + 1
      /\ live' = [q \in DOMAIN live \cup {ptr} |->
                    IF q = ptr THEN size ELSE live[q]]
      /\ freed' = freed
  BY AllocSteps
<1>3. size % SizeMod = size
  BY <1>1, SMT
<1>4. /\ DOMAIN live' = DOMAIN live \cup {ptr}
      /\ live'[ptr] = size
      /\ \A q \in DOMAIN live : q # ptr => live'[q] = live[q]
  BY <1>2
<1>5. \A p \in DOMAIN live :
        /\ p \in Nat /\ p - HeaderSize >= 0 /\ live[p] \in 1..HEAP_SIZE
        /\ p + live[p] <= offset /\ p < offset /\ p # ptr
  BY <1>1 DEF HeapIInv, HeapBounds, Disjoint, BlocksNeverOverlap
<1>6. offset \in Cells /\ mem \in [Cells -> Content] /\ hdr \in Content
  BY <1>1, <1>3 DEF Cells, WordMod, HeapIInv, HeapBounds, Content, Header
<1>7. HeapBounds'
  <2>1. offset' \in 0..(HEAP_SIZE + HeaderSize) /\ blocks_allocated' \in Nat
    BY <1>1, <1>2 DEF HeapIInv, HeapBounds
  <2>2. mem' \in [Cells -> Content]
    BY <1>2, <1>6
  <2>3. DOMAIN live' \subseteq HeaderSize..(HEAP_SIZE + HeaderSize)
    BY <1>1, <1>4 DEF HeapIInv, HeapBounds
  <2>4. live' \in [DOMAIN live' -> 1..HEAP_SIZE]
    BY <1>1, <1>2, <1>5
  <2>. QED
    BY <1>2, <2>1, <2>2, <2>3, <2>4 DEF HeapIInv, HeapBounds
<1>8. IsFiniteSet(DOMAIN live')
  BY <1>4, FS_AddElement DEF HeapIInv
<1>9. Disjoint'
  <2>1. \A p \in DOMAIN live' : p + live'[p] <= offset'
    BY <1>1, <1>2, <1>4, <1>5
  <2>2. \A p, q \in DOMAIN live' : p # q => Apart(p, q)'
    BY <1>1, <1>4, <1>5 DEF Apart, HeapIInv, Disjoint, BlocksNeverOverlap
  <2>. QED
    BY <2>1, <2>2 DEF Disjoint, BlocksNeverOverlap
<1>10. FreedAreOutside'
  <2>1. \A f \in freed : f \in Nat /\ f <= offset
    BY DEF HeapIInv, HeapBounds, FreedAreOutside
  <2>2. \A f \in freed : f <= offset'
    BY <1>1, <1>2, <2>1
  <2>3. \A f \in freed, p \in DOMAIN live' :
          f <= p - HeaderSize \/ p + live'[p] <= f - HeaderSize
    BY <1>1, <1>4, <1>5, <2>1 DEF HeapIInv, FreedAreOutside
  <2>. QED
    BY <1>2, <2>2, <2>3 DEF FreedAreOutside
<1>11. Labelled'
  <2>1. \A p \in DOMAIN live : p - HeaderSize \in Cells /\ p - HeaderSize # offset
    BY <1>1, <1>5 DEF Cells, WordMod
  <2>2. \A f \in freed : f - HeaderSize \in Cells /\ f - HeaderSize # offset
    BY <1>1 DEF Cells, WordMod, HeapIInv, HeapBounds, FreedAreOutside
  <2>3. ptr - HeaderSize = offset
    BY <1>1
  <2>4. Labelled
    BY DEF HeapIInv
  <2>5. \A c \in Cells : c # offset => mem'[c] = mem[c]
    BY <1>2, <1>6
  <2>8. mem'[offset] = [size |-> size, is_free |-> FALSE]
    BY <1>2, <1>3, <1>6
  <2>6. ASSUME NEW p \in DOMAIN live'
        PROVE  HeaderOf(p)' = [size |-> live'[p], is_free |-> FALSE]
    <3>1. CASE p = ptr
      <4>1. HeaderOf(p)' = mem'[offset]
        BY <2>3, <3>1 DEF HeaderOf
      <4>2. live'[p] = size
        BY <1>4, <3>1
      <4>. QED
        BY <2>8, <4>1, <4>2
    <3>2. CASE p # ptr
      <4>1. p \in DOMAIN live /\ live'[p] = live[p]
        BY <1>4, <1>5, <2>6, <3>2
      <4>2. HeaderOf(p)' = HeaderOf(p)
        BY <2>1, <2>5, <4>1 DEF HeaderOf
      <4>. QED
        BY <2>4, <4>1, <4>2 DEF Labelled
    <3>. QED
      BY <3>1, <3>2
  <2>7. ASSUME NEW f \in freed'
        PROVE  HeaderOf(f)' = [size |-> 0, is_free |-> TRUE]
    <3>1. f \in freed
      BY <1>2
    <3>2. HeaderOf(f)' = HeaderOf(f)
      BY <2>2, <2>5, <3>1 DEF HeaderOf
    <3>. QED
      BY <2>4, <3>1, <3>2 DEF Labelled
  <2>. QED
    BY <2>6, <2>7 DEF Labelled
<1>12. Counted'
  BY <1>2, <1>4, <1>5, FS_AddElement DEF HeapIInv, Counted
<1>. QED
  BY <1>7, <1>8, <1>9, <1>10, <1>11, <1>12 DEF HeapIInv

(***************************************************************************)
(* Giving a block back.  A block that was given back before is ignored, so *)
(* the block freed is one that is held.                                    *)
(***************************************************************************)
LEMMA FreedIsHeld ==
  ASSUME HeapIInv, NEW ptr \in DOMAIN live \cup freed, ~Ignored(ptr)
  PROVE  ptr \in DOMAIN live
BY DEF HeapIInv, Labelled, Ignored

LEMMA MarkKeeps ==
  ASSUME HeapIInv, NEW ptr \in DOMAIN live, MarkFree(ptr)
  PROVE  /\ mem' \in [Cells -> Content]
         /\ mem'[ptr - HeaderSize] = [size |-> 0, is_free |-> TRUE]
         /\ \A p \in DOMAIN live \cup freed : p # ptr => HeaderOf(p)' = HeaderOf(p)
         /\ \A p \in DOMAIN live : p # ptr =>
              \A i \in 0..(live[p] - 1) : mem'[p + i] = mem[p + i]
<1> USE HeapAssumption
<1>1. /\ offset \in 0..(HEAP_SIZE + HeaderSize) /\ mem \in [Cells -> Content]
      /\ \A p \in DOMAIN live : /\ p \in Nat /\ p - HeaderSize >= 0
                                /\ live[p] \in 1..HEAP_SIZE
                                /\ p + live[p] <= offset
      /\ \A f \in freed : f \in Nat /\ f - HeaderSize >= 0 /\ f <= offset
  BY DEF HeapIInv, HeapBounds, Disjoint, BlocksNeverOverlap, FreedAreOutside
<1>2. ptr - HeaderSize \in Cells
  BY <1>1 DEF Cells, WordMod
<1>3. [size |-> 0, is_free |-> TRUE] \in Content
  BY DEF Content, Header
<1>4. mem' = [mem EXCEPT ![ptr - HeaderSize] = [size |-> 0, is_free |-> TRUE]]
  BY DEF MarkFree
<1>5. mem' \in [Cells -> Content]
  BY <1>1, <1>2, <1>3, <1>4
<1>6. mem'[ptr - HeaderSize] = [size |-> 0, is_free |-> TRUE]
  BY <1>1, <1>2, <1>4
<1>7. \A c \in Cells : c # ptr - HeaderSize => mem'[c] = mem[c]
  BY <1>1, <1>2, <1>4
<1>8. ASSUME NEW p \in DOMAIN live \cup freed, p # ptr
      PROVE  HeaderOf(p)' = HeaderOf(p)
  <2>1. /\ p \in Nat /\ ptr \in Nat /\ HeaderSize \in Nat \ {0} /\ HEAP_SIZE \in Nat
        /\ p - HeaderSize >= 0 /\ p <= offset /\ offset <= HEAP_SIZE + HeaderSize
        /\ offset \in Nat
    BY <1>1
  <2>2. p - HeaderSize \in Cells
    BY <2>1 DEF Cells, WordMod
  <2>3. p - HeaderSize # ptr - HeaderSize
    BY <1>8, <2>1
  <2>. QED
    BY <1>7, <2>2, <2>3 DEF HeaderOf
<1>9. ASSUME NEW p \in DOMAIN live, p # ptr, NEW i \in 0..(live[p] - 1)
      PROVE  mem'[p + i] = mem[p + i]
  <2>1. Apart(p, ptr)
    BY <1>9 DEF HeapIInv, Disjoint, BlocksNeverOverlap
  <2>2. /\ p \in Nat /\ ptr \in Nat /\ HeaderSize \in Nat \ {0} /\ HEAP_SIZE \in Nat
        /\ live[p] \in Nat /\ live[ptr] \in Nat /\ offset \in Nat
        /\ p + live[p] <= offset /\ offset <= HEAP_SIZE + HeaderSize
    BY <1>1
  <2>3. p + i \in Cells
    BY <2>2 DEF Cells, WordMod
  <2>4. p + i # ptr - HeaderSize
    BY <2>1, <2>2 DEF Apart
  <2>. QED
    BY <1>7, <2>3, <2>4
<1>. QED
  BY <1>5, <1>6, <1>8, <1>9

LEMMA OneBlockLess ==
  ASSUME HeapIInv, NEW ptr \in DOMAIN live,
         live' = [p \in DOMAIN live \ {ptr} |-> live[p]]
  PROVE  /\ DOMAIN live' = DOMAIN live \ {ptr}
         /\ \A p \in DOMAIN live' : live'[p] = live[p]
         /\ live' \in [DOMAIN live' -> 1..HEAP_SIZE]
         /\ IsFiniteSet(DOMAIN live')
         /\ Cardinality(DOMAIN live') = blocks_allocated - 1
<1>1. /\ DOMAIN live' = DOMAIN live \ {ptr}
      /\ \A p \in DOMAIN live' : live'[p] = live[p]
  OBVIOUS
<1>2. live' \in [DOMAIN live' -> 1..HEAP_SIZE]
  BY DEF HeapIInv, HeapBounds
<1>3. /\ IsFiniteSet(DOMAIN live')
      /\ Cardinality(DOMAIN live') = blocks_allocated - 1
  BY <1>1, FS_RemoveElement DEF HeapIInv, Counted
<1>. QED
  BY <1>1, <1>2, <1>3

LEMMA FreeLastKeeps ==
  ASSUME HeapIInv, NEW ptr \in DOMAIN live \cup freed, FreeLast(ptr)
  PROVE  HeapIInv' /\ DOMAIN live' = {}
<1>1. ptr \in DOMAIN live
  BY FreedIsHeld DEF FreeLast
<1>2. DOMAIN live' = DOMAIN live \ {ptr} /\ IsFiniteSet(DOMAIN live')
      /\ Cardinality(DOMAIN live') = 0
  BY <1>1, OneBlockLess DEF FreeLast
<1>3. DOMAIN live' = {}
  BY <1>2, FS_EmptySet
<1>4. mem' \in [Cells -> Content]
  BY <1>1, MarkKeeps DEF FreeLast
<1>5. HeapBounds'
  BY <1>1, <1>3, <1>4, OneBlockLess, HeapAssumption DEF FreeLast, HeapBounds
<1>6. Disjoint' /\ FreedAreOutside' /\ Labelled' /\ Counted'
  BY <1>2, <1>3 DEF FreeLast, Disjoint, BlocksNeverOverlap, FreedAreOutside, Labelled, Counted
<1>7. sound'
  BY DEF HeapIInv, FreeLast
<1>. QED
  BY <1>2, <1>3, <1>5, <1>6, <1>7 DEF HeapIInv

LEMMA FreeOneKeeps ==
  ASSUME HeapIInv, NEW ptr \in DOMAIN live \cup freed, FreeOne(ptr)
  PROVE  HeapIInv'
<1> USE HeapAssumption
<1>1. ptr \in DOMAIN live
  BY FreedIsHeld DEF FreeOne
<1>2. /\ MarkFree(ptr) /\ offset' = offset /\ freed' = freed \cup {ptr}
      /\ blocks_allocated' = blocks_allocated - 1 /\ blocks_allocated # 1
      /\ blocks_allocated # 0
  BY DEF FreeOne, Ignored
<1>3. /\ DOMAIN live' = DOMAIN live \ {ptr}
      /\ \A p \in DOMAIN live' : live'[p] = live[p]
      /\ live' \in [DOMAIN live' -> 1..HEAP_SIZE]
      /\ IsFiniteSet(DOMAIN live')
      /\ Cardinality(DOMAIN live') = blocks_allocated'
  BY <1>1, <1>2, OneBlockLess DEF FreeOne
<1>4. /\ \A p \in DOMAIN live : /\ p \in Nat /\ live[p] \in 1..HEAP_SIZE
                                /\ p + live[p] <= offset
      /\ \A f \in freed : f \in Nat /\ f <= offset
      /\ offset \in Nat
  BY DEF HeapIInv, HeapBounds, Disjoint, BlocksNeverOverlap, FreedAreOutside
<1>5. HeapBounds'
  <2>1. mem' \in [Cells -> Content]
    BY <1>1, <1>2, MarkKeeps
  <2>. QED
    BY <1>1, <1>2, <1>3, <2>1 DEF HeapIInv, HeapBounds
<1>6. Disjoint'
  BY <1>2, <1>3 DEF HeapIInv, Disjoint, BlocksNeverOverlap, Apart
<1>7. FreedAreOutside'
  <2>1. \A f \in freed' : f <= offset'
    BY <1>1, <1>2, <1>4
  <2>2. \A p \in DOMAIN live' :
          ptr <= p - HeaderSize \/ p + live'[p] <= ptr - HeaderSize
    BY <1>1, <1>3, <1>4 DEF HeapIInv, Disjoint, BlocksNeverOverlap, Apart
  <2>3. \A f \in freed, p \in DOMAIN live' :
          f <= p - HeaderSize \/ p + live'[p] <= f - HeaderSize
    BY <1>3 DEF HeapIInv, FreedAreOutside
  <2>. QED
    BY <1>2, <2>1, <2>2, <2>3 DEF FreedAreOutside
<1>8. Labelled'
  <2>1. \A p \in DOMAIN live \cup freed : p # ptr => HeaderOf(p)' = HeaderOf(p)
    BY <1>1, <1>2, MarkKeeps
  <2>2. HeaderOf(ptr)' = [size |-> 0, is_free |-> TRUE]
    BY <1>1, <1>2, MarkKeeps DEF HeaderOf
  <2>3. ASSUME NEW p \in DOMAIN live'
        PROVE  HeaderOf(p)' = [size |-> live'[p], is_free |-> FALSE]
    BY <1>3, <2>1 DEF HeapIInv, Labelled
  <2>4. ASSUME NEW f \in freed'
        PROVE  HeaderOf(f)' = [size |-> 0, is_free |-> TRUE]
    BY <1>2, <2>1, <2>2 DEF HeapIInv, Labelled
  <2>. QED
    BY <2>3, <2>4 DEF Labelled
<1>9. Counted'
  <2>1. Cardinality(DOMAIN live') # 0
    BY <1>2, <1>3 DEF HeapIInv, HeapBounds
  <2>2. DOMAIN live' # {}
    BY <2>1, FS_EmptySet
  <2>. QED
    BY <1>3, <2>2 DEF Counted
<1>10. sound'
  BY DEF HeapIInv, FreeOne
<1>. QED
  BY <1>3, <1>5, <1>6, <1>7, <1>8, <1>9, <1>10 DEF HeapIInv

LEMMA ForceFreeKeeps ==
  ASSUME mem \in [Cells -> Content], linear_memory_force_free
  PROVE  HeapIInv' /\ DOMAIN live' = {}
<1> USE HeapAssumption DEF linear_memory_force_free
<1>1. DOMAIN live' = {}
  OBVIOUS
<1>2. IsFiniteSet(DOMAIN live') /\ Cardinality(DOMAIN live') = 0
  BY <1>1, FS_EmptySet
<1>3. HeapBounds'
  BY <1>1 DEF HeapBounds
<1>4. Disjoint' /\ FreedAreOutside' /\ Labelled' /\ Counted'
  BY <1>1, <1>2 DEF Disjoint, BlocksNeverOverlap, FreedAreOutside, Labelled, Counted
<1>. QED
  BY <1>1, <1>2, <1>3, <1>4 DEF HeapIInv

(***************************************************************************)
(* A user's write reaches no header: neither of a block that is held nor   *)
(* of one that was given back.                                             *)
(***************************************************************************)
LEMMA WriteKeeps ==
  ASSUME HeapIInv, NEW ptr \in DOMAIN live, Write(ptr)
  PROVE  /\ HeapIInv'
         /\ \A p \in DOMAIN live : p # ptr =>
              \A k \in 0..(live[p] - 1) : mem'[p + k] = mem[p + k]
<1> USE HeapAssumption
<1>1. /\ offset \in 0..(HEAP_SIZE + HeaderSize) /\ mem \in [Cells -> Content]
      /\ \A p \in DOMAIN live : /\ p \in Nat /\ p - HeaderSize >= 0
                                /\ live[p] \in 1..HEAP_SIZE
                                /\ p + live[p] <= offset
      /\ \A f \in freed : f \in Nat /\ f - HeaderSize >= 0 /\ f <= offset
  BY DEF HeapIInv, HeapBounds, Disjoint, BlocksNeverOverlap, FreedAreOutside
<1>2. PICK S \in SUBSET BytesOf(ptr) : \E g \in [S -> Data] : Store(g)
  BY DEF Write
<1>20. PICK f \in [S -> Data] : Store(f)
  BY <1>2
<1>3. /\ mem' = [c \in Cells |-> IF c \in S THEN f[c] ELSE mem[c]]
      /\ UNCHANGED <<offset, blocks_allocated, live, freed>>
  BY <1>20 DEF Store, Put
<1>4. mem' \in [Cells -> Content]
  BY <1>1, <1>20, <1>3 DEF Content
<1>5. ASSUME NEW p \in DOMAIN live, p # ptr, NEW k \in 0..(live[p] - 1)
      PROVE  mem'[p + k] = mem[p + k]
  <2>1. Apart(p, ptr)
    BY <1>5 DEF HeapIInv, Disjoint, BlocksNeverOverlap
  <2>2. /\ p \in Nat /\ ptr \in Nat /\ HeaderSize \in Nat \ {0} /\ HEAP_SIZE \in Nat
        /\ live[p] \in Nat /\ live[ptr] \in Nat /\ offset \in Nat
        /\ p + live[p] <= offset /\ offset <= HEAP_SIZE + HeaderSize
    BY <1>1
  <2>3. p + k \in Cells
    BY <2>2 DEF Cells, WordMod
  <2>4. p + k \notin BytesOf(ptr)
    BY <2>1, <2>2 DEF Apart, BytesOf
  <2>. QED
    BY <1>2, <1>3, <2>3, <2>4
<1>6. ASSUME NEW p \in DOMAIN live
      PROVE  HeaderOf(p)' = HeaderOf(p)
  <2>1. p - HeaderSize \in Cells
    BY <1>1 DEF Cells, WordMod
  <2>2. CASE p = ptr
    BY <1>1, <1>2, <1>3, <2>1, <2>2 DEF BytesOf, HeaderOf
  <2>3. CASE p # ptr
    <3>1. Apart(p, ptr)
      BY <2>3 DEF HeapIInv, Disjoint, BlocksNeverOverlap
    <3>2. p - HeaderSize \notin BytesOf(ptr)
      BY <1>1, <3>1 DEF Apart, BytesOf
    <3>. QED
      BY <1>2, <1>3, <2>1, <3>2 DEF HeaderOf
  <2>. QED
    BY <2>2, <2>3
<1>7. ASSUME NEW g \in freed
      PROVE  HeaderOf(g)' = HeaderOf(g)
  <2>1. /\ g \in Nat /\ ptr \in Nat /\ HeaderSize \in Nat \ {0} /\ HEAP_SIZE \in Nat
        /\ live[ptr] \in Nat /\ offset \in Nat
        /\ g - HeaderSize >= 0 /\ g <= offset /\ offset <= HEAP_SIZE + HeaderSize
    BY <1>1
  <2>2. g <= ptr - HeaderSize \/ ptr + live[ptr] <= g - HeaderSize
    BY DEF HeapIInv, FreedAreOutside
  <2>3. g - HeaderSize \in Cells
    BY <2>1 DEF Cells, WordMod
  <2>4. g - HeaderSize \notin BytesOf(ptr)
    BY <2>1, <2>2 DEF BytesOf
  <2>. QED
    BY <1>2, <1>3, <2>3, <2>4 DEF HeaderOf
<1>8. Labelled'
  BY <1>3, <1>6, <1>7 DEF HeapIInv, Labelled
<1>9. /\ HeapBounds' /\ IsFiniteSet(DOMAIN live') /\ Disjoint'
      /\ FreedAreOutside' /\ Counted'
  BY <1>3, <1>4 DEF HeapIInv, HeapBounds, Disjoint, BlocksNeverOverlap, Apart, FreedAreOutside, Counted
<1>10. sound'
  BY <1>20 DEF HeapIInv, Store
<1>. QED
  BY <1>5, <1>8, <1>9, <1>10 DEF HeapIInv

LEMMA NextHeapIInv == HeapIInv /\ [HeapNext]_heapVars /\ sound' => HeapIInv'
<1> SUFFICES ASSUME HeapIInv, [HeapNext]_heapVars, sound' PROVE HeapIInv'
  OBVIOUS
<1>1. ASSUME NEW size \in Sizes, linear_memory_alloc(size) PROVE HeapIInv'
  BY <1>1, AllocKeeps, HeapAssumption
<1>2. ASSUME NEW ptr \in DOMAIN live, NEW size \in Sizes, linear_memory_realloc(ptr, size)
      PROVE  HeapIInv'
  BY <1>2, AllocKeeps, HeapAssumption DEF linear_memory_realloc
<1>3. ASSUME NEW ptr \in DOMAIN live \cup freed, linear_memory_free(ptr) PROVE HeapIInv'
  BY <1>3, FreeLastKeeps, FreeOneKeeps DEF linear_memory_free
<1>4. CASE linear_memory_force_free
  BY <1>4, ForceFreeKeeps DEF HeapIInv, HeapBounds
<1>5. ASSUME NEW ptr \in DOMAIN live, Write(ptr) PROVE HeapIInv'
  BY <1>5, WriteKeeps
<1>6. CASE UNCHANGED heapVars
  BY <1>6 DEF heapVars, HeapIInv, HeapBounds, Disjoint, BlocksNeverOverlap, Apart,
              FreedAreOutside, Labelled, HeaderOf, Counted
<1>. QED
  BY <1>1, <1>2, <1>3, <1>4, <1>5, <1>6 DEF HeapNext

(***************************************************************************)
(* A heap that is overrun keeps no more than the width of its words.  Only *)
(* allocations and force_free are left to it, and what force_free leaves   *)
(* is whole again.                                                         *)
(***************************************************************************)
HeapInv == HeapTypeOK /\ (sound => HeapIInv)

LEMMA BoundsAreTypes == HeapIInv => HeapTypeOK
<1> SUFFICES ASSUME HeapIInv PROVE HeapTypeOK
  OBVIOUS
<1>1. /\ HEAP_SIZE \in Nat /\ HeaderSize \in Nat \ {0} /\ SizeMod \in Nat
      /\ HEAP_SIZE + HeaderSize < SizeMod /\ WordMod = 2 * SizeMod
  BY HeapAssumption DEF WordMod
<1>2. 0..(HEAP_SIZE + HeaderSize) \subseteq Cells /\ 1..HEAP_SIZE \subseteq 1..(WordMod - 1)
  BY <1>1 DEF Cells
<1>3. HeaderSize..(HEAP_SIZE + HeaderSize) \subseteq Cells
  BY <1>1 DEF Cells
<1>. QED
  BY <1>2, <1>3 DEF HeapIInv, HeapBounds, HeapTypeOK

LEMMA AllocTypes ==
  ASSUME HeapTypeOK, NEW size \in Sizes, linear_memory_alloc(size)
  PROVE  HeapTypeOK'
<1> DEFINE ptr == (offset + HeaderSize) % WordMod
           hdr == [size |-> size % SizeMod, is_free |-> FALSE]
<1>1. /\ HEAP_SIZE \in Nat /\ HeaderSize \in Nat \ {0} /\ SizeMod \in Nat \ {0}
      /\ WordMod = 2 * SizeMod /\ WordMod \in Nat \ {0} /\ size \in 0..(WordMod - 1)
  BY HeapAssumption DEF WordMod
<1>2. offset \in Cells /\ offset \in Nat
  BY <1>1 DEF HeapTypeOK, Cells
<1>3. size \in 1..(WordMod - 1) /\ size # 0
  BY <1>1 DEF linear_memory_alloc, Refuses
<1>4. ptr \in Cells /\ (offset + size + HeaderSize) % WordMod \in Cells
  BY <1>1, <1>2 DEF Cells
<1>5. hdr \in Content
  <2>1. size % SizeMod \in 0..(SizeMod - 1)
    BY <1>1
  <2>. QED
    BY <2>1 DEF Content, Header
<1> HIDE DEF hdr, ptr
<1>6. /\ offset' = (offset + size + HeaderSize) % WordMod
      /\ mem' = [mem EXCEPT ![offset] = hdr]
      /\ blocks_allocated' = blocks_allocated + 1
      /\ live' = [q \in DOMAIN live \cup {ptr} |-> IF q = ptr THEN size ELSE live[q]]
      /\ sound' = (sound /\ ~Overrun) /\ freed' = freed
  BY DEF linear_memory_alloc, Take, Allocated, hdr, ptr
<1>7. mem' \in [Cells -> Content]
  BY <1>5, <1>6 DEF HeapTypeOK
<1>8. DOMAIN live' \subseteq Cells /\ live' \in [DOMAIN live' -> 1..(WordMod - 1)]
  BY <1>3, <1>4, <1>6 DEF HeapTypeOK
<1>9. blocks_allocated' \in Nat /\ freed' \subseteq Cells /\ offset' \in Cells
  BY <1>4, <1>6 DEF HeapTypeOK
<1>10. sound' \in BOOLEAN
  BY <1>6
<1>. QED
  BY <1>7, <1>8, <1>9, <1>10 DEF HeapTypeOK

LEMMA NextHeapInv == HeapInv /\ [HeapNext]_heapVars => HeapInv'
<1> SUFFICES ASSUME HeapInv, [HeapNext]_heapVars PROVE HeapInv'
  OBVIOUS
<1>1. ASSUME NEW size \in Sizes, linear_memory_alloc(size)
      PROVE  HeapTypeOK' /\ (sound' => sound)
  <2>1. sound' => sound
    BY <1>1 DEF linear_memory_alloc, Take, Allocated
  <2>. QED
    BY <1>1, <2>1, AllocTypes DEF HeapInv
<1>2. CASE linear_memory_force_free
  <2>1. HeapIInv'
    BY <1>2, ForceFreeKeeps DEF HeapInv, HeapTypeOK
  <2>. QED
    BY <2>1, BoundsAreTypes, PTL DEF HeapInv
<1>3. CASE UNCHANGED heapVars
  BY <1>3 DEF heapVars, HeapInv, HeapTypeOK, HeapIInv, HeapBounds, Disjoint,
              BlocksNeverOverlap, Apart, FreedAreOutside, Labelled, HeaderOf, Counted
<1>4. ASSUME NEW size \in Sizes, linear_memory_alloc(size) PROVE HeapInv'
  BY <1>1, <1>4, NextHeapIInv DEF HeapInv, HeapNext
<1>5. ASSUME sound, NEW ptr \in DOMAIN live, NEW size \in Sizes, linear_memory_realloc(ptr, size)
      PROVE  HeapInv'
  BY <1>4, <1>5 DEF linear_memory_realloc
<1>6. ASSUME sound, NEW ptr \in DOMAIN live \cup freed, linear_memory_free(ptr) PROVE HeapInv'
  <2>1. HeapIInv'
    BY <1>6, FreeLastKeeps, FreeOneKeeps DEF linear_memory_free, HeapInv
  <2>. QED
    BY <2>1, BoundsAreTypes, PTL DEF HeapInv
<1>7. ASSUME sound, NEW ptr \in DOMAIN live, Write(ptr) PROVE HeapInv'
  <2>1. HeapIInv'
    BY <1>7, WriteKeeps DEF HeapInv
  <2>. QED
    BY <2>1, BoundsAreTypes, PTL DEF HeapInv
<1>. QED
  BY <1>2, <1>3, <1>4, <1>5, <1>6, <1>7 DEF HeapNext

(***************************************************************************)
(* The inductive invariant holds in every state of the allocator, those in *)
(* which it is overrun included.                                           *)
(***************************************************************************)
THEOREM HeapInvariance == HeapSpec => []HeapInv
<1>1. HeapInit => HeapInv
  BY InitHeapIInv, BoundsAreTypes DEF HeapInv
<1>. QED
  BY <1>1, NextHeapInv, PTL DEF HeapSpec

(***************************************************************************)
(* The variables keep their types for whatever is asked for, also once     *)
(* offset and pointers have wrapped.                                       *)
(***************************************************************************)
THEOREM HeapTypeCorrect == HeapSpec => []HeapTypeOK
BY HeapInvariance, PTL DEF HeapInv

(***************************************************************************)
(* Until a block is taken from a heap that is overrun, blocks never        *)
(* overlap, nor does a block and another's header, and the offset is at    *)
(* most a header behind the heap: the promise fails at that allocation and *)
(* at no earlier one.                                                      *)
(***************************************************************************)
THEOREM Apartness == HeapSpec => []BlocksAreApart
<1>1. HeapInv => BlocksAreApart
  BY HeapAssumption DEF HeapInv, HeapIInv, HeapBounds, BlocksAreApart
<1>. QED
  BY <1>1, HeapInvariance, PTL

(***************************************************************************)
(* Headers are never damaged, for any sequence of calls and writes up to   *)
(* that allocation.                                                        *)
(***************************************************************************)
THEOREM HeadersKept == HeapSpec => []HeadersTell
<1>1. HeapInv => HeadersTell
  BY DEF HeapInv, HeapIInv, HeadersTell
<1>. QED
  BY <1>1, HeapInvariance, PTL

(***************************************************************************)
(* Up to there, double frees are ignored and the heap is whole when no     *)
(* block is held.                                                          *)
(***************************************************************************)
THEOREM NothingLeaks == HeapSpec => []CountIsLive
<1>1. HeapInv => CountIsLive
  BY DEF HeapInv, HeapIInv, CountIsLive
<1>. QED
  BY <1>1, HeapInvariance, PTL

-----------------------------------------------------------------------------
(***************************************************************************)
(* The refinement: an allocation adds a block of the abstract allocator, a *)
(* free takes one away, and the headers written meanwhile are in none.     *)
(***************************************************************************)
LEMMA AllocImplements ==
  ASSUME HeapIInv, NEW size \in Nat, linear_memory_alloc(size), sound'
  PROVE  Abstract!Allocate
<1>0. SoundContents = Contents /\ SoundContents' = Contents'
  BY DEF HeapIInv, SoundContents
<1> DEFINE ptr == offset + HeaderSize
<1> USE HeapAssumption
<1>1. offset \in Nat /\ size \in Nat \ {0}
  BY AllocSteps
<1>2. /\ mem' = [mem EXCEPT ![offset] = [size |-> size % SizeMod, is_free |-> FALSE]]
      /\ live' = [q \in DOMAIN live \cup {ptr} |->
                    IF q = ptr THEN size ELSE live[q]]
  BY AllocSteps
<1>3. \A p \in DOMAIN live :
        /\ p \in Nat /\ live[p] \in 1..HEAP_SIZE /\ p + live[p] <= offset /\ p # ptr
  BY <1>1 DEF HeapIInv, HeapBounds, Disjoint, BlocksNeverOverlap
<1>4. mem \in [Cells -> Content] /\ offset <= HEAP_SIZE
  BY AllocSteps DEF HeapIInv, HeapBounds
<1>5. ASSUME NEW q \in DOMAIN live
      PROVE  Contents'[q] = Contents[q]
  <2>1. q \in DOMAIN live' /\ live'[q] = live[q]
    BY <1>2, <1>3
  <2>2. \A k \in 0..(live[q] - 1) : mem'[q + k] = mem[q + k]
    BY <1>1, <1>2, <1>3, <1>4 DEF Cells, WordMod
  <2>. QED
    BY <2>1, <2>2 DEF Contents
<1>6. DOMAIN Contents = DOMAIN live /\ DOMAIN Contents' = DOMAIN live \cup {ptr}
  BY <1>2 DEF Contents
<1>7. ptr \notin DOMAIN live
  BY <1>3
<1>8. Contents' = [q \in DOMAIN Contents \cup {ptr} |->
                     IF q = ptr THEN Contents'[ptr] ELSE Contents[q]]
  <2>1. Contents' = [q \in DOMAIN Contents' |-> Contents'[q]]
    BY DEF Contents
  <2>. QED
    BY <2>1, <1>5, <1>6
<1>. QED
  BY <1>0, <1>6, <1>7, <1>8 DEF Abstract!Allocate

LEMMA FreeImplements ==
  ASSUME HeapIInv, NEW ptr \in DOMAIN live \cup freed, linear_memory_free(ptr), sound'
  PROVE  Abstract!Release
<1>0. SoundContents = Contents /\ SoundContents' = Contents'
  BY DEF HeapIInv, SoundContents
<1>1. ptr \in DOMAIN live
  BY FreedIsHeld DEF linear_memory_free, FreeLast, FreeOne
<1>2. MarkFree(ptr) /\ live' = [p \in DOMAIN live \ {ptr} |-> live[p]]
  BY DEF linear_memory_free, FreeLast, FreeOne
<1>3. ASSUME NEW q \in DOMAIN live \ {ptr}
      PROVE  Contents'[q] = Contents[q]
  <2>1. q \in DOMAIN live' /\ live'[q] = live[q]
    BY <1>2
  <2>2. \A k \in 0..(live[q] - 1) : mem'[q + k] = mem[q + k]
    BY <1>1, <1>2, MarkKeeps
  <2>. QED
    BY <2>1, <2>2 DEF Contents
<1>4. DOMAIN Contents = DOMAIN live /\ DOMAIN Contents' = DOMAIN live \ {ptr}
  BY <1>2 DEF Contents
<1>5. Contents' = [q \in DOMAIN Contents \ {ptr} |-> Contents[q]]
  <2>1. Contents' = [q \in DOMAIN Contents' |-> Contents'[q]]
    BY DEF Contents
  <2>. QED
    BY <2>1, <1>3, <1>4
<1>. QED
  BY <1>0, <1>1, <1>4, <1>5 DEF Abstract!Release

LEMMA WriteImplements ==
  ASSUME HeapIInv, NEW ptr \in DOMAIN live, Write(ptr), sound'
  PROVE  Abstract!Write
<1>0. SoundContents = Contents /\ SoundContents' = Contents'
  BY DEF HeapIInv, SoundContents
<1>1. live' = live
  BY DEF Write, Store, Put
<1>2. ASSUME NEW p \in DOMAIN live, p # ptr
      PROVE  Contents'[p] = Contents[p]
  <2>1. \A k \in 0..(live[p] - 1) : mem'[p + k] = mem[p + k]
    BY <1>2, WriteKeeps
  <2>. QED
    BY <2>1, <1>1 DEF Contents
<1>3. /\ Contents = [p \in DOMAIN live |-> Contents[p]]
      /\ Contents' = [p \in DOMAIN live |-> Contents'[p]]
      /\ DOMAIN Contents = DOMAIN live
      /\ DOMAIN Contents'[ptr] = DOMAIN Contents[ptr]
  BY <1>1 DEF Contents
<1>4. Contents' = [Contents EXCEPT ![ptr] = Contents'[ptr]]
  BY <1>2, <1>3
<1>. QED
  BY <1>0, <1>3, <1>4 DEF Abstract!Write

LEMMA EmptyContents == DOMAIN live = {} => Contents = [p \in {} |-> {}]
BY DEF Contents

(***************************************************************************)
(* The linear heap is an allocator of private memory.                      *)
(***************************************************************************)
THEOREM HeapRefinement == HeapSpec => ImplementsAllocator
<1>1. HeapInit => Abstract!Init
  BY EmptyContents DEF HeapInit, SoundContents, Abstract!Init, Abstract!NoBlock
<1>2. HeapInv /\ [HeapNext]_heapVars => [Abstract!Next]_<<SoundContents, ~sound>>
  <2> SUFFICES ASSUME HeapInv, [HeapNext]_heapVars
               PROVE  [Abstract!Next]_<<SoundContents, ~sound>>
    OBVIOUS
  <2>1. CASE ~sound'
    BY <2>1 DEF SoundContents, Abstract!Next, Abstract!Lose, Abstract!NoBlock
  <2>2. CASE linear_memory_force_free
    <3>1. DOMAIN live' = {} /\ sound'
      BY <2>2, ForceFreeKeeps DEF HeapInv, HeapTypeOK, linear_memory_force_free
    <3>2. SoundContents' = [p \in {} |-> {}]
      BY <3>1 DEF SoundContents, Contents
    <3>. QED
      BY <3>1, <3>2 DEF Abstract!Next, Abstract!ReleaseAll, Abstract!NoBlock
  <2>3. CASE UNCHANGED heapVars
    BY <2>3 DEF heapVars, SoundContents, Contents
  <2>4. CASE sound' /\ ~linear_memory_force_free /\ ~UNCHANGED heapVars
    <3>1. sound /\ HeapIInv
      BY <2>4 DEF HeapInv, HeapNext, linear_memory_alloc, Take, Allocated
    <3>2. ASSUME NEW size \in Sizes, linear_memory_alloc(size) PROVE Abstract!Allocate
      BY <2>4, <3>1, <3>2, AllocImplements, HeapAssumption
    <3>3. ASSUME NEW ptr \in DOMAIN live, NEW size \in Sizes, linear_memory_realloc(ptr, size)
          PROVE  Abstract!Allocate
      BY <3>2, <3>3 DEF linear_memory_realloc
    <3>4. ASSUME NEW ptr \in DOMAIN live \cup freed, linear_memory_free(ptr)
          PROVE  Abstract!Release
      BY <2>4, <3>1, <3>4, FreeImplements
    <3>5. ASSUME NEW ptr \in DOMAIN live, Write(ptr) PROVE Abstract!Write
      BY <2>4, <3>1, <3>5, WriteImplements
    <3>6. Abstract!Allocate \/ Abstract!Release \/ Abstract!Write
      BY <2>4, <3>2, <3>3, <3>4, <3>5 DEF HeapNext
    <3>. QED
      BY <2>4, <3>1, <3>6 DEF Abstract!Next
  <2>. QED
    BY <2>1, <2>2, <2>3, <2>4
<1>. QED
  BY <1>1, <1>2, HeapInvariance, PTL DEF HeapSpec, ImplementsAllocator, Abstract!Spec

-----------------------------------------------------------------------------
(***************************************************************************)
(* What a thread's block holds.                                            *)
(***************************************************************************)
Base(t) == sched[t].base

Guarded(t) ==
  \A a \in Base(t)..(StackLow(Base(t)) - 1) :
    mem[a] = IF a = AlignedSp(Base(t)) THEN THREAD ELSE GUARD_MAGIC_BYTE

Valued(from, to) == \A a \in from..(to - 1) : mem[a] \in Values

Running(t) ==
  /\ StackLow(Base(t)) + 2 * HalfFrame <= psp /\ psp <= Top(t)
  /\ Valued(psp, Top(t))

Suspended(t) ==
  LET sp == sched[t].sp
  IN  /\ StackLow(Base(t)) <= sp /\ sp + 2 * HalfFrame <= Top(t)
      /\ mem[sp] \in Values /\ mem[sp + HalfFrame] \in Values
      /\ Valued(sp + 2 * HalfFrame, Top(t))

(***************************************************************************)
(* The inductive invariant: every thread has a block of its own, and above *)
(* the guard of a stack the words between the stack pointer and the top    *)
(* are what registers held, so that what is restored fits into registers.  *)
(* The invariant of the heap is needed because only apart blocks keep one  *)
(* thread's pushes out of another one's stack.                             *)
(***************************************************************************)
Owns(t) == Base(t) \in DOMAIN live /\ sched[t].size = live[Base(t)]

TInv ==
  /\ HeapIInv
  /\ ThreadTypes /\ BASE_THREAD_ID <= cur_thread_id
  /\ is_os_started <=> cur_thread # NoThread
  /\ \A t, u \in DOMAIN sched : t # u => Base(t) # Base(u)
  /\ \A t \in DOMAIN sched : Owns(t) /\ Guarded(t)
  /\ \A t \in DOMAIN sched : t # cur_thread => Suspended(t)
  /\ cur_thread # NoThread => Running(cur_thread)

LEMMA Constants ==
  /\ {Align, ThreadSize, GuardSize, HalfFrame} \subseteq Nat \ {0}
  /\ HEAP_SIZE \in Nat /\ HeaderSize \in Nat \ {0} /\ BASE_THREAD_ID \in Nat
  /\ Values \subseteq Data /\ ZERO \in Values
  /\ {GUARD_MAGIC_BYTE, STACK_MAGIC_BYTE, THREAD} \subseteq Data
BY HeapAssumption, ThreadAssumption

LEMMA AlignedIsAbove ==
  ASSUME NEW base \in Nat
  PROVE  /\ AlignedSp(base) \in Nat /\ StackLow(base) \in Nat
         /\ base < AlignedSp(base) /\ AlignedSp(base) < StackLow(base)
<1>1. Align \in Nat \ {0} /\ ThreadSize \in Nat \ {0} /\ GuardSize \in Nat \ {0}
  BY Constants
<1>2. base \div Align \in Nat /\ base % Align \in 0..(Align - 1)
  BY <1>1
<1>3. base = Align * (base \div Align) + (base % Align)
  BY <1>1
<1>4. (base \div Align) * Align \in Nat /\ base < (base \div Align) * Align + Align
  BY <1>1, <1>2, <1>3
<1>. QED
  BY <1>1, <1>4 DEF AlignedSp, StackLow

(* Where a stack lies. *)
LEMMA Layout ==
  ASSUME TInv, NEW t \in DOMAIN sched
  PROVE  /\ Base(t) \in Nat /\ Base(t) \in DOMAIN live /\ Base(t) - HeaderSize >= 0
         /\ live[Base(t)] \in Nat \ {0}
         /\ Top(t) = Base(t) + live[Base(t)] /\ Top(t) \in Nat
         /\ Top(t) <= HEAP_SIZE + HeaderSize
         /\ Base(t)..(Top(t) - 1) \subseteq Cells
         /\ BytesOf(Base(t)) = Base(t)..(Top(t) - 1)
         /\ sched[t] \in [base : Cells, size : Nat, sp : Cells]
<1>1. /\ Base(t) \in DOMAIN live /\ sched[t].size = live[Base(t)]
      /\ sched[t] \in [base : Cells, size : Nat, sp : Cells]
  BY DEF TInv, Owns, ThreadTypes
<1>2. /\ Base(t) \in HeaderSize..(HEAP_SIZE + HeaderSize) /\ live[Base(t)] \in 1..HEAP_SIZE
      /\ Base(t) + live[Base(t)] <= offset /\ offset \in 0..(HEAP_SIZE + HeaderSize)
  BY <1>1 DEF TInv, HeapIInv, HeapBounds, Disjoint, BlocksNeverOverlap
<1>3. Top(t) = Base(t) + live[Base(t)]
  BY <1>1 DEF Top, Base
<1>4. HEAP_SIZE \in Nat /\ HeaderSize \in Nat \ {0}
  BY Constants
<1>5. /\ Base(t) \in Nat /\ Base(t) - HeaderSize >= 0 /\ live[Base(t)] \in Nat \ {0}
      /\ Top(t) \in Nat /\ Top(t) <= HEAP_SIZE + HeaderSize
  BY <1>2, <1>3, <1>4
<1>6. Base(t)..(Top(t) - 1) \subseteq Cells
  BY <1>4, <1>5, HeapAssumption DEF Cells, WordMod
<1>7. BytesOf(Base(t)) = Base(t)..(Top(t) - 1)
  <2>1. BytesOf(Base(t)) = Base(t)..(Base(t) + live[Base(t)] - 1)
    BY DEF BytesOf
  <2>2. Base(t) + live[Base(t)] - 1 = Top(t) - 1
    BY <1>3, <1>5
  <2>. QED
    BY <2>1, <2>2
<1>. QED
  BY <1>1, <1>3, <1>5, <1>6, <1>7

(***************************************************************************)
(* A block that a step leaves alone.                                       *)
(***************************************************************************)
Kept(p) ==
  /\ p \in DOMAIN live' /\ live'[p] = live[p]
  /\ \A k \in 0..(live[p] - 1) : mem'[p + k] = mem[p + k]

LEMMA KeptBytes ==
  ASSUME TInv, NEW t \in DOMAIN sched, Kept(Base(t)), NEW a \in Base(t)..(Top(t) - 1)
  PROVE  mem'[a] = mem[a]
<1>1. a - Base(t) \in 0..(live[Base(t)] - 1) /\ Base(t) + (a - Base(t)) = a
  BY Layout
<1>. QED
  BY <1>1 DEF Kept

LEMMA KeptThread ==
  ASSUME TInv, NEW t \in DOMAIN sched, Kept(Base(t)),
         t \in DOMAIN sched', sched'[t] = sched[t],
         StackLow(Base(t)) <= Top(t)
  PROVE  /\ Owns(t)' /\ Guarded(t)'
         /\ Suspended(t) => Suspended(t)'
<1>1. Base(t)' = Base(t) /\ Top(t)' = Top(t)
  BY DEF Base, Top
<1>2. Owns(t)'
  BY <1>1 DEF TInv, Owns, Kept
<1>3. \A a \in Base(t)..(Top(t) - 1) : mem'[a] = mem[a]
  BY KeptBytes
<1>4. Base(t) \in Nat /\ Top(t) \in Nat /\ StackLow(Base(t)) \in Nat
      /\ Base(t) < StackLow(Base(t))
  <2>1. Base(t) \in Nat /\ Top(t) \in Nat
    BY Layout
  <2>2. /\ StackLow(Base(t)) \in Nat /\ AlignedSp(Base(t)) \in Nat
        /\ Base(t) < AlignedSp(Base(t)) /\ AlignedSp(Base(t)) < StackLow(Base(t))
    BY <2>1, AlignedIsAbove
  <2>. QED
    BY <2>1, <2>2
<1>5. Guarded(t)'
  <2>1. \A a \in Base(t)..(StackLow(Base(t)) - 1) : mem'[a] = mem[a]
    BY <1>3, <1>4
  <2>2. StackLow(Base(t))' = StackLow(Base(t)) /\ AlignedSp(Base(t))' = AlignedSp(Base(t))
    BY <1>1 DEF StackLow, AlignedSp
  <2>3. Guarded(t)
    BY DEF TInv
  <2>. QED
    BY <1>1, <2>1, <2>2, <2>3 DEF Guarded
<1>6. ASSUME Suspended(t)
      PROVE  Suspended(t)'
  <2> DEFINE sp == sched[t].sp
  <2>1. sp \in Nat /\ sched'[t].sp = sp /\ HalfFrame \in Nat \ {0}
    BY Layout, Constants DEF Cells, WordMod
  <2>2. mem[sp] = mem'[sp] /\ mem[sp + HalfFrame] = mem'[sp + HalfFrame]
    BY <1>3, <1>4, <1>6, <2>1 DEF Suspended
  <2>3. \A a \in (sp + 2 * HalfFrame)..(Top(t) - 1) : mem'[a] = mem[a]
    BY <1>3, <1>4, <1>6, <2>1 DEF Suspended
  <2>. QED
    BY <1>1, <1>6, <2>1, <2>2, <2>3 DEF Suspended, Valued
<1>. QED
  BY <1>2, <1>5, <1>6

LEMMA RoomForGuard ==
  ASSUME TInv, NEW t \in DOMAIN sched
  PROVE  /\ StackLow(Base(t)) <= Top(t) /\ StackLow(Base(t)) \in Nat
         /\ Base(t) < StackLow(Base(t))
<1>1. /\ StackLow(Base(t)) \in Nat /\ Top(t) \in Nat /\ HalfFrame \in Nat
      /\ Base(t) < StackLow(Base(t))
  <2>1. Base(t) \in Nat /\ Top(t) \in Nat /\ HalfFrame \in Nat
    BY Layout, Constants
  <2>2. /\ AlignedSp(Base(t)) \in Nat /\ StackLow(Base(t)) \in Nat
        /\ Base(t) < AlignedSp(Base(t)) /\ AlignedSp(Base(t)) < StackLow(Base(t))
    BY <2>1, AlignedIsAbove
  <2>. QED
    BY <2>1, <2>2
<1>2. CASE t = cur_thread
  <2>1. t # NoThread
    BY Constants DEF TInv, ThreadTypes, NoThread
  <2>. QED
    BY <1>1, <1>2, <2>1 DEF TInv, Running, ThreadTypes
<1>3. CASE t # cur_thread
  <2>1. sched[t].sp \in Nat
    BY Layout, Constants DEF Cells, WordMod
  <2>. QED
    BY <1>1, <1>3, <2>1 DEF TInv, Suspended
<1>. QED
  BY <1>1, <1>2, <1>3

-----------------------------------------------------------------------------
(***************************************************************************)
(* Steps of the heap.                                                      *)
(***************************************************************************)
LEMMA AllocKeepsBlocks ==
  ASSUME HeapIInv, NEW size \in Nat, linear_memory_alloc(size), sound', NEW p \in DOMAIN live
  PROVE  Kept(p)
<1> DEFINE ptr == offset + HeaderSize
<1> USE HeapAssumption
<1>1. /\ mem' = [mem EXCEPT ![offset] = [size |-> size % SizeMod, is_free |-> FALSE]]
      /\ live' = [q \in DOMAIN live \cup {ptr} |-> IF q = ptr THEN size ELSE live[q]]
  BY AllocSteps
<1>2. /\ p \in Nat /\ live[p] \in Nat /\ p + live[p] <= offset /\ p < offset
      /\ offset \in Nat /\ offset <= HEAP_SIZE + HeaderSize
  BY DEF HeapIInv, HeapBounds, Disjoint, BlocksNeverOverlap
<1>3. live'[p] = live[p] /\ p \in DOMAIN live'
  BY <1>1, <1>2
<1>4. \A k \in 0..(live[p] - 1) : p + k # offset /\ p + k \in Cells
  BY <1>2 DEF Cells, WordMod
<1>5. mem \in [Cells -> Content]
  BY DEF HeapIInv, HeapBounds
<1>. QED
  BY <1>1, <1>3, <1>4, <1>5 DEF Kept

LEMMA FreeKeepsBlocks ==
  ASSUME HeapIInv, NEW ptr \in DOMAIN live \cup freed, linear_memory_free(ptr),
         NEW p \in DOMAIN live, p # ptr
  PROVE  Kept(p)
<1>1. ptr \in DOMAIN live
  BY FreedIsHeld DEF linear_memory_free, FreeLast, FreeOne
<1>2. MarkFree(ptr) /\ live' = [q \in DOMAIN live \ {ptr} |-> live[q]]
  BY DEF linear_memory_free, FreeLast, FreeOne
<1>3. \A k \in 0..(live[p] - 1) : mem'[p + k] = mem[p + k]
  BY <1>1, <1>2, MarkKeeps
<1>. QED
  BY <1>2, <1>3 DEF Kept

LEMMA WriteKeepsBlocks ==
  ASSUME HeapIInv, NEW ptr \in DOMAIN live, Write(ptr), NEW p \in DOMAIN live, p # ptr
  PROVE  Kept(p)
<1>1. live' = live
  BY DEF Write, Store, Put
<1>. QED
  BY <1>1, WriteKeeps DEF Kept

-----------------------------------------------------------------------------
(***************************************************************************)
(* A running thread writes above the guard of its own stack.               *)
(***************************************************************************)
LEMMA OwnWrite ==
  ASSUME TInv, NEW t \in DOMAIN sched,
         NEW S \in SUBSET (StackLow(Base(t))..(Top(t) - 1)), NEW f \in [S -> Data], Store(f)
  PROVE  /\ HeapIInv' /\ Write(Base(t))
         /\ live' = live
         /\ \A u \in DOMAIN sched : u # t => Kept(Base(u))
         /\ \A c \in Base(t)..(Top(t) - 1) : mem'[c] = IF c \in S THEN f[c] ELSE mem[c]
<1>1. /\ Base(t) \in DOMAIN live /\ BytesOf(Base(t)) = Base(t)..(Top(t) - 1)
      /\ Base(t) \in Nat /\ Top(t) \in Nat /\ Base(t)..(Top(t) - 1) \subseteq Cells
  BY Layout
<1>2. StackLow(Base(t)) \in Nat /\ Base(t) < StackLow(Base(t))
  BY <1>1, AlignedIsAbove
<1>3. S \in SUBSET BytesOf(Base(t))
  BY <1>1, <1>2
<1>4. Write(Base(t))
  BY <1>3 DEF Write
<1>5. HeapIInv
  BY DEF TInv
<1>6. HeapIInv'
  BY <1>1, <1>4, <1>5, WriteKeeps
<1>7. ASSUME NEW u \in DOMAIN sched, u # t
      PROVE  Kept(Base(u))
  <2>1. Base(u) # Base(t) /\ Base(u) \in DOMAIN live
    BY <1>7, Layout DEF TInv
  <2>. QED
    BY <1>1, <1>4, <1>5, <2>1, WriteKeepsBlocks
<1>8. /\ live' = live
      /\ \A c \in Base(t)..(Top(t) - 1) : mem'[c] = IF c \in S THEN f[c] ELSE mem[c]
  BY <1>1 DEF Store, Put
<1>. QED
  BY <1>4, <1>6, <1>7, <1>8

(* The guard and the thread_t are below all that it writes. *)
LEMMA OwnWriteKeepsGuard ==
  ASSUME TInv, NEW t \in DOMAIN sched,
         NEW S \in SUBSET (StackLow(Base(t))..(Top(t) - 1)), NEW f \in [S -> Data], Store(f),
         t \in DOMAIN sched', Base(t)' = Base(t), Top(t)' = Top(t),
         sched'[t].size = sched[t].size
  PROVE  Owns(t)' /\ Guarded(t)'
<1>1. /\ live' = live
      /\ \A c \in Base(t)..(Top(t) - 1) : mem'[c] = IF c \in S THEN f[c] ELSE mem[c]
  BY OwnWrite
<1>2. Owns(t)'
  BY <1>1 DEF TInv, Owns
<1>3. /\ Base(t) \in Nat /\ Top(t) \in Nat /\ StackLow(Base(t)) \in Nat
      /\ StackLow(Base(t)) <= Top(t)
  BY Layout, RoomForGuard
<1>4. \A a \in Base(t)..(StackLow(Base(t)) - 1) : mem'[a] = mem[a]
  BY <1>1, <1>3
<1>5. Guarded(t)
  BY DEF TInv
<1>. QED
  BY <1>2, <1>4, <1>5 DEF Guarded

(* The running thread has room for the frames of an exception. *)
LEMMA RunningLayout ==
  ASSUME TInv, cur_thread # NoThread
  PROVE  /\ cur_thread \in DOMAIN sched /\ psp \in Nat
         /\ StackLow(Base(cur_thread)) + 2 * HalfFrame <= psp /\ psp <= Top(cur_thread)
         /\ psp - HalfFrame \in StackLow(Base(cur_thread))..(Top(cur_thread) - 1)
         /\ psp - 2 * HalfFrame \in StackLow(Base(cur_thread))..(Top(cur_thread) - 1)
         /\ callee \in Data /\ caller \in Data
<1>1. /\ cur_thread \in DOMAIN sched /\ psp \in Nat /\ callee \in Values /\ caller \in Values
      /\ Running(cur_thread)
  BY DEF TInv, ThreadTypes
<1>2. /\ StackLow(Base(cur_thread)) \in Nat /\ Top(cur_thread) \in Nat
      /\ HalfFrame \in Nat \ {0}
  BY <1>1, Layout, RoomForGuard, Constants
<1>. QED
  BY <1>1, <1>2, Constants DEF Running

-----------------------------------------------------------------------------
(***************************************************************************)
(* The initial states.                                                     *)
(***************************************************************************)
LEMMA InitTInv == Init => TInv
<1> SUFFICES ASSUME Init PROVE TInv
  OBVIOUS
<1>1. HeapIInv
  BY InitHeapIInv DEF Init
<1>2. DOMAIN sched = {}
  BY DEF Init
<1>3. ThreadTypes
  BY <1>2, Constants DEF Init, ThreadTypes, NoThread
<1>4. cur_thread_id = BASE_THREAD_ID /\ BASE_THREAD_ID <= cur_thread_id
  BY Constants DEF Init
<1>. QED
  BY <1>1, <1>2, <1>3, <1>4 DEF Init, TInv

-----------------------------------------------------------------------------
(***************************************************************************)
(* The steps.  First those that leave memory and threads as they are.      *)
(***************************************************************************)
LEMMA QuietKeeps ==
  ASSUME TInv, UNCHANGED <<heapVars, sched, cur_thread_id, cur_thread, is_os_started, psp>>,
         pendsv' \in BOOLEAN, callee' \in Values, caller' \in Values
  PROVE  TInv'
<1>1. HeapIInv'
  <2>1. [HeapNext]_heapVars
    OBVIOUS
  <2>. QED
    BY <2>1, NextHeapIInv DEF TInv, HeapIInv, heapVars
<1>2. ThreadTypes'
  BY DEF TInv, ThreadTypes
<1>3. \A t \in DOMAIN sched : (Owns(t) /\ Guarded(t))'
  BY DEF TInv, heapVars, Owns, Guarded, Base, StackLow, AlignedSp
<1>4. \A t \in DOMAIN sched : t # cur_thread => Suspended(t)'
  BY DEF TInv, heapVars, Suspended, Valued, Base, Top, StackLow, AlignedSp
<1>5. cur_thread # NoThread => Running(cur_thread)'
  BY DEF TInv, heapVars, Running, Valued, Base, Top, StackLow, AlignedSp
<1>6. \A t, u \in DOMAIN sched : t # u => Base(t)' # Base(u)'
  BY DEF TInv, Base
<1>7. is_os_started' <=> cur_thread' # NoThread
  BY DEF TInv
<1>. QED
  BY <1>1, <1>2, <1>3, <1>4, <1>5, <1>6, <1>7 DEF TInv

LEMMA NothingStored == ASSUME TInv, Store(<< >>) PROVE UNCHANGED heapVars
<1>1. mem \in [Cells -> Content]
  BY DEF TInv, HeapIInv, HeapBounds
<1>2. mem' = [c \in Cells |-> mem[c]]
  BY DEF Store, Put
<1>3. mem' = mem
  BY <1>1, <1>2
<1>. QED
  BY <1>3 DEF Store, Put, heapVars

(***************************************************************************)
(* The heap is used by somebody: every stack is kept.                      *)
(***************************************************************************)
LEMMA UseHeapKeepsBlocks ==
  ASSUME TInv, UseHeap, sound'
  PROVE  HeapIInv' /\ \A t \in DOMAIN sched : Kept(Base(t))
<1>1. /\ HeapIInv /\ Sizes \subseteq Nat
      /\ \A t \in DOMAIN sched : Base(t) \in DOMAIN live /\ Base(t) \in Stacks
  BY HeapAssumption DEF TInv, Owns, Stacks, Base
<1>2. ASSUME NEW size \in Sizes, linear_memory_alloc(size)
      PROVE  HeapIInv' /\ \A t \in DOMAIN sched : Kept(Base(t))
  BY <1>1, <1>2, AllocKeeps, AllocKeepsBlocks
<1>3. ASSUME NEW p \in (DOMAIN live \cup freed) \ Stacks, linear_memory_free(p)
      PROVE  HeapIInv' /\ \A t \in DOMAIN sched : Kept(Base(t))
  <2>1. HeapIInv'
    BY <1>1, <1>3, FreeLastKeeps, FreeOneKeeps DEF linear_memory_free
  <2>2. \A t \in DOMAIN sched : p # Base(t)
    BY <1>1
  <2>. QED
    BY <1>1, <1>3, <2>1, <2>2, FreeKeepsBlocks
<1>4. CASE DOMAIN sched = {} /\ linear_memory_force_free
  BY <1>1, <1>4, ForceFreeKeeps DEF HeapIInv, HeapBounds
<1>5. ASSUME NEW p \in DOMAIN live \ Stacks, NEW v \in Values, Store([a \in BytesOf(p) |-> v])
      PROVE  HeapIInv' /\ \A t \in DOMAIN sched : Kept(Base(t))
  <2>1. [a \in BytesOf(p) |-> v] \in [BytesOf(p) -> Data]
    BY Constants
  <2>2. Write(p)
    BY <1>5, <2>1 DEF Write
  <2>3. \A t \in DOMAIN sched : p # Base(t)
    BY <1>1
  <2>. QED
    BY <1>1, <2>2, <2>3, WriteKeeps, WriteKeepsBlocks
<1>. QED
  BY <1>2, <1>3, <1>4, <1>5 DEF UseHeap, linear_memory_realloc

LEMMA UseHeapKeeps ==
  ASSUME TInv, UseHeap, sound'
  PROVE  TInv'
<1>1. HeapIInv' /\ \A t \in DOMAIN sched : Kept(Base(t))
  BY UseHeapKeepsBlocks
<1>2. UNCHANGED <<sched, cur_thread_id, cur_thread, is_os_started, pendsv, psp, callee, caller>>
  BY DEF UseHeap, threadVars, cpu
<1>3. \A t \in DOMAIN sched : /\ Owns(t)' /\ Guarded(t)'
                              /\ t # cur_thread => Suspended(t)'
  <2>1. ASSUME NEW t \in DOMAIN sched
        PROVE  Owns(t)' /\ Guarded(t)' /\ (Suspended(t) => Suspended(t)')
    BY <1>1, <1>2, KeptThread, RoomForGuard
  <2>. QED
    BY <2>1 DEF TInv
<1>4. ASSUME cur_thread # NoThread
      PROVE  Running(cur_thread)'
  <2> DEFINE t == cur_thread
  <2>1. t \in DOMAIN sched /\ Running(t)
    BY <1>4 DEF TInv, ThreadTypes
  <2>2. \A a \in Base(t)..(Top(t) - 1) : mem'[a] = mem[a]
    BY <1>1, <2>1, KeptBytes
  <2>3. /\ Base(t) \in Nat /\ Top(t) \in Nat /\ psp \in Nat /\ HalfFrame \in Nat
        /\ StackLow(Base(t)) \in Nat /\ Base(t) < StackLow(Base(t))
    <3>1. Base(t) \in Nat /\ Top(t) \in Nat /\ HalfFrame \in Nat
      BY <2>1, Layout, Constants
    <3>2. StackLow(Base(t)) \in Nat /\ Base(t) < StackLow(Base(t))
      BY <3>1, AlignedIsAbove
    <3>3. psp \in Nat
      BY DEF TInv, ThreadTypes
    <3>. QED
      BY <3>1, <3>2, <3>3
  <2>4. Base(t)' = Base(t) /\ Top(t)' = Top(t)
    BY <1>2 DEF Base, Top
  <2>5. \A a \in psp..(Top(t) - 1) : mem'[a] = mem[a]
    BY <2>1, <2>2, <2>3 DEF Running
  <2> HIDE DEF t
  <2>6. Running(t)'
    BY <1>2, <2>1, <2>4, <2>5 DEF Running, Valued
  <2>. QED
    BY <1>2, <2>6 DEF t
<1>5. ThreadTypes'
  BY <1>2 DEF TInv, ThreadTypes
<1>6. \A t, u \in DOMAIN sched : t # u => Base(t)' # Base(u)'
  BY <1>2 DEF TInv, Base
<1>. QED
  BY <1>1, <1>2, <1>3, <1>4, <1>5, <1>6 DEF TInv

(***************************************************************************)
(* The running thread pushes and pops.                                     *)
(***************************************************************************)
LEMMA PushKeeps ==
  ASSUME TInv, NEW v \in Values, Push(v)
  PROVE  TInv'
<1> DEFINE t == cur_thread
           S == {psp - 1}
           f == Word(psp - 1, v)
<1>1. /\ t \in DOMAIN sched /\ psp \in Nat /\ Base(t) \in Nat /\ Top(t) \in Nat
      /\ StackLow(Base(t)) \in Nat /\ HalfFrame \in Nat \ {0}
      /\ psp <= Top(t) /\ Running(t) /\ t # NoThread
  <2>1. t # NoThread
    BY DEF Push
  <2>2. t \in DOMAIN sched /\ psp \in Nat /\ Running(t)
    BY <2>1 DEF TInv, ThreadTypes
  <2>. QED
    BY <2>1, <2>2, Layout, RoomForGuard, Constants DEF Running
<1>2. /\ Store(f) /\ psp' = psp - 1 /\ psp - 1 - 2 * HalfFrame >= StackLow(Base(t))
      /\ UNCHANGED <<sched, cur_thread_id, cur_thread, is_os_started, pendsv, callee, caller>>
  BY DEF Push, Base
<1>3. S \in SUBSET (StackLow(Base(t))..(Top(t) - 1)) /\ f \in [S -> Data] /\ f[psp - 1] = v
  BY <1>1, <1>2, Constants DEF Word
<1>4. /\ Base(t)' = Base(t) /\ Top(t)' = Top(t)
      /\ \A u \in DOMAIN sched : Base(u)' = Base(u)
  BY <1>2 DEF Base, Top
<1> HIDE DEF f
<1>5. /\ HeapIInv' /\ \A u \in DOMAIN sched : u # t => Kept(Base(u))
      /\ \A c \in Base(t)..(Top(t) - 1) : mem'[c] = IF c \in S THEN f[c] ELSE mem[c]
  <2>1. t \in DOMAIN sched /\ Store(f)
    BY <1>1, <1>2
  <2>2. S \in SUBSET (StackLow(Base(t))..(Top(t) - 1)) /\ f \in [S -> Data]
    BY <1>3
  <2>. QED
    BY <2>1, <2>2, OwnWrite
<1>6. Owns(t)' /\ Guarded(t)'
  BY <1>1, <1>2, <1>3, <1>4, OwnWriteKeepsGuard
<1>7. ASSUME NEW u \in DOMAIN sched, u # t
      PROVE  Owns(u)' /\ Guarded(u)' /\ Suspended(u)'
  BY <1>2, <1>5, <1>7, KeptThread, RoomForGuard DEF TInv
<1>8. Running(t)'
  <2>1. \A a \in psp..(Top(t) - 1) : mem'[a] = mem[a]
    <3>1. Base(t) < StackLow(Base(t))
      <4>1. t \in DOMAIN sched
        BY <1>1
      <4>. QED
        BY <4>1, RoomForGuard
    <3>. QED
      BY <1>1, <1>2, <1>5, <3>1
  <2>2. mem'[psp - 1] = v
    <3>1. Base(t) < StackLow(Base(t))
      <4>1. t \in DOMAIN sched
        BY <1>1
      <4>. QED
        BY <4>1, RoomForGuard
    <3>2. psp - 1 \in Base(t)..(Top(t) - 1)
      BY <1>1, <1>2, <3>1
    <3>. QED
      BY <1>3, <1>5, <3>2
  <2>3. \A a \in (psp - 1)..(Top(t) - 1) : a = psp - 1 \/ a \in psp..(Top(t) - 1)
    BY <1>1
  <2>. QED
    BY <1>1, <1>2, <1>4, <2>1, <2>2, <2>3 DEF Running, Valued, StackLow, AlignedSp
<1>9. ThreadTypes'
  BY <1>1, <1>2 DEF TInv, ThreadTypes
<1>. QED
  BY <1>2, <1>4, <1>5, <1>6, <1>7, <1>8, <1>9 DEF TInv

LEMMA PopKeeps ==
  ASSUME TInv, Pop
  PROVE  TInv'
<1> DEFINE t == cur_thread
<1>1. t # NoThread /\ psp < Top(t) /\ psp' = psp + 1 /\ callee' = mem[psp]
      /\ UNCHANGED <<heapVars, sched, cur_thread_id, cur_thread, is_os_started, pendsv, caller>>
  BY DEF Pop
<1>2. t \in DOMAIN sched /\ psp \in Nat /\ Running(t)
  BY <1>1 DEF TInv, ThreadTypes
<1>3. Top(t) \in Nat /\ StackLow(Base(t)) \in Nat /\ HalfFrame \in Nat \ {0}
  BY <1>2, Layout, RoomForGuard, Constants
<1>4. callee' \in Values
  BY <1>1, <1>2, <1>3 DEF Running, Valued
<1>5. HeapIInv'
  <2>1. [HeapNext]_heapVars
    BY <1>1
  <2>2. HeapIInv /\ sound'
    BY <1>1 DEF TInv, HeapIInv, heapVars
  <2>. QED
    BY <2>1, <2>2, NextHeapIInv
<1>6. \A u \in DOMAIN sched : (Owns(u) /\ Guarded(u))'
  BY <1>1 DEF TInv, heapVars, Owns, Guarded, Base, StackLow, AlignedSp
<1>7. \A u \in DOMAIN sched : u # t => Suspended(u)'
  BY <1>1 DEF TInv, heapVars, Suspended, Valued, Base, Top, StackLow, AlignedSp
<1>8. Running(t)'
  <2>1. Base(t)' = Base(t) /\ Top(t)' = Top(t) /\ mem' = mem
    BY <1>1 DEF Base, Top, heapVars
  <2>2. StackLow(Base(t)) + 2 * HalfFrame <= psp + 1 /\ psp + 1 <= Top(t)
    BY <1>1, <1>2, <1>3 DEF Running
  <2>3. \A a \in (psp + 1)..(Top(t) - 1) : mem[a] \in Values
    BY <1>2, <1>3 DEF Running, Valued
  <2>. QED
    BY <1>1, <2>1, <2>2, <2>3 DEF Running, Valued, StackLow, AlignedSp
<1>9. ThreadTypes'
  BY <1>1, <1>2, <1>4 DEF TInv, ThreadTypes
<1>10. \A u, x \in DOMAIN sched : u # x => Base(u)' # Base(x)'
  BY <1>1 DEF TInv, Base
<1>. QED
  BY <1>1, <1>5, <1>6, <1>7, <1>8, <1>9, <1>10 DEF TInv

(***************************************************************************)
(* PendSV with the thread that runs anyway: the frame of the exception is  *)
(* written below its stack pointer.                                        *)
(***************************************************************************)
LEMMA SameThreadKeeps ==
  ASSUME TInv, SameThread
  PROVE  TInv'
<1> DEFINE t == cur_thread
           S == {psp - HalfFrame}
           f == Word(psp - HalfFrame, caller)
<1>1. pendsv' = FALSE /\ Store(Pushed)
      /\ UNCHANGED <<sched, cur_thread_id, cur_thread, is_os_started, psp, callee, caller>>
  BY DEF SameThread, cpu
<1>2. CASE t = NoThread
  <2>1. UNCHANGED heapVars
    BY <1>1, <1>2, NothingStored DEF Pushed
  <2>2. callee \in Values /\ caller \in Values
    BY DEF TInv, ThreadTypes
  <2>. QED
    BY <1>1, <2>1, <2>2, QuietKeeps
<1>3. CASE t # NoThread
  <2>1. /\ t \in DOMAIN sched /\ psp \in Nat /\ S \in SUBSET (StackLow(Base(t))..(Top(t) - 1))
        /\ caller \in Data
    BY <1>3, RunningLayout
  <2>2. f \in [S -> Data] /\ Store(f)
    BY <1>1, <1>3, <2>1 DEF Word, Pushed
  <2>3. /\ Base(t)' = Base(t) /\ Top(t)' = Top(t)
        /\ \A u \in DOMAIN sched : Base(u)' = Base(u)
    BY <1>1 DEF Base, Top
  <2> HIDE DEF f
  <2>4. /\ HeapIInv' /\ \A u \in DOMAIN sched : u # t => Kept(Base(u))
        /\ \A c \in Base(t)..(Top(t) - 1) : mem'[c] = IF c \in S THEN f[c] ELSE mem[c]
    BY <2>1, <2>2, OwnWrite
  <2>5. Owns(t)' /\ Guarded(t)'
    BY <1>1, <2>1, <2>2, <2>3, OwnWriteKeepsGuard
  <2>6. ASSUME NEW u \in DOMAIN sched, u # t
        PROVE  Owns(u)' /\ Guarded(u)' /\ Suspended(u)'
    BY <1>1, <2>4, <2>6, KeptThread, RoomForGuard DEF TInv
  <2>7. Running(t)'
    <3>1. /\ Base(t) \in Nat /\ Top(t) \in Nat /\ Base(t) < StackLow(Base(t))
          /\ StackLow(Base(t)) \in Nat /\ HalfFrame \in Nat \ {0}
          /\ Running(t)
      <4>1. t \in DOMAIN sched /\ Running(t)
        BY <1>3, <2>1 DEF TInv
      <4>. QED
        BY <4>1, Layout, RoomForGuard, Constants
    <3>2. \A a \in psp..(Top(t) - 1) : mem'[a] = mem[a]
      BY <2>1, <2>4, <3>1 DEF Running
    <3>. QED
      BY <1>1, <2>3, <3>1, <3>2 DEF Running, Valued, StackLow, AlignedSp
  <2>8. ThreadTypes'
    BY <1>1 DEF TInv, ThreadTypes
  <2>. QED
    BY <1>1, <2>1, <2>3, <2>4, <2>5, <2>6, <2>7, <2>8 DEF TInv
<1>. QED
  BY <1>2, <1>3

(***************************************************************************)
(* PendSV with another thread.  What is restored was saved, or built.      *)
(***************************************************************************)
LEMMA SavedLayout ==
  ASSUME TInv, NEW t \in DOMAIN sched, t # cur_thread
  PROVE  /\ sched[t].sp \in Nat /\ HalfFrame \in Nat \ {0} /\ Base(t) \in Nat
         /\ Top(t) \in Nat /\ StackLow(Base(t)) \in Nat /\ Base(t) < StackLow(Base(t))
         /\ StackLow(Base(t)) <= sched[t].sp /\ sched[t].sp + 2 * HalfFrame <= Top(t)
         /\ mem[sched[t].sp] \in Values /\ mem[sched[t].sp + HalfFrame] \in Values
         /\ Valued(sched[t].sp + 2 * HalfFrame, Top(t))
<1>1. sched[t].sp \in Nat
  BY Layout, Constants DEF Cells, WordMod
<1>2. Suspended(t)
  BY DEF TInv
<1>. QED
  BY <1>1, <1>2, Layout, RoomForGuard, Constants DEF Suspended

LEMMA KeptSaved ==
  ASSUME TInv, NEW t \in DOMAIN sched, t # cur_thread, Kept(Base(t))
  PROVE  /\ mem'[sched[t].sp] = mem[sched[t].sp]
         /\ mem'[sched[t].sp + HalfFrame] = mem[sched[t].sp + HalfFrame]
         /\ \A a \in (sched[t].sp + 2 * HalfFrame)..(Top(t) - 1) : mem'[a] = mem[a]
<1>1. \A a \in Base(t)..(Top(t) - 1) : mem'[a] = mem[a]
  BY KeptBytes
<1>. QED
  BY <1>1, SavedLayout

LEMMA Restored ==
  ASSUME TInv, NEW t \in DOMAIN sched, t # cur_thread, Kept(Base(t)),
         Restore(t), sched'[t] = sched[t]
  PROVE  /\ Running(t)' /\ psp' \in Nat /\ callee' \in Values /\ caller' \in Values
<1>1. /\ psp' = sched[t].sp + 2 * HalfFrame
      /\ callee' = mem[sched[t].sp] /\ caller' = mem[sched[t].sp + HalfFrame]
  BY KeptSaved DEF Restore
<1>2. psp' \in Nat /\ callee' \in Values /\ caller' \in Values
  BY <1>1, SavedLayout
<1>3. Base(t)' = Base(t) /\ Top(t)' = Top(t) /\ StackLow(Base(t))' = StackLow(Base(t))
  BY DEF Base, Top, StackLow, AlignedSp
<1>4. StackLow(Base(t)) + 2 * HalfFrame <= psp' /\ psp' <= Top(t)
  BY <1>1, SavedLayout
<1>5. \A a \in psp'..(Top(t) - 1) : mem'[a] \in Values
  BY <1>1, SavedLayout, KeptSaved DEF Valued
<1>. QED
  BY <1>2, <1>3, <1>4, <1>5 DEF Running, Valued

(* The state of the thread that is switched away from lies in its stack. *)
LEMMA SwitchSaves ==
  ASSUME TInv, NEW t \in DOMAIN sched, t = cur_thread, Store(Saved),
         sched' = [sched EXCEPT ![t].sp = psp - 2 * HalfFrame]
  PROVE  /\ HeapIInv' /\ live' = live
         /\ \A u \in DOMAIN sched : u # t => Kept(Base(u)) /\ sched'[u] = sched[u]
         /\ DOMAIN sched' = DOMAIN sched
         /\ sched' \in [DOMAIN sched -> [base : Cells, size : Nat, sp : Cells]]
         /\ \A u \in DOMAIN sched : Base(u)' = Base(u)
         /\ Top(t)' = Top(t) /\ sched'[t].sp = psp - 2 * HalfFrame
         /\ Owns(t)' /\ Guarded(t)' /\ Suspended(t)'
         /\ mem'[psp - 2 * HalfFrame] = callee /\ mem'[psp - HalfFrame] = caller
         /\ \A a \in psp..(Top(t) - 1) : mem'[a] = mem[a]
<1> DEFINE low == psp - 2 * HalfFrame
           mid == psp - HalfFrame
           S == {mid, low}
           f == Saved
<1>1. cur_thread # NoThread
  BY Constants DEF TInv, ThreadTypes, NoThread
<1>2. /\ psp \in Nat /\ low \in StackLow(Base(t))..(Top(t) - 1)
      /\ mid \in StackLow(Base(t))..(Top(t) - 1)
      /\ callee \in Data /\ caller \in Data /\ psp <= Top(t)
  BY <1>1, RunningLayout
<1>3. S \in SUBSET (StackLow(Base(t))..(Top(t) - 1)) /\ f \in [S -> Data]
  BY <1>2 DEF Saved
<1>4. f[mid] = caller /\ f[low] = callee /\ HalfFrame \in Nat \ {0}
  BY <1>2, Constants DEF Saved
<1>5. low + HalfFrame = mid /\ low + 2 * HalfFrame = psp /\ low < psp /\ mid < psp
  BY <1>2, <1>4
<1>6. Store(f)
  OBVIOUS
<1>7. /\ Base(t) \in Nat /\ Top(t) \in Nat /\ StackLow(Base(t)) \in Nat
      /\ Base(t) < StackLow(Base(t)) /\ Base(t)..(Top(t) - 1) \subseteq Cells
      /\ sched[t] \in [base : Cells, size : Nat, sp : Cells]
  BY Layout, RoomForGuard
<1>8. low \in Base(t)..(Top(t) - 1) /\ mid \in Base(t)..(Top(t) - 1) /\ low \in Cells
  BY <1>2, <1>7
<1>9. sched' = [sched EXCEPT ![t].sp = low]
  OBVIOUS
<1> HIDE DEF f, low, mid
<1>10. /\ HeapIInv' /\ live' = live
       /\ \A u \in DOMAIN sched : u # t => Kept(Base(u))
       /\ \A c \in Base(t)..(Top(t) - 1) : mem'[c] = IF c \in S THEN f[c] ELSE mem[c]
  BY <1>3, <1>6, OwnWrite
<1>11. /\ DOMAIN sched' = DOMAIN sched
       /\ \A u \in DOMAIN sched : u # t => sched'[u] = sched[u]
       /\ sched'[t] = [base |-> sched[t].base, size |-> sched[t].size, sp |-> low]
  BY <1>7, <1>9
<1>12. sched' \in [DOMAIN sched -> [base : Cells, size : Nat, sp : Cells]]
  BY <1>7, <1>8, <1>9 DEF TInv, ThreadTypes
<1>13. /\ sched'[t].base = sched[t].base /\ sched'[t].size = sched[t].size
       /\ sched'[t].sp = low
  BY <1>11
<1>14. /\ \A u \in DOMAIN sched : Base(u)' = Base(u)
       /\ Top(t)' = Top(t) /\ StackLow(Base(t))' = StackLow(Base(t))
  BY <1>11, <1>13 DEF Base, Top, StackLow, AlignedSp
<1>15. Owns(t)' /\ Guarded(t)'
  <2>1. t \in DOMAIN sched' /\ Base(t)' = Base(t)
    BY <1>11, <1>14
  <2>. QED
    BY <1>3, <1>6, <1>13, <1>14, <2>1, OwnWriteKeepsGuard
<1>16. mem'[low] = callee /\ mem'[mid] = caller
  BY <1>4, <1>8, <1>10
<1>17. \A a \in psp..(Top(t) - 1) : mem'[a] = mem[a]
  <2>1. ASSUME NEW a \in psp..(Top(t) - 1)
        PROVE  a \in Base(t)..(Top(t) - 1) /\ a # low /\ a # mid
    BY <1>2, <1>5, <1>7, <1>8
  <2>. QED
    BY <1>10, <2>1
<1>18. Suspended(t)'
  <2>1. \A a \in psp..(Top(t) - 1) : mem'[a] \in Values
    <3>1. Running(t)
      BY <1>1 DEF TInv
    <3>. QED
      BY <1>17, <3>1 DEF Running, Valued
  <2>2. callee \in Values /\ caller \in Values
    BY DEF TInv, ThreadTypes
  <2>3. StackLow(Base(t)) <= low
    BY <1>2, <1>7
  <2>. QED
    BY <1>2, <1>5, <1>13, <1>14, <1>16, <2>1, <2>2, <2>3 DEF Suspended, Valued
<1>. QED
  BY <1>10, <1>11, <1>12, <1>13, <1>14, <1>15, <1>16, <1>17, <1>18 DEF low, mid

LEMMA SwitchKeeps ==
  ASSUME TInv, NEW nxt \in DOMAIN sched, SwitchTo(nxt)
  PROVE  TInv'
<1> DEFINE t == cur_thread
<1>1. /\ nxt # t /\ Restore(nxt) /\ cur_thread' = nxt /\ is_os_started' = TRUE
      /\ pendsv' = FALSE /\ cur_thread_id' = cur_thread_id /\ nxt # NoThread
  BY Constants DEF SwitchTo, TInv, ThreadTypes, NoThread
<1>2. CASE ~is_os_started
  <2>1. t = NoThread /\ Store(<< >>) /\ sched' = sched
    BY <1>2 DEF SwitchTo, Pushed, TInv
  <2>2. UNCHANGED heapVars
    BY <2>1, NothingStored
  <2>3. HeapIInv'
    <3>1. [HeapNext]_heapVars
      BY <2>2
    <3>. QED
      BY <2>2, <3>1, NextHeapIInv DEF TInv, HeapIInv, heapVars
  <2>4. \A u \in DOMAIN sched : Kept(Base(u))
    BY <2>2, Layout DEF Kept, heapVars
  <2>5. ASSUME NEW u \in DOMAIN sched
        PROVE  Owns(u)' /\ Guarded(u)' /\ Suspended(u)'
    <3>1. u # t
      BY <2>1, Constants DEF TInv, ThreadTypes, NoThread
    <3>. QED
      BY <2>1, <2>4, <3>1, KeptThread, RoomForGuard DEF TInv
  <2>6. Running(nxt)' /\ psp' \in Nat /\ callee' \in Values /\ caller' \in Values
    BY <1>1, <2>1, <2>4, Restored
  <2>7. ThreadTypes'
    BY <1>1, <2>1, <2>6 DEF TInv, ThreadTypes
  <2>8. \A u, x \in DOMAIN sched : u # x => Base(u)' # Base(x)'
    BY <2>1 DEF TInv, Base
  <2>. QED
    BY <1>1, <2>1, <2>3, <2>5, <2>6, <2>7, <2>8 DEF TInv
<1>3. CASE is_os_started
  <2>1. PICK u \in DOMAIN sched : u = cur_thread
    BY <1>3 DEF TInv, ThreadTypes
  <2>2. Store(Saved) /\ sched' = [sched EXCEPT ![u].sp = psp - 2 * HalfFrame]
    BY <1>3, <2>1 DEF SwitchTo
  <2>3. /\ HeapIInv'
        /\ \A x \in DOMAIN sched : x # u => Kept(Base(x)) /\ sched'[x] = sched[x]
        /\ DOMAIN sched' = DOMAIN sched
        /\ sched' \in [DOMAIN sched -> [base : Cells, size : Nat, sp : Cells]]
        /\ \A x \in DOMAIN sched : Base(x)' = Base(x)
        /\ Owns(u)' /\ Guarded(u)' /\ Suspended(u)'
    BY <2>1, <2>2, SwitchSaves
  <2>4. ASSUME NEW x \in DOMAIN sched, x # u
        PROVE  Owns(x)' /\ Guarded(x)' /\ Suspended(x)'
    BY <2>1, <2>3, <2>4, KeptThread, RoomForGuard DEF TInv
  <2>5. Running(nxt)' /\ psp' \in Nat /\ callee' \in Values /\ caller' \in Values
    BY <1>1, <2>1, <2>3, Restored
  <2>6. ThreadTypes'
    BY <1>1, <2>3, <2>5 DEF TInv, ThreadTypes
  <2>7. \A x, y \in DOMAIN sched : x # y => Base(x)' # Base(y)'
    BY <2>3 DEF TInv
  <2>. QED
    BY <1>1, <2>1, <2>3, <2>4, <2>5, <2>6, <2>7 DEF TInv
<1>. QED
  BY <1>2, <1>3 DEF TInv, ThreadTypes

(***************************************************************************)
(* A block becomes a stack.                                                *)
(***************************************************************************)
LEMMA NewStackHolds ==
  ASSUME NEW base \in Nat, NEW size \in Nat, NEW task \in Values,
         StackLow(base) + 2 * HalfFrame <= base + size
  PROVE  LET sp == base + size - 2 * HalfFrame
             f  == NewStack(base, size, task)
         IN  /\ f \in [base..(base + size - 1) -> Data]
             /\ sp \in StackLow(base)..(base + size - 1) /\ sp + HalfFrame <= base + size - 1
             /\ f[sp] = ZERO /\ f[sp + HalfFrame] = task
             /\ \A a \in base..(StackLow(base) - 1) :
                  f[a] = IF a = AlignedSp(base) THEN THREAD ELSE GUARD_MAGIC_BYTE
<1> DEFINE sp == base + size - 2 * HalfFrame
           f  == NewStack(base, size, task)
<1>1. /\ AlignedSp(base) \in Nat /\ StackLow(base) \in Nat /\ HalfFrame \in Nat \ {0}
      /\ base < AlignedSp(base) /\ AlignedSp(base) < StackLow(base)
  BY AlignedIsAbove, Constants
<1>2. sp \in StackLow(base)..(base + size - 1) /\ sp + HalfFrame <= base + size - 1
  BY <1>1
<1>3. {ZERO, task, GUARD_MAGIC_BYTE, STACK_MAGIC_BYTE, THREAD} \subseteq Data
  BY Constants
<1>4. ~(sp < base)
  BY <1>1, <1>2
<1>5. f = [a \in base..(base + size - 1) |->
             IF a = AlignedSp(base) THEN THREAD
             ELSE CASE a = sp                         -> ZERO
                    [] a = sp + HalfFrame             -> task
                    [] a < sp /\ a < StackLow(base)   -> GUARD_MAGIC_BYTE
                    [] OTHER                          -> STACK_MAGIC_BYTE]
  BY <1>4 DEF NewStack
<1> HIDE DEF f, sp
<1>50. ASSUME NEW a \in base..(base + size - 1)
       PROVE  f[a] = IF a = AlignedSp(base) THEN THREAD
                     ELSE IF a = sp THEN ZERO ELSE IF a = sp + HalfFrame THEN task
                     ELSE IF a < sp /\ a < StackLow(base) THEN GUARD_MAGIC_BYTE
                     ELSE STACK_MAGIC_BYTE
  BY <1>1, <1>2, <1>5
<1>6. ASSUME NEW a \in base..(base + size - 1)
      PROVE  f[a] \in {ZERO, task, GUARD_MAGIC_BYTE, STACK_MAGIC_BYTE, THREAD}
  BY <1>50
<1>7. f \in [base..(base + size - 1) -> Data]
  BY <1>3, <1>5, <1>6
<1>8. f[sp] = ZERO /\ f[sp + HalfFrame] = task
  <2>1. sp \in base..(base + size - 1) /\ sp + HalfFrame \in base..(base + size - 1)
    BY <1>1, <1>2
  <2>2. sp # AlignedSp(base) /\ sp + HalfFrame # AlignedSp(base) /\ sp + HalfFrame # sp
    BY <1>1, <1>2
  <2>. QED
    BY <1>50, <2>1, <2>2
<1>9. ASSUME NEW a \in base..(StackLow(base) - 1)
      PROVE  f[a] = IF a = AlignedSp(base) THEN THREAD ELSE GUARD_MAGIC_BYTE
  <2>1. /\ a \in base..(base + size - 1) /\ a < StackLow(base)
        /\ a < sp /\ a # sp /\ a # sp + HalfFrame
    BY <1>1, <1>2
  <2>. QED
    BY <1>50, <2>1
<1>. QED
  BY <1>2, <1>7, <1>8, <1>9 DEF sp, f

LEMMA StackBuilt ==
  ASSUME TInv, NEW base \in DOMAIN live \ Stacks, NEW task \in Values,
         NEW size, size = live[base], NEW id, id = cur_thread_id + 1,
         thread_create(base, size, task), sound'
  PROVE  /\ TInv' /\ id \notin DOMAIN sched /\ DOMAIN sched' = DOMAIN sched \cup {id}
         /\ \A t \in DOMAIN sched : Kept(Base(t)) /\ sched'[t] = sched[t]
<1> DEFINE sp   == base + size - 2 * HalfFrame
           f    == NewStack(base, size, task)
<1>2. /\ StackLow(base) + 2 * HalfFrame <= base + size
      /\ Store(f) /\ cur_thread_id' = cur_thread_id + 2
      /\ sched' = [t \in DOMAIN sched \cup {id} |->
           IF t = id THEN [base |-> base, size |-> size, sp |-> sp] ELSE sched[t]]
      /\ UNCHANGED <<cur_thread, is_os_started, pendsv, psp, callee, caller>>
  <2>1. /\ Room(base, size) >= 2 * HalfFrame /\ Store(f)
    <3>1. Room(base, size) >= 2 * HalfFrame
      BY Zenon DEF thread_create
    <3>2. sound /\ Put(f)
      BY DEF thread_create, TInv, HeapIInv
    <3>. QED
      BY <3>1, <3>2 DEF Store
  <2>2. StackLow(base) + 2 * HalfFrame <= base + size
    <3>1. StackLow(base) \in Nat /\ base \in Nat /\ size \in Nat /\ HalfFrame \in Nat
      BY AlignedIsAbove, Constants DEF TInv, HeapIInv, HeapBounds
    <3>. QED
      BY <2>1, <3>1 DEF Room
  <2>. QED
    BY <2>1, <2>2 DEF thread_create, cpu
<1>3. /\ base \in Nat /\ size \in Nat \ {0} /\ base + size <= HEAP_SIZE + HeaderSize
  BY Constants DEF TInv, HeapIInv, HeapBounds, Disjoint, BlocksNeverOverlap
<1>4. /\ f \in [base..(base + size - 1) -> Data]
      /\ sp \in StackLow(base)..(base + size - 1) /\ sp + HalfFrame <= base + size - 1
      /\ f[sp] = ZERO /\ f[sp + HalfFrame] = task
      /\ \A a \in base..(StackLow(base) - 1) :
           f[a] = IF a = AlignedSp(base) THEN THREAD ELSE GUARD_MAGIC_BYTE
  BY <1>2, <1>3, NewStackHolds
<1>5. /\ AlignedSp(base) \in Nat /\ StackLow(base) \in Nat /\ HalfFrame \in Nat \ {0}
      /\ base < StackLow(base) /\ base..(base + size - 1) \subseteq Cells
      /\ sp + 2 * HalfFrame = base + size
  <2>1. /\ AlignedSp(base) \in Nat /\ StackLow(base) \in Nat
        /\ base < AlignedSp(base) /\ AlignedSp(base) < StackLow(base)
    BY <1>3, AlignedIsAbove
  <2>. QED
    BY <1>3, <2>1, Constants, HeapAssumption DEF Cells, WordMod
<1> HIDE DEF f, sp
<1>6. /\ id \notin DOMAIN sched /\ id # cur_thread
      /\ DOMAIN sched \cup {id} \subseteq (BASE_THREAD_ID + 1)..cur_thread_id'
      /\ cur_thread_id' \in Nat /\ BASE_THREAD_ID <= cur_thread_id'
  <2>1. /\ cur_thread_id \in Nat /\ BASE_THREAD_ID \in Nat /\ BASE_THREAD_ID <= cur_thread_id
        /\ DOMAIN sched \subseteq (BASE_THREAD_ID + 1)..cur_thread_id
        /\ cur_thread \in DOMAIN sched \/ cur_thread = 0
    BY Constants DEF TInv, ThreadTypes, NoThread
  <2>2. id \notin DOMAIN sched
    BY <2>1
  <2>. QED
    BY <1>2, <2>1, <2>2
<1>7. /\ DOMAIN sched' = DOMAIN sched \cup {id}
      /\ \A t \in DOMAIN sched : sched'[t] = sched[t]
      /\ sched'[id] = [base |-> base, size |-> size, sp |-> sp]
  BY <1>2, <1>6
<1>8. sched'[id].base = base /\ sched'[id].size = size /\ sched'[id].sp = sp
  BY <1>7
<1>9. Write(base) /\ live' = live
  <2>1. base..(base + size - 1) \in SUBSET BytesOf(base)
    BY DEF BytesOf
  <2>2. \E g \in [base..(base + size - 1) -> Data] : Store(g)
    BY <1>2, <1>4
  <2>3. live' = live
    BY <1>2 DEF Store, Put
  <2>. QED
    BY <2>1, <2>2, <2>3 DEF Write
<1>10. HeapIInv'
  BY <1>9, WriteKeeps DEF TInv
<1>11. ASSUME NEW t \in DOMAIN sched
       PROVE  Base(t) # base /\ Kept(Base(t))
  <2>1. Base(t) # base /\ Base(t) \in DOMAIN live
    BY Layout DEF Stacks, Base
  <2>. QED
    BY <1>9, <2>1, WriteKeepsBlocks DEF TInv
<1>12. /\ \A t \in DOMAIN sched : Base(t)' = Base(t) /\ Top(t)' = Top(t)
       /\ Base(id)' = base /\ Top(id)' = base + size
  BY <1>7, <1>8 DEF Base, Top
<1>13. \A a \in base..(base + size - 1) : mem'[a] = f[a]
  BY <1>2, <1>4, <1>5 DEF Store, Put
<1>14. ASSUME NEW t \in DOMAIN sched
       PROVE  /\ Owns(t)' /\ Guarded(t)'
              /\ t # cur_thread => Suspended(t)'
  BY <1>7, <1>11, KeptThread, RoomForGuard DEF TInv
<1>15. Owns(id)'
  BY <1>8, <1>9, <1>12 DEF Owns
<1>16. Guarded(id)'
  <2>1. \A a \in base..(StackLow(base) - 1) : mem'[a] = f[a]
    BY <1>2, <1>3, <1>5, <1>13
  <2>. QED
    BY <1>4, <1>12, <2>1 DEF Guarded, StackLow, AlignedSp
<1>17. Suspended(id)'
  <2>1. sp \in base..(base + size - 1) /\ sp + HalfFrame \in base..(base + size - 1)
    BY <1>3, <1>4, <1>5
  <2>2. mem'[sp] \in Values /\ mem'[sp + HalfFrame] \in Values
    BY <1>4, <1>13, <2>1, Constants
  <2>3. (base + size)..(base + size - 1) = {}
    BY <1>3
  <2>4. StackLow(base) <= sp
    BY <1>4, <1>5
  <2>5. Base(id)' = base /\ Top(id)' = base + size /\ StackLow(Base(id))' = StackLow(base)
    BY <1>12 DEF StackLow, AlignedSp
  <2>6. base + size \in Nat
    BY <1>3
  <2>. QED
    BY <1>5, <1>8, <2>2, <2>3, <2>4, <2>5, <2>6 DEF Suspended, Valued
<1>18. ASSUME cur_thread # NoThread
       PROVE  Running(cur_thread)'
  <2>1. PICK t \in DOMAIN sched : t = cur_thread
    BY <1>18 DEF TInv, ThreadTypes
  <2>2. Running(t) /\ psp \in Nat
    BY <1>18, <2>1 DEF TInv, ThreadTypes
  <2>3. /\ Base(t) \in Nat /\ Top(t) \in Nat /\ StackLow(Base(t)) \in Nat
        /\ Base(t) < StackLow(Base(t)) /\ HalfFrame \in Nat
    BY <1>5, Layout, RoomForGuard
  <2>4. \A a \in psp..(Top(t) - 1) : mem'[a] = mem[a]
    <3>1. \A a \in Base(t)..(Top(t) - 1) : mem'[a] = mem[a]
      BY <1>11, KeptBytes
    <3>. QED
      BY <2>2, <2>3, <3>1 DEF Running
  <2>5. Running(t)'
    BY <1>2, <1>12, <2>2, <2>4 DEF Running, Valued, StackLow, AlignedSp
  <2>. QED
    BY <1>2, <2>1, <2>5
<1>19. ThreadTypes'
  <2>1. sched'[id] \in [base : Cells, size : Nat, sp : Cells]
    <3>1. base \in base..(base + size - 1) /\ sp \in base..(base + size - 1)
      BY <1>3, <1>4, <1>5
    <3>. QED
      BY <1>3, <1>5, <1>7, <3>1
  <2>2. sched' \in [DOMAIN sched' -> [base : Cells, size : Nat, sp : Cells]]
    <3> DEFINE R == [base : Cells, size : Nat, sp : Cells]
    <3>1. \A t \in DOMAIN sched : sched[t] \in R
      BY DEF TInv, ThreadTypes
    <3>2. sched'[id] \in R
      BY <2>1
    <3> HIDE DEF R
    <3>3. \A t \in DOMAIN sched' : sched'[t] \in R
      BY <1>7, <3>1, <3>2
    <3>4. sched' = [t \in DOMAIN sched' |-> sched'[t]]
      BY <1>2
    <3>5. sched' \in [DOMAIN sched' -> R]
      BY <3>3, <3>4
    <3>. QED
      BY <3>5 DEF R
  <2>. QED
    BY <1>2, <1>6, <1>7, <2>2 DEF TInv, ThreadTypes
<1>20. \A t, u \in DOMAIN sched' : t # u => Base(t)' # Base(u)'
  BY <1>7, <1>11, <1>12 DEF TInv
<1>21. TInv'
  BY <1>2, <1>6, <1>7, <1>10, <1>14, <1>15, <1>16, <1>17, <1>18, <1>19, <1>20 DEF TInv
<1>. QED
  BY <1>6, <1>7, <1>11, <1>21

LEMMA Created ==
  ASSUME CreateThread, sound'
  PROVE  \E base \in DOMAIN live \ Stacks, task \in Values :
           thread_create(base, live[base], task)
BY DEF CreateThread, thread_create_faults

LEMMA CreateKeeps ==
  ASSUME TInv, CreateThread, sound'
  PROVE  TInv'
<1>1. PICK base \in DOMAIN live \ Stacks, task \in Values :
        thread_create(base, live[base], task)
  BY Created
<1>. QED
  BY <1>1, StackBuilt

LEMMA NextTInv == TInv /\ [Next]_vars /\ sound' => TInv'
<1> SUFFICES ASSUME TInv, [Next]_vars, sound' PROVE TInv'
  OBVIOUS
<1>1. CASE UseHeap
  BY <1>1, UseHeapKeeps
<1>2. CASE CreateThread
  BY <1>2, CreateKeeps
<1>3. callee \in Values /\ caller \in Values /\ pendsv \in BOOLEAN
  BY DEF TInv, ThreadTypes
<1>4. CASE Tick \/ hw_sw_ctx
  BY <1>3, <1>4, QuietKeeps DEF Tick, hw_sw_ctx, cpu
<1>5. CASE SameThread
  BY <1>5, SameThreadKeeps
<1>6. ASSUME NEW nxt \in DOMAIN sched, SwitchTo(nxt) PROVE TInv'
  BY <1>6, SwitchKeeps
<1>7. CASE Compute
  BY <1>3, <1>7, QuietKeeps DEF Compute
<1>8. ASSUME NEW v \in Values, Push(v) PROVE TInv'
  BY <1>8, PushKeeps
<1>9. CASE Pop
  BY <1>9, PopKeeps
<1>10. CASE UNCHANGED vars
  BY <1>3, <1>10, QuietKeeps DEF vars, threadVars, cpu
<1>. QED
  BY <1>1, <1>2, <1>4, <1>5, <1>6, <1>7, <1>8, <1>9, <1>10 DEF Next

(***************************************************************************)
(* The invariant of heap and threads holds in every state, until a block   *)
(* or a stack is made for which there is no room.                          *)
(***************************************************************************)
THEOREM ThreadInvariance == Spec => [](sound => TInv)
<1>1. Init => (sound => TInv)
  BY InitTInv
<1>2. (sound => TInv) /\ [Next]_vars => (sound => TInv)'
  <2> SUFFICES ASSUME sound => TInv, [Next]_vars, sound' PROVE TInv'
    OBVIOUS
  <2>1. sound
    BY DEF Next, vars, heapVars
  <2>. QED
    BY <2>1, NextTInv
<1>. QED
  BY <1>1, <1>2, PTL DEF Spec

(***************************************************************************)
(* What PendSV restores fits into registers and stack pointers stay in     *)
(* memory, for any number of threads on stacks with room.                  *)
(***************************************************************************)
THEOREM ThreadTypesCorrect == Spec => []ThreadsTypeOK
<1>1. (sound => TInv) => ThreadsTypeOK
  BY DEF TInv, ThreadsTypeOK
<1>. QED
  BY <1>1, ThreadInvariance, PTL

(***************************************************************************)
(* Guard bytes and thread_t of a stack are overwritten by nothing - not by *)
(* the thread, not by another one, not by the heap - before a stack is     *)
(* built or a block is taken without room for it: thread_create, which     *)
(* compares nothing, and the wrapped bound of the heap are the only ways   *)
(* to lose them.                                                           *)
(***************************************************************************)
THEOREM StacksKept == Spec => []StacksAreIntact
<1>1. (sound => TInv) => StacksAreIntact
  <2> SUFFICES ASSUME sound, TInv, NEW t \in DOMAIN sched
               PROVE  /\ Top(t) = sched[t].base + live[sched[t].base]
                      /\ \A a \in sched[t].base..(StackLow(sched[t].base) - 1) :
                           mem[a] = IF a = AlignedSp(sched[t].base) THEN THREAD
                                                                   ELSE GUARD_MAGIC_BYTE
    BY DEF StacksAreIntact, GuardsStand
  <2>. QED
    BY Layout DEF TInv, Guarded, Base
<1>. QED
  BY <1>1, ThreadInvariance, PTL

-----------------------------------------------------------------------------
(***************************************************************************)
(* The refinement: what a thread sees of the processor and of its stack.   *)
(***************************************************************************)
LEMMA StackSame ==
  ASSUME NEW t, NEW from \in Nat, Top(t) \in Nat, Top(t)' = Top(t),
         \A a \in from..(Top(t) - 1) : mem'[a] = mem[a]
  PROVE  [k \in 0..(Top(t)' - from - 1) |-> mem'[from + k]] = StackOf(t, from)
<1>1. \A k \in 0..(Top(t) - from - 1) : from + k \in from..(Top(t) - 1)
  OBVIOUS
<1>2. \A k \in 0..(Top(t) - from - 1) : mem'[from + k] = mem[from + k]
  BY <1>1
<1>. QED
  BY <1>2 DEF StackOf

LEMMA SuspendedContext ==
  ASSUME TInv, NEW t \in DOMAIN sched, t # cur_thread, t # cur_thread', Kept(Base(t)),
         sched'[t] = sched[t]
  PROVE  Context(t)' = Context(t)
<1> DEFINE sp == sched[t].sp
           from == sp + 2 * HalfFrame
<1>1. /\ sp \in Nat /\ from \in Nat /\ Top(t) \in Nat
      /\ mem'[sp] = mem[sp] /\ mem'[sp + HalfFrame] = mem[sp + HalfFrame]
      /\ \A a \in from..(Top(t) - 1) : mem'[a] = mem[a]
  BY SavedLayout, KeptSaved
<1>2. Top(t)' = Top(t) /\ sched'[t].sp = sp
  BY DEF Top
<1>3. Context(t) = [callee |-> mem[sp], caller |-> mem[sp + HalfFrame],
                    stack |-> StackOf(t, from)]
  BY DEF Context
<1>4. Context(t)' = [callee |-> mem'[sp], caller |-> mem'[sp + HalfFrame],
                     stack |-> [k \in 0..(Top(t)' - from - 1) |-> mem'[from + k]]]
  BY <1>2 DEF Context, StackOf
<1> HIDE DEF sp, from
<1>5. [k \in 0..(Top(t)' - from - 1) |-> mem'[from + k]] = StackOf(t, from)
  BY <1>1, <1>2, StackSame
<1>. QED
  BY <1>1, <1>3, <1>4, <1>5

LEMMA RunningContext ==
  ASSUME TInv, NEW t \in DOMAIN sched, t = cur_thread, Top(t)' = Top(t),
         UNCHANGED <<cur_thread, psp, callee, caller>>,
         \A a \in psp..(Top(t) - 1) : mem'[a] = mem[a]
  PROVE  Context(t)' = Context(t)
<1>1. psp \in Nat /\ Top(t) \in Nat
  BY Layout DEF TInv, ThreadTypes
<1>2. PICK p \in Nat : p = psp
  BY <1>1
<1>3. [k \in 0..(Top(t)' - p - 1) |-> mem'[p + k]] = StackOf(t, p)
  BY <1>1, <1>2, StackSame
<1>4. Context(t) = [callee |-> callee, caller |-> caller, stack |-> StackOf(t, p)]
  BY <1>2 DEF Context
<1>5. Context(t)' = [callee |-> callee, caller |-> caller,
                     stack |-> [k \in 0..(Top(t)' - p - 1) |-> mem'[p + k]]]
  BY <1>2 DEF Context, StackOf
<1>. QED
  BY <1>3, <1>4, <1>5

LEMMA AboveIsOwn ==
  ASSUME TInv, NEW t \in DOMAIN sched, t = cur_thread
  PROVE  psp..(Top(t) - 1) \subseteq Base(t)..(Top(t) - 1)
<1>1. /\ Base(t) \in Nat /\ Top(t) \in Nat /\ StackLow(Base(t)) \in Nat
      /\ Base(t) < StackLow(Base(t)) /\ HalfFrame \in Nat
  BY Layout, RoomForGuard, Constants
<1>2. psp \in Nat /\ StackLow(Base(t)) + 2 * HalfFrame <= psp
  BY Constants DEF TInv, ThreadTypes, NoThread, Running
<1>. QED
  BY <1>1, <1>2

LEMMA KeptContext ==
  ASSUME TInv, NEW t \in DOMAIN sched, Kept(Base(t)), sched'[t] = sched[t],
         UNCHANGED <<cur_thread, psp, callee, caller>>
  PROVE  Context(t)' = Context(t)
<1>1. CASE t # cur_thread
  BY <1>1, SuspendedContext
<1>2. CASE t = cur_thread
  <2>1. Top(t)' = Top(t)
    BY DEF Top
  <2>2. \A a \in psp..(Top(t) - 1) : mem'[a] = mem[a]
    BY <1>2, AboveIsOwn, KeptBytes
  <2>. QED
    BY <1>2, <2>1, <2>2, RunningContext
<1>. QED
  BY <1>1, <1>2

LEMMA UnchangedKeepsBlocks ==
  ASSUME TInv, UNCHANGED heapVars
  PROVE  \A t \in DOMAIN sched : Kept(Base(t))
BY Layout DEF heapVars, Kept

(* Contexts is a function of the threads. *)
LEMMA ContextsSame ==
  ASSUME DOMAIN sched' = DOMAIN sched, \A t \in DOMAIN sched : Context(t)' = Context(t)
  PROVE  Contexts' = Contexts
BY DEF Contexts

LEMMA ContextsButOne ==
  ASSUME DOMAIN sched' = DOMAIN sched, NEW u \in DOMAIN sched,
         \A t \in DOMAIN sched : t # u => Context(t)' = Context(t)
  PROVE  Contexts' = [Contexts EXCEPT ![u] = Contexts'[u]]
<1>1. Contexts' = [t \in DOMAIN sched |-> Contexts'[t]]
  BY DEF Contexts
<1>2. \A t \in DOMAIN sched : t # u => Contexts'[t] = Contexts[t]
  BY DEF Contexts
<1>3. DOMAIN Contexts = DOMAIN sched
  BY DEF Contexts
<1>. QED
  BY <1>1, <1>2, <1>3

(* As long as every block and every stack has room, the abstract threads   *)
(* are the threads.                                                        *)
LEMMA SoundIsContexts ==
  ASSUME TInv, sound'
  PROVE  sound /\ SoundThreads = Contexts /\ SoundThreads' = Contexts'
BY DEF TInv, HeapIInv, SoundThreads

LEMMA CreateImplements ==
  ASSUME TInv, CreateThread, sound'
  PROVE  Threads!Create
<1>1. PICK base \in DOMAIN live \ Stacks, task \in Values :
        thread_create(base, live[base], task)
  BY Created
<1>2. PICK id : id = cur_thread_id + 1
  OBVIOUS
<1>3. /\ id \notin DOMAIN sched /\ DOMAIN sched' = DOMAIN sched \cup {id}
      /\ \A t \in DOMAIN sched : Kept(Base(t)) /\ sched'[t] = sched[t]
  BY <1>1, <1>2, StackBuilt
<1>4. UNCHANGED <<cur_thread, psp, callee, caller>>
  BY <1>1 DEF thread_create, cpu
<1>5. \A t \in DOMAIN sched : Context(t)' = Context(t)
  BY <1>3, <1>4, KeptContext
<1>6. /\ DOMAIN Contexts = DOMAIN sched /\ DOMAIN Contexts' = DOMAIN sched \cup {id}
      /\ \A t \in DOMAIN sched : Contexts'[t] = Contexts[t]
  BY <1>3, <1>5 DEF Contexts
<1>7. Contexts' = [u \in DOMAIN Contexts \cup {id} |->
                     IF u = id THEN Contexts'[id] ELSE Contexts[u]]
  <2>1. Contexts' = [u \in DOMAIN Contexts' |-> Contexts'[u]]
    BY DEF Contexts
  <2>. QED
    BY <1>6, <2>1
<1>. QED
  BY <1>3, <1>4, <1>6, <1>7, SoundIsContexts DEF Threads!Create

LEMMA PushImplements ==
  ASSUME TInv, NEW v \in Values, Push(v), sound'
  PROVE  Threads!Run
<1>1. PICK t \in DOMAIN sched : t = cur_thread
  BY DEF Push, TInv, ThreadTypes
<1>2. /\ Store(Word(psp - 1, v)) /\ psp - 1 - 2 * HalfFrame >= StackLow(Base(t))
      /\ UNCHANGED <<sched, cur_thread>> /\ cur_thread # NoThread
  BY <1>1 DEF Push, Base
<1>3. /\ psp \in Nat /\ psp <= Top(t) /\ StackLow(Base(t)) \in Nat /\ Top(t) \in Nat
      /\ HalfFrame \in Nat
  BY <1>1, <1>2, RunningLayout, Layout, RoomForGuard, Constants
<1>4. {psp - 1} \in SUBSET (StackLow(Base(t))..(Top(t) - 1))
  BY <1>2, <1>3
<1>5. Word(psp - 1, v) \in [{psp - 1} -> Data]
  BY Constants DEF Word
<1>6. \A u \in DOMAIN sched : u # t => Kept(Base(u))
  BY <1>2, <1>4, <1>5, OwnWrite
<1>7. \A u \in DOMAIN sched : u # t => Context(u)' = Context(u)
  BY <1>1, <1>2, <1>6, SuspendedContext
<1>8. Contexts' = [Contexts EXCEPT ![t] = Contexts'[t]]
  BY <1>2, <1>7, ContextsButOne
<1>9. DOMAIN Contexts = DOMAIN sched
  BY DEF Contexts
<1>. QED
  BY <1>1, <1>2, <1>8, <1>9, SoundIsContexts DEF Threads!Run

LEMMA RegistersImplement ==
  ASSUME TInv, cur_thread # NoThread, UNCHANGED <<heapVars, sched, cur_thread>>, sound'
  PROVE  Threads!Run
<1>1. PICK t \in DOMAIN sched : t = cur_thread
  BY DEF TInv, ThreadTypes
<1>2. \A u \in DOMAIN sched : Kept(Base(u))
  BY UnchangedKeepsBlocks
<1>3. \A u \in DOMAIN sched : u # t => Context(u)' = Context(u)
  BY <1>1, <1>2, SuspendedContext
<1>4. Contexts' = [Contexts EXCEPT ![t] = Contexts'[t]]
  BY <1>3, ContextsButOne
<1>5. DOMAIN Contexts = DOMAIN sched
  BY DEF Contexts
<1>. QED
  BY <1>1, <1>4, <1>5, SoundIsContexts DEF Threads!Run

LEMMA SameThreadImplements ==
  ASSUME TInv, SameThread
  PROVE  UNCHANGED <<cur_thread, Contexts>>
<1>1. Store(Pushed) /\ UNCHANGED <<sched, cur_thread, psp, callee, caller>>
  BY DEF SameThread, cpu
<1>2. CASE cur_thread = NoThread
  <2>1. UNCHANGED heapVars
    BY <1>1, <1>2, NothingStored DEF Pushed
  <2>. QED
    BY <1>1, <2>1, UnchangedKeepsBlocks, KeptContext, ContextsSame
<1>3. CASE cur_thread # NoThread
  <2>1. PICK t \in DOMAIN sched : t = cur_thread
    BY <1>3 DEF TInv, ThreadTypes
  <2>2. /\ psp \in Nat /\ {psp - HalfFrame} \in SUBSET (StackLow(Base(t))..(Top(t) - 1))
        /\ caller \in Data
    BY <1>3, <2>1, RunningLayout
  <2>3. /\ Word(psp - HalfFrame, caller) \in [{psp - HalfFrame} -> Data]
        /\ Store(Word(psp - HalfFrame, caller))
    BY <1>1, <1>3, <2>2 DEF Word, Pushed
  <2>4. /\ \A u \in DOMAIN sched : u # t => Kept(Base(u))
        /\ \A c \in Base(t)..(Top(t) - 1) : c # psp - HalfFrame => mem'[c] = mem[c]
    BY <2>2, <2>3, OwnWrite
  <2>5. \A u \in DOMAIN sched : u # t => Context(u)' = Context(u)
    BY <1>1, <2>1, <2>4, SuspendedContext
  <2>6. Context(t)' = Context(t)
    <3>1. HalfFrame \in Nat \ {0}
      BY Constants
    <3>2. \A a \in psp..(Top(t) - 1) : a # psp - HalfFrame
      BY <2>2, <3>1
    <3>3. \A a \in psp..(Top(t) - 1) : mem'[a] = mem[a]
      BY <2>1, <2>4, <3>2, AboveIsOwn
    <3>4. Top(t)' = Top(t)
      BY <1>1 DEF Top
    <3>. QED
      BY <1>1, <2>1, <3>3, <3>4, RunningContext
  <2>. QED
    BY <1>1, <2>5, <2>6, ContextsSame
<1>. QED
  BY <1>2, <1>3

(* The thread that is chosen sees what was put into its frame. *)
LEMMA RestoredContext ==
  ASSUME TInv, NEW t \in DOMAIN sched, t # cur_thread, t = cur_thread', Kept(Base(t)),
         sched'[t] = sched[t], Restore(t)
  PROVE  Context(t)' = Context(t)
<1>1. PICK sp \in Nat : sp = sched[t].sp
  BY SavedLayout
<1>2. PICK from \in Nat : from = sp + 2 * HalfFrame
  BY <1>1, Constants
<1>3. /\ psp' = from /\ callee' = mem[sp] /\ caller' = mem[sp + HalfFrame]
      /\ \A a \in from..(Top(t) - 1) : mem'[a] = mem[a]
  BY <1>1, <1>2, KeptSaved DEF Restore
<1>4. Context(t) = [callee |-> mem[sp], caller |-> mem[sp + HalfFrame],
                    stack |-> StackOf(t, from)]
  BY <1>1, <1>2 DEF Context
<1>5. Context(t)' = [callee |-> mem[sp], caller |-> mem[sp + HalfFrame],
                     stack |-> [k \in 0..(Top(t)' - from - 1) |-> mem'[from + k]]]
  BY <1>3 DEF Context, StackOf
<1>6. Top(t)' = Top(t) /\ Top(t) \in Nat
  BY SavedLayout DEF Top
<1>7. [k \in 0..(Top(t)' - from - 1) |-> mem'[from + k]] = StackOf(t, from)
  BY <1>3, <1>6, StackSame
<1>. QED
  BY <1>4, <1>5, <1>7

LEMMA ContextAfter ==
  ASSUME NEW t, t # cur_thread', NEW sp, sp = sched'[t].sp,
         NEW from, from = sp + 2 * HalfFrame
  PROVE  Context(t)' = [callee |-> mem'[sp], caller |-> mem'[sp + HalfFrame],
                        stack |-> [k \in 0..(Top(t)' - from - 1) |-> mem'[from + k]]]
BY DEF Context, StackOf

LEMMA SavedContextAfter ==
  ASSUME NEW t, t # cur_thread', NEW p \in Nat, NEW low, low = p - 2 * HalfFrame,
         sched'[t].sp = low, mem'[low] = callee, mem'[p - HalfFrame] = caller
  PROVE  Context(t)' = [callee |-> callee, caller |-> caller,
                        stack |-> [k \in 0..(Top(t)' - p - 1) |-> mem'[p + k]]]
<1>1. low + HalfFrame = p - HalfFrame /\ low + 2 * HalfFrame = p
  BY Constants
<1>2. Context(t)' = [callee |-> mem'[low], caller |-> mem'[low + HalfFrame],
                     stack |-> [k \in 0..(Top(t)' - p - 1) |-> mem'[p + k]]]
  BY <1>1, ContextAfter
<1>. QED
  BY <1>1, <1>2

LEMMA SavedContext ==
  ASSUME TInv, NEW t \in DOMAIN sched, t = cur_thread, t # cur_thread', Store(Saved),
         sched' = [sched EXCEPT ![t].sp = psp - 2 * HalfFrame]
  PROVE  Context(t)' = Context(t)
<1>1. PICK p \in Nat : p = psp
  BY DEF TInv, ThreadTypes
<1>2. /\ Top(t)' = Top(t) /\ sched'[t].sp = p - 2 * HalfFrame
      /\ mem'[p - 2 * HalfFrame] = callee /\ mem'[p - HalfFrame] = caller
      /\ \A a \in p..(Top(t) - 1) : mem'[a] = mem[a]
  BY <1>1, SwitchSaves
<1>3. /\ (p - 2 * HalfFrame) + HalfFrame = p - HalfFrame
      /\ (p - 2 * HalfFrame) + 2 * HalfFrame = p
  BY <1>1, Constants
<1>4. Context(t) = [callee |-> callee, caller |-> caller, stack |-> StackOf(t, p)]
  BY <1>1 DEF Context
<1>5. Context(t)' = [callee |-> callee, caller |-> caller,
                     stack |-> [k \in 0..(Top(t)' - p - 1) |-> mem'[p + k]]]
  BY <1>2, SavedContextAfter
<1>6. [k \in 0..(Top(t)' - p - 1) |-> mem'[p + k]] = StackOf(t, p)
  BY <1>2, Layout, StackSame
<1>. QED
  BY <1>4, <1>5, <1>6

LEMMA SwitchImplements ==
  ASSUME TInv, NEW nxt \in DOMAIN sched, SwitchTo(nxt), sound'
  PROVE  Threads!Switch
<1>1. nxt # cur_thread /\ Restore(nxt) /\ cur_thread' = nxt
  BY DEF SwitchTo
<1>2. Contexts' = Contexts
  <2>1. CASE ~is_os_started
    <3>1. cur_thread = NoThread /\ Store(<< >>) /\ sched' = sched
      BY <2>1 DEF SwitchTo, Pushed, TInv
    <3>2. \A u \in DOMAIN sched : Kept(Base(u))
      BY <3>1, NothingStored, UnchangedKeepsBlocks
    <3>3. \A u \in DOMAIN sched : u # cur_thread
      BY <3>1, Constants DEF TInv, ThreadTypes, NoThread
    <3>4. \A u \in DOMAIN sched : Context(u)' = Context(u)
      BY <1>1, <3>1, <3>2, <3>3, SuspendedContext, RestoredContext
    <3>. QED
      BY <3>1, <3>4, ContextsSame
  <2>2. CASE is_os_started
    <3>1. PICK t \in DOMAIN sched : t = cur_thread
      BY <2>2 DEF TInv, ThreadTypes
    <3>2. Store(Saved) /\ sched' = [sched EXCEPT ![t].sp = psp - 2 * HalfFrame]
      BY <2>2, <3>1 DEF SwitchTo
    <3>3. /\ \A u \in DOMAIN sched : u # t => Kept(Base(u)) /\ sched'[u] = sched[u]
          /\ DOMAIN sched' = DOMAIN sched
      BY <3>1, <3>2, SwitchSaves
    <3>4. Context(t)' = Context(t)
      BY <1>1, <3>1, <3>2, SavedContext
    <3>5. Context(nxt)' = Context(nxt)
      BY <1>1, <3>1, <3>3, RestoredContext
    <3>6. \A u \in DOMAIN sched : u # t /\ u # nxt => Context(u)' = Context(u)
      BY <1>1, <3>1, <3>3, SuspendedContext
    <3>. QED
      BY <3>3, <3>4, <3>5, <3>6, ContextsSame
  <2>. QED
    BY <2>1, <2>2 DEF TInv, ThreadTypes
<1>3. DOMAIN Contexts = DOMAIN sched
  BY DEF Contexts
<1>. QED
  BY <1>1, <1>2, <1>3, SoundIsContexts DEF Threads!Switch

LEMMA StepImplements ==
  ASSUME TInv, [Next]_vars, sound'
  PROVE  \/ Threads!Create \/ Threads!Run \/ Threads!Switch
         \/ UNCHANGED <<cur_thread, Contexts>>
<1>1. CASE UseHeap
  <2>1. /\ \A t \in DOMAIN sched : Kept(Base(t))
        /\ UNCHANGED <<sched, cur_thread, psp, callee, caller>>
    BY <1>1, UseHeapKeepsBlocks DEF UseHeap, threadVars, cpu
  <2>. QED
    BY <2>1, KeptContext, ContextsSame
<1>2. CASE CreateThread
  BY <1>2, CreateImplements
<1>3. CASE Tick \/ hw_sw_ctx \/ UNCHANGED vars
  <2>1. UNCHANGED <<heapVars, sched, cur_thread, psp, callee, caller>>
    BY <1>3 DEF Tick, hw_sw_ctx, vars, threadVars, cpu
  <2>. QED
    BY <2>1, UnchangedKeepsBlocks, KeptContext, ContextsSame
<1>4. CASE SameThread
  BY <1>4, SameThreadImplements
<1>5. ASSUME NEW nxt \in DOMAIN sched, SwitchTo(nxt) PROVE Threads!Switch
  BY <1>5, SwitchImplements
<1>6. CASE Compute \/ Pop
  BY <1>6, RegistersImplement DEF Compute, Pop
<1>7. ASSUME NEW v \in Values, Push(v) PROVE Threads!Run
  BY <1>7, PushImplements
<1>. QED
  BY <1>1, <1>2, <1>3, <1>4, <1>5, <1>6, <1>7 DEF Next

(***************************************************************************)
(* The threads, the handlers and the heap implement threads that each have *)
(* a processor of their own, for stacks of any size and any alignment that *)
(* have room for guards and frame.                                         *)
(***************************************************************************)
THEOREM ThreadRefinement == Spec => ImplementsThreads
<1>1. Init => Threads!Init(NoThread)
  <2> SUFFICES ASSUME Init PROVE Threads!Init(NoThread)
    OBVIOUS
  <2>1. DOMAIN sched = {} /\ cur_thread = NoThread /\ sound
    BY DEF Init, HeapInit
  <2>. QED
    BY <2>1 DEF Threads!Init, SoundThreads, Contexts
<1>2. (sound => TInv) /\ [Next]_vars
        => [Threads!Next]_<<cur_thread, SoundThreads, ~sound>>
  <2> SUFFICES ASSUME sound => TInv, [Next]_vars
               PROVE  [Threads!Next]_<<cur_thread, SoundThreads, ~sound>>
    OBVIOUS
  <2>1. CASE ~sound'
    BY <2>1 DEF Threads!Next, Threads!Lose
  <2>2. CASE sound'
    <3>1. sound /\ TInv
      BY <2>2 DEF Next, vars, heapVars
    <3>2. SoundThreads = Contexts /\ SoundThreads' = Contexts'
      BY <2>2, <3>1 DEF SoundThreads
    <3>3. \/ Threads!Create \/ Threads!Run \/ Threads!Switch
          \/ UNCHANGED <<cur_thread, Contexts>>
      BY <2>2, <3>1, StepImplements
    <3>. QED
      BY <2>2, <3>1, <3>2, <3>3 DEF Threads!Next
  <2>. QED
    BY <2>1, <2>2
<1>. QED
  BY <1>1, <1>2, ThreadInvariance, PTL DEF Spec, ImplementsThreads
=============================================================================
