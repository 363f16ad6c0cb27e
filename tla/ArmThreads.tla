----------------------------- MODULE ArmThreads -----------------------------
(***************************************************************************)
(* The threads of the ARM port: thread_create and thread_nxt_id            *)
(* (armv7_kernel_test.c), hw_build_stack and hw_sw_ctx                     *)
(* (armv7_test_vectors.c), the timer and PendSV handlers (armv7_isr.c),    *)
(* with stacks that are blocks of the linear heap.                         *)
(*                                                                         *)
(* A stack lies in memory as                                               *)
(*    guard bytes | thread_t | guard bytes | ... | r4-r11 | r0-psr         *)
(* A structure of several words is kept at its first address.              *)
(***************************************************************************)
EXTENDS LinearHeap

CONSTANTS
  Align,            \* the alignment of thread_t: 8
  ThreadSize,       \* sizeof(thread_t)
  GuardSize,        \* 8
  HalfFrame,        \* the bytes of r4-r11, and of r0-r3, r12, lr, pc, psr
  Values,           \* what registers and stacked words can hold
  ZERO,             \* r4-r11 of a new thread
  GUARD_MAGIC_BYTE, STACK_MAGIC_BYTE, THREAD,  \* further contents of memory
  BASE_THREAD_ID,
  MaxThreads,       \* bound on the threads created
  MaxBlocks         \* bound on the blocks since the heap was empty

ASSUME ThreadAssumption ==
  /\ {Align, ThreadSize, GuardSize, HalfFrame} \subseteq Nat \ {0}
  /\ ZERO \in Values
  /\ Values \cup {GUARD_MAGIC_BYTE, STACK_MAGIC_BYTE, THREAD} \subseteq Data
  /\ BASE_THREAD_ID \in Nat /\ MaxThreads \in Nat /\ MaxBlocks \in Nat

NoThread == 0

VARIABLES
  sched,            \* the scheduler's threads: id |-> its copy of thread_t
  cur_thread_id,    \* of thread_nxt_id
  cur_thread,
  is_os_started,
  pendsv,           \* PendSV is pending
  psp, callee, caller  \* the processor: stack pointer, r4-r11, the rest

cpu == <<psp, callee, caller>>
threadVars == <<sched, cur_thread_id, cur_thread, is_os_started, pendsv, cpu>>
vars == <<heapVars, threadVars>>

-----------------------------------------------------------------------------
(***************************************************************************)
(* The parts of a stack in the block of that size at base.                 *)
(***************************************************************************)
AlignedSp(base) == (base \div Align) * Align + Align
StackLow(base)  == AlignedSp(base) + ThreadSize + GuardSize
Top(t)          == sched[t].base + sched[t].size
Stacks          == {sched[t].base : t \in DOMAIN sched}

Room(base, size) == base + size - StackLow(base)

(***************************************************************************)
(* The memory of a thread that has not run.  The frame of hw_build_stack   *)
(* ends with the stack, wherever that leaves its start; the fields of the  *)
(* thread_t are the last to be written.                                    *)
(***************************************************************************)
NewStack(base, size, task) ==
  LET sp  == base + size - 2 * HalfFrame
      low == IF sp < base THEN sp ELSE base
  IN  [a \in low..(base + size - 1) |->
         IF a = AlignedSp(base) THEN THREAD
         ELSE CASE a = sp                         -> ZERO
                [] a = sp + HalfFrame             -> task
                [] a < sp /\ a < StackLow(base)   -> GUARD_MAGIC_BYTE
                [] OTHER                          -> STACK_MAGIC_BYTE]

(* Nothing compares the size with what is put into the stack.  The saved   *)
(* copy of the stack pointer, and the second id, which is the one that     *)
(* thread_create returns.                                                  *)
thread_create(base, size, task) ==
  LET id == cur_thread_id + 1
  IN  /\ Room(base, size) >= 0
      /\ Put(NewStack(base, size, task))
      /\ sched' = [t \in DOMAIN sched \cup {id} |->
           IF t = id THEN [base |-> base, size |-> size,
                           sp |-> base + size - 2 * HalfFrame]
                     ELSE sched[t]]
      /\ cur_thread_id' = cur_thread_id + 2
      /\ sound' = (sound /\ Room(base, size) >= 2 * HalfFrame)
      /\ UNCHANGED <<cur_thread, is_os_started, pendsv, cpu>>

(* The stack ends below its guard: the length of the memset wraps, which   *)
(* fills memory from there on until the processor faults.                  *)
Flooded(base) ==
  [a \in base..(WordMod - 1) |->
     CASE a = AlignedSp(base) -> THREAD
       [] a < StackLow(base) /\ a # AlignedSp(base) -> GUARD_MAGIC_BYTE
       [] OTHER               -> STACK_MAGIC_BYTE]

thread_create_faults(base, size) ==
  /\ Room(base, size) < 0
  /\ Put(Flooded(base))
  /\ sound' = FALSE
  /\ UNCHANGED threadVars

(* A block of the heap becomes a stack. *)
CreateThread ==
  /\ Cardinality(DOMAIN sched) < MaxThreads
  /\ \E base \in DOMAIN live \ Stacks :
       \/ \E task \in Values : thread_create(base, live[base], task)
       \/ thread_create_faults(base, live[base])

-----------------------------------------------------------------------------
(* TIM7_IRQHandler *)
Tick == /\ pendsv' = TRUE
        /\ UNCHANGED <<heapVars, sched, cur_thread_id, cur_thread, is_os_started, cpu>>

(* Bit 27 takes a pending PendSV away.  It is set together with bit 28 if   *)
(* that was read as set, which the architecture leaves undefined.           *)
hw_sw_ctx == /\ pendsv' \in {FALSE, pendsv}
             /\ UNCHANGED <<heapVars, sched, cur_thread_id, cur_thread, is_os_started, cpu>>

(***************************************************************************)
(* PendSV_Handler.  On entry the processor pushes r0-psr.  sched_run, not  *)
(* in the repository, leaves the running thread in cur_thread and any      *)
(* thread in nxt_thread.  The first switch has nothing to save: start-up   *)
(* code ran on a stack outside the heap.                                   *)
(***************************************************************************)
Word(a, v) == [x \in {a} |-> v]

Pushed == IF cur_thread = NoThread THEN << >> ELSE Word(psp - HalfFrame, caller)

SameThread ==
  /\ pendsv /\ pendsv' = FALSE
  /\ Store(Pushed)
  /\ UNCHANGED <<sched, cur_thread_id, cur_thread, is_os_started, cpu>>

Saved == [x \in {psp - HalfFrame, psp - 2 * HalfFrame} |->
            IF x = psp - HalfFrame THEN caller ELSE callee]

Restore(nxt) ==
  LET sp == sched[nxt].sp
  IN  /\ callee' = mem'[sp]
      /\ caller' = mem'[sp + HalfFrame]
      /\ psp' = sp + 2 * HalfFrame

\* Fault: the stack pointer is kept as it was before r4-r11 were stored.
SwitchWithoutPointer(nxt) ==
  /\ pendsv /\ pendsv' = FALSE
  /\ nxt # cur_thread
  /\ IF is_os_started
     THEN /\ Store(Saved)
          /\ sched' = [sched EXCEPT ![cur_thread].sp = psp - HalfFrame]
     ELSE Store(Pushed) /\ UNCHANGED sched
  /\ Restore(nxt)
  /\ cur_thread' = nxt
  /\ is_os_started' = TRUE
  /\ UNCHANGED cur_thread_id

SwitchTo(nxt) ==
  /\ pendsv /\ pendsv' = FALSE
  /\ nxt # cur_thread
  /\ IF is_os_started
     THEN /\ Store(Saved)
          /\ sched' = [sched EXCEPT ![cur_thread].sp = psp - 2 * HalfFrame]
     ELSE Store(Pushed) /\ UNCHANGED sched
  /\ Restore(nxt)
  /\ cur_thread' = nxt
  /\ is_os_started' = TRUE
  /\ UNCHANGED cur_thread_id

-----------------------------------------------------------------------------
(***************************************************************************)
(* The running thread.  It leaves room for the frame of an exception.      *)
(***************************************************************************)
Compute ==
  /\ cur_thread # NoThread
  /\ callee' \in Values /\ caller' \in Values
  /\ UNCHANGED <<heapVars, sched, cur_thread_id, cur_thread, is_os_started, pendsv, psp>>

Push(v) ==
  /\ cur_thread # NoThread
  /\ psp - 1 - 2 * HalfFrame >= StackLow(sched[cur_thread].base)
  /\ Store(Word(psp - 1, v))
  /\ psp' = psp - 1
  /\ UNCHANGED <<sched, cur_thread_id, cur_thread, is_os_started, pendsv, callee, caller>>

Pop ==
  /\ cur_thread # NoThread
  /\ psp < Top(cur_thread)
  /\ psp' = psp + 1
  /\ callee' = mem[psp]
  /\ UNCHANGED <<heapVars, sched, cur_thread_id, cur_thread, is_os_started, pendsv, caller>>

(* Start-up code or a thread calls the allocator: stacks stay allocated.   *)
(* A call is one step: threads are not switched within it.                 *)
UseHeap ==
  /\ \/ /\ Cardinality(DOMAIN live \cup freed) < MaxBlocks
        /\ \E size \in Sizes :
             \/ linear_memory_alloc(size)
             \/ \E p \in DOMAIN live : linear_memory_realloc(p, size)
     \/ \E p \in (DOMAIN live \cup freed) \ Stacks : linear_memory_free(p)
     \/ DOMAIN sched = {} /\ linear_memory_force_free
     \/ \E p \in DOMAIN live \ Stacks : \E v \in Values : Store([a \in BytesOf(p) |-> v])
  /\ UNCHANGED threadVars

Init ==
  /\ HeapInit
  /\ sched = [t \in {} |-> [base |-> 0, size |-> 0, sp |-> 0]]
  /\ cur_thread_id = BASE_THREAD_ID
  /\ cur_thread = NoThread
  /\ is_os_started = FALSE
  /\ pendsv = FALSE
  /\ psp = 0 /\ callee = ZERO /\ caller = ZERO

(* Where there was no room for a block or for a stack, the run ends: what  *)
(* headers and frames then hold is anybody's.                              *)
Next == sound /\
  \/ UseHeap
  \/ CreateThread
  \/ Tick
  \/ hw_sw_ctx
  \/ SameThread
  \/ \E nxt \in DOMAIN sched : SwitchTo(nxt)
  \/ Compute
  \/ \E v \in Values : Push(v)
  \/ Pop

Spec == Init /\ [][Next]_vars

-----------------------------------------------------------------------------
\* Of the threads, as long as every stack had room for its frame.
ThreadTypes ==
  /\ DOMAIN sched \subseteq (BASE_THREAD_ID + 1)..cur_thread_id
  /\ sched \in [DOMAIN sched -> [base : Cells, size : Nat, sp : Cells]]
  /\ cur_thread_id \in Nat
  /\ cur_thread \in DOMAIN sched \cup {NoThread}
  /\ is_os_started \in BOOLEAN /\ pendsv \in BOOLEAN
  /\ psp \in Nat /\ callee \in Values /\ caller \in Values

ThreadsTypeOK == sound => ThreadTypes

\* The guard bytes around the thread_t at the low end of every stack.
GuardsStand ==
  \A t \in DOMAIN sched : \A a \in sched[t].base..(StackLow(sched[t].base) - 1) :
    mem[a] = IF a = AlignedSp(sched[t].base) THEN THREAD ELSE GUARD_MAGIC_BYTE

(***************************************************************************)
(* Neither a thread's own pushes and frames, nor another thread's, nor the *)
(* heap's headers and other users, touch the guard bytes and the thread_t  *)
(* of a stack, if every stack is large enough for them and a frame with    *)
(* what the alignment of its block takes, and every block had room.        *)
(***************************************************************************)
StacksAreIntact == sound =>
  /\ \A t \in DOMAIN sched : Top(t) = sched[t].base + live[sched[t].base]
  /\ GuardsStand

(***************************************************************************)
(* A thread that is switched out resumes with the registers and the stack  *)
(* it had, however often PendSV came, was taken away or chose the same     *)
(* thread again: the threads behave as if each had its own processor, as   *)
(* long as blocks and stacks had room.                                     *)
(***************************************************************************)
StackOf(t, from) == [k \in 0..(Top(t) - from - 1) |-> mem[from + k]]

Context(t) ==
  IF t = cur_thread
  THEN [callee |-> callee, caller |-> caller, stack |-> StackOf(t, psp)]
  ELSE LET sp == sched[t].sp
       IN  [callee |-> mem[sp], caller |-> mem[sp + HalfFrame],
            stack  |-> StackOf(t, sp + 2 * HalfFrame)]

Contexts == [t \in DOMAIN sched |-> Context(t)]

SoundThreads == IF sound THEN Contexts ELSE [t \in {} |-> {}]

Threads == INSTANCE IndependentThreads WITH
  running <- cur_thread, context <- SoundThreads, void <- ~sound

ImplementsThreads ==
  Threads!Init(NoThread) /\ [][Threads!Next]_<<cur_thread, SoundThreads, ~sound>>
=============================================================================
