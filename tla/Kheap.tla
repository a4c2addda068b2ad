------------------------------- MODULE Kheap -------------------------------
(***************************************************************************)
(* Kernel heaps (kernel/kheap.c): an allocation that fails waits until     *)
(* something is freed, and then tries again.  Of the heap itself           *)
(* (lib/os/heap.c) the chunks are there, with their places and sizes, and  *)
(* the search for a free one, which may overlook a chunk that fits; the    *)
(* order of the free lists is left open.                                   *)
(***************************************************************************)
EXTENDS Blocking, FiniteSets

CONSTANTS
  heap_units,   \* the size of the heap, in chunk units
  Requests,     \* the sizes asked for
  alloc_loops   \* CONFIG_SYS_HEAP_ALLOC_LOOPS

ASSUME KheapAssumption ==
  /\ {heap_units, alloc_loops} \subseteq Nat \ {0}
  /\ Requests \subseteq 1..heap_units

Chunk == [at : 1..heap_units, n : 1..heap_units]

Kheap == [kind |-> "heap", blocks |-> {},
          woken |-> {}]   \* the threads woken by a free: they may have time left

UnitsOf(c) == c.at..(c.at + c.n - 1)

\* The free chunks: free_chunk() merges a chunk with its free neighbours.
FreeChunks(blocks) ==
  LET used == UNION {UnitsOf(b) : b \in blocks}
      inside == 1..heap_units
  IN  {c \in Chunk : /\ UnitsOf(c) \subseteq inside \ used
                     /\ {c.at - 1, c.at + c.n} \cap inside \subseteq used}

\* The smallest chunk has one unit (big_heap() has two).
bucket_idx(n) == CHOOSE i \in 0..n : 2^i <= n /\ n < 2^(i + 1)

\* The free chunks of the bucket for n units, which may be too small, and
\* those of the larger ones, which all fit.
Bucket(blocks, n) == {c \in FreeChunks(blocks) : bucket_idx(c.n) = bucket_idx(n)}
Larger(blocks, n) == {c \in FreeChunks(blocks) : bucket_idx(c.n) > bucket_idx(n)}

\* alloc_chunk() looks at alloc_loops chunks of the first bucket and no more,
\* and may see none that fits ...
CanMiss(blocks, n) ==
  LET small == {c \in Bucket(blocks, n) : c.n < n}
  IN  small = Bucket(blocks, n) \/ Cardinality(small) >= alloc_loops

\* ... then it takes a chunk of the smallest larger bucket, if there is one.
alloc_chunk(blocks, n) ==
  {c \in Bucket(blocks, n) : c.n >= n} \cup
  {c \in Larger(blocks, n) :
     CanMiss(blocks, n) /\ \A d \in Larger(blocks, n) : bucket_idx(c.n) <= bucket_idx(d.n)}

CanFail(blocks, n) == CanMiss(blocks, n) /\ Larger(blocks, n) = {}

\* sys_heap_alloc() splits the chunk, and uses its first part.
Allocated(n) ==
  {[obj EXCEPT !.blocks = @ \cup {[at |-> c.at, n |-> n]}] : c \in alloc_chunk(obj.blocks, n)}

\* k_heap_alloc() at the first attempt.
HeapAlloc(n) ==
  /\ obj' \in Allocated(n)
  /\ UNCHANGED <<schedVars, call, swap_data>>

\* A call without a timeout has one, INT64_MAX ticks away.
HeapAllocWait(t, n, timed) ==
  /\ CanFail(obj.blocks, n)
  /\ Wait(t, "alloc", [n |-> n, timed |-> timed], timed)
  /\ UNCHANGED obj

\* The thread runs again: it gets a block, or finds that its time is up, or
\* waits for the time that is left.
HeapRetry(t) ==
  LET n == call[t].arg.n
      timed == call[t].arg.timed
      o == [obj EXCEPT !.woken = @ \ {t}]
  IN
  /\ obj.kind = "heap"
  /\ call[t] # NONE
  /\ \/ /\ Resumes(t)
        /\ \E p \in Allocated(n) : obj' = [p EXCEPT !.woken = o.woken]
     \/ /\ CanFail(obj.blocks, n) /\ timed
        /\ Resumes(t)
        /\ obj' = o
     \/ /\ CanFail(obj.blocks, n) /\ t \in obj.woken
        /\ ~InTimerInterrupt
        /\ Pend(t, wait_q, timed, prio)
        /\ obj' = o
        /\ UNCHANGED <<prio, firing, call, swap_data>>

\* The block is free and the threads of S are woken.
Freed(b, S) ==
  /\ obj' = [obj EXCEPT !.blocks = @ \ {b}, !.woken = @ \cup S]
  /\ Serve(S, "EAGAIN", [t \in S |-> NONE])
  /\ UNCHANGED call

\* Faulty variant: one thread is woken, as by the other objects.
HeapFreeOne(b) == Freed(b, {t \in Threads : Waiters # <<>> /\ t = First})

\* k_heap_free(): z_unpend_all() sets no return value, and nobody reads it.
HeapFree(b) == Freed(b, {t \in Threads : IsIn(Waiters, t)})

HeapNext ==
  /\ obj.kind = "heap"
  /\ \/ \E n \in Requests : HeapAlloc(n)
     \/ \E t \in Threads, n \in Requests, timed \in BOOLEAN : HeapAllocWait(t, n, timed)
     \/ \E t \in Threads : HeapRetry(t)
     \/ \E b \in obj.blocks : HeapFree(b)

(***************************************************************************)
(* Properties                                                              *)
(***************************************************************************)
\* A thread waits only if the search for a chunk could fail, with the blocks
\* there are or without some of them, which were allocated since it tried:
\* however large requests and small ones alternate, a free is never slept
\* through.  It may wait although a chunk fits, one the search has overlooked.
HeapWaits ==
  obj.kind = "heap" =>
    \A t \in Threads : IsIn(Waiters, t) =>
      \E new \in SUBSET obj.blocks : CanFail(obj.blocks \ new, call[t].arg.n)
=============================================================================
