-------------------------------- MODULE Ipc --------------------------------
(***************************************************************************)
(* The objects through which threads and interrupts pass data and events:  *)
(* a behaviour uses one of them, together with the thread timeouts.        *)
(***************************************************************************)
EXTENDS Msgq, Queue, Pools, Kheap, Event, Timer, SysSem

\* The calls in which threads wait, by the kind of their argument.
CallsWith(args) ==
  [op : {"put", "get", "pop", "alloc", "wait", "sync", "test", "pend", "dec"}, arg : args]
Calls ==
  CallsWith(Items \cup {NONE}) \cup CallsWith(Waits) \cup CallsWith(BOOLEAN)
    \cup CallsWith([n : Requests, timed : BOOLEAN])

ASSUME IpcAssumption == NONE \notin Calls

Init ==
  /\ BlockingInit
  /\ \/ obj \in {Msgq, KQueue, Stack, Kheap, Event, KTimer, KSysSem}
     \/ obj = Slab(CHOOSE s \in [1..Cardinality(Items) -> Items] :
                     \A j, k \in DOMAIN s : j # k => s[j] # s[k])

Next ==
  \/ MsgqNext \/ QueueNext \/ StackNext \/ SlabNext
  \/ HeapNext \/ EventNext \/ TimerNext \/ SysSemNext
  \/ \E t \in Threads : Return(t) \/ Expire(t)
  \/ Callback

Spec == Init /\ [][Next]_vars

\* Timeouts expire, interrupt handlers come to their end, a caller that has
\* unpended a thread goes on to ready it, and a ready thread runs between
\* interrupts.
FairSpec ==
  /\ Spec
  /\ WF_vars(TimerInterrupt)
  /\ \A c \in TimerCallers : WF_vars(CallerReadies(c))
  /\ SF_vars(Callback)
  /\ \A t \in Threads : SF_vars(Expire(t)) /\ SF_vars(Return(t) \/ TimerSyncReturn(t))

(***************************************************************************)
(* Properties                                                              *)
(***************************************************************************)
\* The wait queue and the threads agree, no thread is forgotten, and none
\* waits for what a message queue, queue, stack, memory slab or event object
\* could give it, whatever puts, gets, purges and posts come from threads and
\* interrupts, also between the dequeue of a timeout and its callback.  For
\* heaps, timers and user-mode semaphores it is less: see HeapWaits, TimerInv
\* and SysSemInv.
IpcInv ==
  /\ QueueInv /\ NotStranded
  /\ MsgqInv /\ QueueWaits /\ PoolsInv /\ HeapWaits /\ EventInv /\ TimerInv /\ SysSemInv

\* What is in the object, the oldest first.
Contents ==
  CASE obj.kind = "msgq"  -> MsgqContents
    [] obj.kind = "queue" -> obj.data_q
    [] obj.kind = "stack" -> obj.entries
    [] obj.kind = "slab"  -> [k \in 1..Len(obj.free_list) |->
                                obj.free_list[Len(obj.free_list) + 1 - k]]
    [] OTHER              -> <<>>

Given == IF obj.kind \in {"event", "timer", "heap", "sys_sem"} THEN [t \in Threads |-> NONE] ELSE swap_data

Promise == INSTANCE Exchange WITH kind <- obj.kind, chan <- Contents, given <- Given

\* No item is lost, delivered twice or out of turn by k_msgq_put(),
\* k_queue_append(), k_stack_push(), k_mem_slab_free() and their counterparts,
\* whether it goes through the object or from hand to hand.
ImplementsExchange == Promise!Spec

\* Whether the call of the waiting thread t has been served: its message was
\* accepted, or it was given an item or events; k_queue_cancel_wait() gives
\* it NULL, and a timer nothing.
WasServed(t) == IF call[t].op = "put" THEN call[t].arg = NONE ELSE swap_data[t] # NONE

\* A call returns success if and only if it was served (kernel.h: -EAGAIN is
\* "Waiting period timed out"), when a timeout and a wake-up meet too: a
\* caller that reports a failure has not given away or got an item.
ResultIsTrue ==
  [][\A t \in Threads :
       call[t] # NONE /\ call'[t] = NONE =>
         /\ WasServed(t) => swap_retval[t] = "0"
         /\ swap_retval[t] = "0" /\ obj.kind \notin {"queue", "timer"} => WasServed(t)]_vars

\* A call with a timeout returns, and so does one that has been served; but
\* k_heap_alloc() and sys_sem_take() go back to waiting when others are faster.
WaitsReturn ==
  obj.kind \notin {"heap", "sys_sem"} => \A t \in Threads :
    call[t] # NONE /\ (linked[t] \/ pended_on[t] = NONE) ~> call[t] = NONE
=============================================================================
