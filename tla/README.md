# Verification of the Zephyr kernel's core

TLA+ models of the concurrent core of this Zephyr tree (kernel version 3.4.99):
the parts in which threads, interrupts, timeouts and several CPUs meet. The
modules are translated from the C sources; TLC checks them on small instances
and TLAPS proves the central theorems for every instance.

## 1. Inventory

The repository is a complete real-time operating system: 3.4 million lines, of
which most are board descriptions, devicetree files, drivers, protocol stacks,
samples and tests. What every application relies on, and what nobody can test
exhaustively, is the kernel: about 13 000 lines of C in `kernel/`, and a few
thousand more in `lib/os/` and `subsys/` built on the same primitives.

### The concurrent core

| Component | State it keeps | Operations | Hard behaviour | What makes it correct |
|---|---|---|---|---|
| Work queues (`kernel/work.c`) | flags of each item (RUNNING, CANCELING, QUEUED, DELAYED), its queue, the pending list and flags of each queue, the list of waiting cancellers | submit, schedule, reschedule, flush, cancel, drain, unplug; the queue thread | callers, queue threads and timeout callbacks interleave between lock sections; items resubmit themselves while running | an item is linked once; a handler is not reentered; no waiter is forgotten; FIFO; waits end |
| Timeouts and system clock (`kernel/timeout.c`) | the delta list, `curr_tick`, `announce_remaining` | add, abort, announce, remaining/expires | the lock is dropped around callbacks; late announcements; several CPUs announce | deadlines survive every sequence of list edits; nothing fires early; the driver is always programmed |
| Scheduler and wait queues (`kernel/sched.c`) | thread states, run queue, cached next thread, wait queues, current thread | pend, unpend, ready, suspend, abort, join, sleep, wakeup, set priority, lock | calls of several lock sections; timeout callback against unpend and suspend; abort at any point | a ready thread is in exactly one queue; the cache is fresh; highest priority runs; a wake is delivered once |
| Semaphores (`kernel/sem.c`) | count, limit, wait queue | give, take, reset | give against timeout; reset against give | units are neither lost nor made; a waiter exists only at count 0 |
| Mutexes (`kernel/mutex.c`) | owner, lock count, original priority, wait queue | lock, unlock | timeout against hand-over; inheritance over several mutexes | one owner; inherited priority is no lower than any waiter's; it is given back |
| Condition variables (`kernel/condvar.c`) | wait queue | wait, signal, broadcast | atomic release of the mutex; timeout and signal together | no lost wakeup; the mutex is held on return |
| Timers (`kernel/timer.c`) | timeout, status, period, wait queue | start, stop, sync, status | expiry against stop and restart | a thread that waits is woken, however starts, stops and expirations meet |
| Message queues, queues, stacks (`kernel/msg_q.c`, `queue.c`, `stack.c`) | ring or list, wait queue | put, get, peek, purge | direct hand-over to a waiting thread | FIFO, no loss or duplication; waiters only when empty or full |
| Events and polling (`kernel/events.c`, `poll.c`) | event set, waiters; poll events and signalled state | post, set, wait; poll, signal | walk-and-wake under two locks; registration against signalling | a satisfied waiter is woken; no lost signal |
| Pipes and mailboxes (`kernel/pipes.c`, `mailbox.c`) | ring buffer, readers, writers; messages | put, get, flush; put, get | partial transfers, timeouts with part of the data moved | byte order and counts |
| Memory slabs, kernel heaps (`kernel/mem_slab.c`, `kheap.c`, `lib/os/heap.c`) | free list or heap, wait queue | alloc, free | a free hands over to a waiter, or wakes all to try again | blocks are owned once; a free is not slept through |
| Futexes and user-mode semaphores (`kernel/futex.c`, `lib/os/sem.c`) | a value in user memory, wait queue | wait, wake; give, take | the value changes without a lock | units are neither lost nor made |
| Threads, SMP (`kernel/thread.c`, `smp.c`) | thread life cycle, CPU start flags | create, start | delayed start against start, abort and wakeup | part of the scheduler model |
| On-off services (`lib/os/onoff.c`) | state, reference count, clients, monitors | request, release, cancel, reset | asynchronous transitions that complete in any context | transitions never overlap; every client is notified once |
| Packet buffers (`lib/os/mpsc_pbuf.c`, `spsc_pbuf.c`, `ring_buffer.c`) | indices, flags in the buffer | alloc, commit, claim, free | lock-free or overwriting producers against the consumer | packets in order, never half-written, wrap-around right |
| Meta-IRQ work (`lib/os/p4wq.c`) | run queue of items, worker threads | submit, cancel, wait | priority reordering of a running pool | highest priority items run |
| NVS (`subsys/fs/nvs/nvs.c`) | allocation table and data in flash sectors | write, read, delete, garbage collection | power failure at any flash write | after restart the last committed value is read |
| Power management (`subsys/pm/*.c`) | device usage counts and states, constraints | get, put, put_async, suspend | asynchronous suspend against get | usage and state agree |

### How the parts interact

All blocking primitives pend the calling thread on a wait queue of the
scheduler (`z_pend_curr`), optionally with a timeout of the timeout queue, and
release it with `z_unpend_first_thread`; the timeout's callback
(`z_thread_timeout`) races with that release. Timers, delayable work and
sleeping threads all embed a `struct _timeout`; `sys_clock_announce` calls their
callbacks from the timer interrupt with no lock held. Work queues use wait
queues for their threads and drainers, semaphores for flushers and cancellers,
and timeouts for delayable items. Condition variables release and take back
mutexes. The poll, event and message-queue code wakes threads under its own
lock and the scheduler's. Every such meeting point is a step boundary in the
models.

### The rest of the repository

User-mode checks and MMU code, boot code, formatting and checksums, the driver
tree, architectures, boards and SoCs, Bluetooth, networking, USB and other
stacks, file-system glue, shell, settings, management, tests and samples are
listed in `PROJECT.json` with the reason each is left out: hardware and
assembly, protocol suites that are projects of their own, generated data, or
code without state.

## 2. Plan

Order of work, most important behaviour first:

1. `WorkQ`: the whole of `kernel/work.c`, its abstract specification
   `WorkPromise`, the proofs in `WorkQProofs`. Done.
2. `TimeoutQ`: the timeout list and the announcement loop, its abstract
   specification `TimeoutPromise`, the proofs in `TimeoutQProofs`. Done.
3. Wait queues with timeouts and the primitives built on them: `WaitQ`, `Sem`,
   `Mutex` (mutexes with priority inheritance and condition variables). Done on
   one CPU and, for semaphores, on several, with proofs in `SemProofs` and
   `MutexProofs`. Left: mutexes on several CPUs.
4. Message queues, queues, stacks, memory slabs, kernel heaps, events, timers,
   futexes with user-mode semaphores: `Blocking` and the modules over it,
   composed in `Ipc`, with the abstract specification `Exchange` and the proofs in
   `IpcProofs`. Done. Left: polling, pipes, mailboxes.
5. The scheduler proper, `Sched`: run queue, cache, thread life cycle. Done for
   one CPU, with the proofs in `SchedProofs`. Left: several CPUs.
6. `Onoff`, with the proofs in `OnoffProofs`, and `Nvs` with losses of power. Done
   but for proofs of `Nvs`. Left: device runtime power management, the packet buffers.

Theorems worth proving next: the owner of a mutex in a system of several, with
the order of a wait queue left open; what survives a loss of power in `Nvs` (section 6 says what stands in the
way).

## 3. Modules

| Module | Models |
|---|---|
| `Lists` | the linked lists of `sys/slist.h` and `sys/dlist.h` as sequences, and the lists of threads in the order of priority |
| `WorkPromise` | what a work queue promises for its items |
| `WorkQ` | `kernel/work.c` |
| `WorkQSync` | `WorkQ` with a history variable: what each flush and synchronous cancellation still has to wait for |
| `ListFacts` | lemmas on lists, induction over the natural numbers |
| `WorkQProofs` | theorems about `WorkQ` and `WorkQSync` |
| `TimeoutPromise` | what the timeout queue promises |
| `TimeoutQ`, `TimeoutQProofs` | `kernel/timeout.c`; theorems about it |
| `WaitQ` | wait queues and thread timeouts of `kernel/sched.c` |
| `Sem` | `kernel/sem.c`, over `WaitQ` |
| `SemProofs` | lemmas on wait queues; theorems about `Sem` |
| `Mutex`, `MutexProofs` | `kernel/mutex.c` and `kernel/condvar.c`, over `WaitQ`; theorems about them |
| `Exchange` | what objects that pass items promise: each is delivered once, in order |
| `Blocking` | what the objects below share: a call that pends, and one that serves it; over `WaitQ` |
| `Msgq`, `Queue`, `Pools` | `kernel/msg_q.c`; `kernel/queue.c`; `kernel/stack.c` and `kernel/mem_slab.c` |
| `Kheap`, `Event`, `Timer` | `kernel/kheap.c` and the search for a chunk in `lib/os/heap.c`; `kernel/events.c`; `kernel/timer.c` |
| `SysSem` | `lib/os/sem.c` with `CONFIG_USERSPACE`, over `kernel/futex.c` |
| `Ipc`, `IpcProofs` | the composition of these objects with thread timeouts; theorems about it |
| `Sched`, `SchedProofs` | `kernel/sched.c` on one CPU, with thread creation of `kernel/thread.c`; theorems about it |
| `Onoff`, `OnoffProofs` | `lib/os/onoff.c`; theorems about it |
| `Nvs` | `subsys/fs/nvs/nvs.c` and the flash under it |
| `MC...` | instances for TLC |

Definitions called a *faulty variant* in the modules are not part of the models:
each is a plausible mistake in the definition below it, and putting it in that
definition's place must break the property it is paired with in `PROJECT.json`.

### WorkQ

Every section of `work.c` that holds its spinlock is one step. `flags`,
`wqueue` and `dqueue` are the fields of `k_work` and `k_work_delayable`;
`pending`, `qflags` and `drainq` those of `k_work_q`; `running` and `wpc` are
the local state of `work_queue_main()`; `pending_cancels` is the global list of
waiting cancellers; `sem` and `cpc` are the state of the threads that called a
blocking operation, each of which also stands for the `k_work_sync` it passes.
A timeout is `linked`, and between its dequeue by `sys_clock_announce()` and its
callback it is in `firing`. Whether other code runs in that gap (`timeout_gap`,
from the constant `Gaps`) is part of the machine and does not change. A call that
would add a timeout that is still linked fails the assertion of `z_add_timeout()`
(`timeout.c:94`); a behaviour does not go past it (section 5).

| Action | Code |
|---|---|
| `QueueStart` | `k_work_queue_start()` |
| `Submit` | `k_work_submit_to_queue()`, from a thread, an ISR or a handler |
| `Flush`, `FlushDelayable` | `k_work_flush()`, `k_work_flush_delayable()` up to the wait |
| `Cancel`, `CancelSync`, `CancelDelayable`, `CancelDelayableSync` | the four cancellations, up to the wait |
| `SyncReturn` | the `k_sem_take()` at the end of a flush or cancellation |
| `Drain`, `Unplug` | `k_work_queue_drain()`, `k_work_queue_unplug()` |
| `Schedule`, `Reschedule` | `k_work_schedule_for_queue()`, `k_work_reschedule_for_queue()` |
| `WorkerTake`, `WorkerSleep`, `FlushHandler`, `WorkerFinish` | the lock sections of `work_queue_main()` and `handle_flush()` |
| `TimeoutExpires`, `WorkTimeout` | the dequeue in `sys_clock_announce()`, and `work_timeout()` |

Calls that return at once without changing state (a flush of an idle item, a
refused submission of an unknown queue) are stuttering steps. A handler's body
is the set of calls a handler may make (`"chain"` in `Apis`). The cooperative
yield and thread naming in `work_queue_main()` are left out.

### TimeoutQ

`timeout_list` with `dticks` is the delta list. `now`, `announced` and `alarm`
are the timer driver, modelled from how the kernel uses it (clocks.rst, "Timer
Drivers"): a counter, the ticks already announced, and the time it was last
asked to interrupt at. `isr[c]` is the callback that `sys_clock_announce()` has
called on CPU `c` with the lock released. `deadline` and `asked` are history
variables: what a linked timeout was added for.

| Action | Code |
|---|---|
| `Tick` | the hardware counter |
| `Add`, `AddAbsolute`, `Abort` | `z_add_timeout()`, `z_abort_timeout()`, by a callback or by other code |
| `Announce` | `sys_clock_announce()` up to the first callback, its early return on SMP, or its end |
| `Return` | from the return of a callback to the next one or to the end |

`CPUs`, one of the sets in `CpuSets`, says how many CPUs the machine has; other code
always runs while a callback does (nested interrupts, other CPUs), and timeouts
may fall on one tick on every machine. `shared` is a history variable: two timeouts
have been due on the same tick of a machine with several CPUs. Times are unbounded integers up to `MaxTime`: with 64-bit ticks the width is not
reached; the 32-bit tick option is not modelled.

### WaitQ, Sem and Mutex

`waitq`, `pended_on`, `linked` and `ready` say where a thread's two list nodes
are: on a wait queue or the run queue, and on the timeout list; `firing` is the
thread whose timeout `sys_clock_announce()` has dequeued and whose callback has
not run. Wait queues are lists sorted by priority (`CONFIG_WAITQ_DUMB`). A ready
thread may run at any time: the run queue's order is not modelled, so that what
is shown does not depend on it.

| Operator or action | Code |
|---|---|
| `Pend` | `pend_locked()`, `z_pend_curr()` |
| `UnpendFirst`, `Readied` | `z_unpend_first_thread()`, `z_ready_thread()` |
| `TimeoutExpires`, `ThreadTimeout` | the dequeue in `sys_clock_announce()`; `z_thread_timeout()` |
| `TakeNow`, `TakePend`, `TakeReturn` | `k_sem_take()`: a unit is there; up to the wait; after it |
| `Give`, `Reset`, `ResetLoop`, `Wake` | `k_sem_give()` and `k_sem_reset()`, one step per section of `sched_spinlock` |
| `Lock`, `LockReturn`, `Unlock` | `k_mutex_lock()` up to the wait and after it, `k_mutex_unlock()` |
| `CondWait`, `CondReturn`, `Signal`, `Broadcast` | the operations of `condvar.c` |

In `Sem`, `lock` is the spinlock of `sem.c` with the operation that holds it.
`SMP` says whether others run meanwhile: on one CPU interrupts are masked, and
threads do not run while an interrupt is served, but a nested interrupt may give
the semaphore between the dequeue of a timeout and its callback. `granted` is a
history variable. `Mutex` is for one CPU, where each operation up to its wait is
one step; `held` is what each thread counts for itself. A call with K_NO_WAIT
that finds the semaphore or mutex taken changes nothing. An unlock by a thread
that is not the owner is refused and changes nothing; neither is an action.

### Ipc and the objects in it

`obj` is the object of a behaviour, a record whose fields are those of the C
structure; `call` is what a thread waits in, with its argument (a message to put,
events to wait for), and `swap_data` what it has been handed. On one CPU an
operation up to its wait is one step; the timer interrupt that nests others has
the usual two steps. Operations that do not wait may be an interrupt's.
Starts and stops of a timer take no lock and are a step for each call they make;
`calls` says what each caller does next, `unpended` is a thread that is off the wait
queue and yet to be readied. The blocks of a heap have places and sizes; free chunks
are in buckets by size as in `heap.c`, where a search looks at `alloc_loops`
(`CONFIG_SYS_HEAP_ALLOC_LOOPS`) chunks of the first bucket. Histories: `woken` (heap)
and `units` (semaphore).

| Action | Code |
|---|---|
| `MsgqPut`, `MsgqGet`, `MsgqPutWait`, `MsgqGetWait`, `MsgqPurge` | `k_msgq_put()`, `k_msgq_get()` without and with a wait, `k_msgq_purge()`; `PeekAt` is `k_msgq_peek_at()` |
| `QueueInsert`, `QueueAppendList`, `QueueGet`, `QueueGetWait`, `QueueCancelWait` | `queue_insert()` and all that call it, `k_queue_append_list()`, `k_queue_get()`, `k_queue_cancel_wait()` |
| `StackPush`, `StackPop`, `StackPopWait`; `SlabAlloc`, `SlabAllocWait`, `SlabFree` | stacks; memory slabs |
| `HeapAlloc`, `HeapAllocWait`, `HeapRetry`, `HeapFree` | the loop of `k_heap_aligned_alloc()`, `k_heap_free()`; `alloc_chunk` has the chunks that the search may return, for every order of the free lists |
| `EventPost`, `EventWait` | `k_event_post_internal()`, `k_event_wait_internal()` |
| `TimerStart`, `TimerSetPeriod`, `TimerSetStatus`, `TimerAdd` | `k_timer_start()` |
| `TimerStop`, `TimerUnpend`, `TimerReady` | `k_timer_stop()` |
| `TimerStatusGet`, `TimerStatusSync`, `TimerSyncReturn` | the status of a timer |
| `TimerExpires`, `TimerHandler`, `TimerWake`, `TimerWakeReady` | dequeue, the handler up to the expiry function, after it, and the readying of the thread |
| `SysGive`, `FutexWake`, `SysTake`, `SysTakeAgain` | `sys_sem_give()`, `sys_sem_take()`, one step per atomic access |
| `FutexTest`, `FutexPend`, `FutexReturn` | `k_futex_wait()`: comparison, wait, return |

`Exchange` has no wait queues, ring buffers or free lists: a channel of items, to
which items are accepted and from which the next one in the order of the object is
delivered. The refinement mapping reads the ring buffer between its pointers.

### Sched

`k` is the state under `sched_spinlock`: `current`, `cache` (the next thread),
`runq`, and for each thread its `state` flags, priority, scheduler lock depth,
`pended_on` and timeout. The functions of `sched.c` are operators on it under their
own names, so that an action reads like the call: `update_cache(queue_thread(...))`.
`op` is what a thread has left to do of `k_wakeup()` or `k_thread_suspend()`, whose
sections interleave with interrupts and more urgent threads. Histories:
`adrift` (threads on which an aborted thread left a call undone), `overdue` (a switch that a call has put off).

| Action | Code |
|---|---|
| `Create`, `Start`, `Abort`, `Join` | `k_thread_create()` with every kind of delay, `k_thread_start()`, `k_thread_abort()`, `k_thread_join()` |
| `PendCurr`, `Wake`, `Sleep` | `z_pend_curr()`, `z_sched_wake()`, `k_sleep()` |
| `SuspendStart`, `SuspendEnd`, `Suspend`, `IsrSuspend`, `Resume` | `k_thread_suspend()` in two sections, in one when there is no timeout, in an interrupt; `k_thread_resume()` |
| `WakeupStart`, `WakeupAbort`, `WakeupMark`, `WakeupEnd`, `IsrWakeup` | `k_wakeup()` |
| `PrioritySet`, `SchedLock`, `SchedUnlock`, `Yield` | the calls of these names |
| `IsrEnter`, `IsrExit`, `TimeSlice`, `Expire`, `Callback` | interrupts and the switch at their end, `z_time_slice()`, a timeout's two steps |

### Onoff

`pc`, `evt` and the variables after them are the locals of `process_event()`, which
one context runs at a time while others leave their events in `deferred`. `driver` is
the transition under way in the service, which completes at any moment, also before
the function that starts it has returned. `call` says where a client's node is.
Monitors are notified from a list that is read without the lock, the next one before
each callback. `CONFIG_ASSERT` says whether the assertion in `onoff_cancel()` is
compiled in; with it a behaviour does not go past its failure.

| Action | Code |
|---|---|
| `Request`, `Release`, `Cancel`, `Reset`, `NotifyOne` | the API; the direct notification of a client that finds the service on |
| `MonitorRegister`, `MonitorUnregister` | the same |
| `TransitionComplete` | the callback of the service |
| `Complete`, `Recheck`, `NotifyMonitor`, `NotifyClient`, `Transit`, `Relock` | the parts of the loop in `process_event()` |

### Nvs

The flash is an array of sectors of `K` cells; a cell holds an allocation entry, a part
of a value, garbage, or is erased. `todo` is the list of flash operations that the
current call still has to make, and `PowerFails` may come before each of them, or
leave one half done (`TornOps`). The rest of the state is `struct nvs_fs`. `held` is a
history variable: the value of each identifier whose entry was last written whole.

| Action | Code |
|---|---|
| `Write`, `WriteLoop`, `WriteReturn` | `nvs_write()`, also as `nvs_delete()` |
| `GcStart`, `GcStep`, `GcEnd` | `nvs_gc()`, one entry at a time |
| `FlashStep` | one flash write, or the erase of one page |
| `Mount`, `RestartGc`, `Mounted` | `nvs_startup()`, the repeated collection, `nvs_lookup_cache_rebuild()` |
| `PowerFails` | loss of power |

## 4. What TLC checks

### Work queues

* `workq` (a plain and a delayable item, all calls; 69 066 states). One machine
  with all that matters is too large, so a behaviour takes place on one of three
  (`Bounded` in `MCWorkQSync`), and may decide late which: one queue and one client with
  other code between the dequeue of a timeout and its callback; one queue and two
  clients, which give several cancellers, flushers and drainers at once; two queues,
  which reentrancy needs, and one client. Flags, pending lists and running handlers agree
  (`IInv`); a DELAYED item has a timeout, and without the gap nothing else has a
  linked one, so that the assertion of `z_add_timeout()` holds there
  (`DelayedHasTimeout`); items are taken in order; flushes and synchronous cancellations
  wait for all they cover; waiting cancellers are recorded, no wakeup is lost, a
  plugged queue is quiet; the model implements `WorkPromise`. Under fairness: flushes and
  cancellations return, queued items are taken, scheduled ones are seen to. A drain
  returns unless handlers resubmit for ever.
* `workq_lost_flush` (violation): with other code between dequeue and callback,
  `k_work_flush_delayable()` drops the submission it should hasten.

### Timeouts

* `timeout` (one CPU and two, three timeouts, time up to 3; 231 779 states). On one
  CPU and on two, timeouts on the same tick included: the deltas keep every deadline,
  and `z_timeout_remaining()` leads to it from the uptime (`TimeoutInv`); between
  announcements the uptime is the time and the driver is programmed for the first
  timeout; every timeout expires or is aborted. On one CPU, and on two up to the
  moment when two timeouts are due on the same tick (`shared`): one CPU at a time
  processes ticks and the clock is not ahead of the time (`ClockInv`), callbacks do
  not run before the time asked for (`NotEarly`), and the model implements
  `TimeoutPromise`. Three timeouts are the least with one before, one between and
  one after an edit of the list; three ticks allow an announcement that is late by
  several deadlines.
* `timeout_smp` (violation): from the moment when two timeouts are due on the same tick,
  two CPUs run callbacks in parallel, against the comment at the head of
  `sys_clock_announce()`.

`NotEarly` counts from the uptime at the call, in a callback and in an interrupt that
nests in one too. That uptime lags the time while an announcement is processed (section 5).

### Semaphores

* `sem` (one CPU, one semaphore, three threads, two of them of one priority;
  2 164 states): threads are on the wait queue they are pended on, in the order
  of priority and then of arrival; none waits while there is a unit; none is
  forgotten; `k_sem_take()` returns 0 to exactly the threads a give chose; a take
  with a timeout returns. Three threads give a queue with a middle.
* `sem_smp` (violation): on SMP a timeout callback runs between
  `z_unpend_first_thread()` and `arch_thread_return_value_set()`; the thread
  returns -EAGAIN and the unit is lost. The other invariants are proved for SMP
  too (section 6).

### Mutexes and condition variables

* `mutex` (one CPU, three threads of different priorities, one mutex with
  recursive locks, one condition variable; 6 027 states): kernel and threads
  agree on the owner and the count; a hand-over that meets a timeout is not
  lost; the owner is as urgent as its waiters; inherited priority goes away with
  its reason. One mutex is what the documentation advises to hold at a time
  (section 5 for more).

Wait queues of condition variables are not claimed to be sorted: a thread that
waits with the mutex still locked once (it had locked it twice) may inherit a
priority while it is pended. `PriorityJustified` is claimed without a ceiling
(no thread is more urgent than `Ceiling`): when `CONFIG_PRIORITY_CEILING` is less
urgent than a thread's own priority, a waiter that times out leaves the owner at the ceiling,
less urgent than it was created.

### Objects that pass data and events

* `ipc` (two threads of different priorities, four items, room for two, a heap of six
  units, two callers of a timer; 32 941 states over eight kinds of objects). `IpcInv`:
  the wait queue and the threads agree, nobody is forgotten, nobody waits for what a
  message queue, queue, stack, slab or event object could give it (a message queue
  never has readers and writers waiting at once); an allocation waits only if its
  search could fail when it was made, and no block has been freed since; used
  blocks are counted; a thread that waits for a timer has the timer, its interrupt
  or an unfinished start or stop to wake it; units of a user-mode semaphore are
  kept (of its waits nothing is claimed, section 5).
  `ImplementsExchange`: items of
  message queues, queues, stacks and slabs are delivered once and in the order of
  the object, through the buffer or from hand to hand. `ResultIsTrue`: success is
  returned exactly to the calls that were served. `WaitsReturn`, under fairness:
  calls that were served or have a timeout return. Two threads make every meeting of
  a waiter with one that serves it and with one that waits too; two places and
  four items make the ring buffer wrap, full and empty, with a third writer's
  message handed over; interrupts act as further callers. With six units and
  requests of one and three, and one chunk looked at, a search overlooks a chunk that
  fits.

### Scheduler

* `sched` (three threads, one of them cooperative, of which one makes the calls
  of several sections; 2 102 588 states). `SchedInv`: a thread's one list node is on at
  most one queue, as its flags say, and every ready thread is on the run queue, unless
  a callback, `k_wakeup()` or `k_thread_suspend()` is busy with it, or one of these calls
  was cut short by the abort of its caller (`adrift`; such a thread is forgotten, section 5).
  `CacheFresh`: the cached choice is the best thread. `MostUrgentRuns`: so is the
  current one, if it may be preempted and no call has put a switch off. Three threads
  give a run queue with one more thread than the current and the called one. Priorities
  are set to 0; with -1 and 0 (8.4 million states, too many for this run) TLC
  finds no violation either.

### On-off services

* `onoff` (three clients, one monitor; 4 052 states): lists, reference count, state and
  transitions agree whatever is called while `process_event()` has released the
  lock; the service is on while a client has it; between two invocations of
  `process_event()` clients are listed in transitions only; and under
  fairness every request is answered, and a service nobody has is turned off.
  Three clients allow one to have the service, one to release it and one to
  request it during a transition. The invariants hold with two monitors too (15 620
  states); liveness needs that monitors do not unregister and register for ever, which
  would keep the walk over their list from ending, and with one there is no next.

### Non-volatile storage

* `nvs` (two sectors of nine cells erased in three pages, two identifiers that
  share a place of the lookup cache, values of one and two cells, two losses of
  power; 461 397 states): every mount succeeds and leaves a log fit to be written to,
  provided that a sector has more places than can be used up without an entry that has
  data (`LargeSectors`; nine cells are just enough here, section 5 for less);
  at every moment the flash holds for each identifier the value whose write took
  effect last; lookups through the cache find it. Nine cells let a sector fill with
  live and dead entries and be collected; the second loss of power falls into the
  recovery from the first. With three sectors of eight cells and one loss of power (10.7
  million states, too many for this run) TLC finds no violation either.
* `nvs_torn_close` (violation): if the write of the entry that closes a full sector is torn,
  a deletion in the last place of the sector is lost.

### Fairness

A scheduler that eventually runs every ready thread, and an interrupt controller
that eventually serves every interrupt, give: each queue thread, each woken
client and each woken thread eventually takes its next step, and a timeout that
stays linked expires. Strong fairness is used for steps that masked interrupts
or a served interrupt disable for a moment again and again: the processor is
given back each time, and the pending step is still there. Handlers are assumed
to return. No fairness is assumed of the callers of the API. For the timeout
queue: time passes, the driver interrupts once its alarm is reached, callbacks
return. In `Sem`, code that holds the lock goes on; in `Ipc`, a stop of a timer that
has unpended a thread readies it. In `Onoff`, callbacks return
and transitions complete, with success or failure. `Sched` and `Nvs` are checked
for safety only: what runs when is up to the applications, and power may fail
for ever.

### Deadlock

TLC's deadlock check is off for `TimeoutQ`, which stops at `MaxTime`, and for
`Nvs`, which stops when the storage is full and the losses of power are used up.
It is on everywhere else: some call can always be made.

## 5. Observations

What the models show the code to do, where a document, a comment or an assertion says
otherwise or a reader might expect otherwise. The first four are runs. For the others
no property claims what fails; each item says which model shows it.

* `k_work_flush_delayable()` between the dequeue of the item's timeout and its
  callback loses the submission (run `workq_lost_flush`).
* On SMP, when two timeouts are due on the same tick, `announce_remaining` is 0 in the
  callback of the last of them, and a second CPU enters the loop (run `timeout_smp`).
  From there on `announce_remaining` can become negative, `curr_tick` can run backwards,
  and callbacks can run early: `ClockInv`, `NotEarly` and `ImplementsPromise` are
  claimed up to that moment only (`shared`).
* On SMP `k_sem_give()` loses a unit to a timeout (run `sem_smp`).
* NVS loses a deletion to a torn closing entry (run `nvs_torn_close`).
* Work: in the same gap a reschedule adds the timeout anew; the callback of the old one
  then takes DELAYED for its own and clears it, and the timeout stays linked without
  the flag. The next schedule adds it while it is linked. `z_add_timeout()` asserts
  that it is not (`timeout.c:94`); without assertions the list is corrupted. The
  model ends there: nothing is claimed after it. The queue thread still writes to the
  flusher in the caller's `k_work_sync` after `k_work_flush()` may have returned.
* Timeouts: `z_timeout_expires()` (`timeout.c:172`) is short of the deadline by the ticks
  that have elapsed and are not announced, since it adds `timeout_rem()`, which is less
  by them, to `curr_tick`; `kernel.h:1590` says "the future system uptime reached at
  the next time of expiration of the timer". It is not modelled; `TimeoutInv` is about
  `z_timeout_remaining()`. While ticks are announced, `elapsed()` is 0 and the uptime is
  that of the timeout being processed: a timeout added by a callback or a nested
  interrupt counts from there, and with a late announcement expires early by the
  lateness.
* Mutexes: `mutexes.rst:44` says that a mutex is handed to "the highest-priority thread
  that has waited the longest". With two mutexes and four threads it is not:
  `z_set_prio()` does not move a pending thread in its wait queue (`sched.c:924`). With one
  mutex no pending thread's priority changes, and no property is stated of it.
* Futexes: `k_futex_wait()` compares the value before it takes the lock (`futex.c:77`). A
  thread that changes the value and calls `k_futex_wake()` in between finds nobody to
  wake, and `sys_sem_take()` sleeps with a unit in the semaphore (a trace of six
  states; `kernel.h:2124`: "if it is different the caller will not wait on it").
* `sys_sem_take()` starts its timeout anew in every turn of its loop.
* Heaps: `alloc_chunk()` looks at a bounded number of chunks of the first bucket
  (`heap.c:218`), so that an allocation may fail, and its thread wait, although a chunk
  fits; and it may wait although the search would find a chunk by now, after
  allocations of others.
* Timers: `k_timer_stop()` between the dequeue of the timeout and its handler does
  nothing, and the handler restarts a periodic timer. A start on another CPU that has
  aborted the timeout and not yet added it meets the handler in the same place, which
  counts an expiration of the old timer and links a periodic one; like two starts that
  overlap, the start then adds a linked timeout, against the assertion of
  `timeout.c:94`. The model ends there.
* On-off: `onoff_cancel()` asserts that a client on the list is there in a transition
  (`onoff.c:557`). While `process_event()` notifies in OFF or ERROR with the lock
  released, clients join and are on the list until the recheck; cancelling one then
  fails the assertion. Unregistering the monitor that is next on the walk
  (`onoff.c:163`), from another context, ends the walk there: the monitors behind it are
  not told of the state, while the one that was unregistered still is.
  `onoff_cancel_or_release()` decides to release on an answer that may be out of
  date: a request that failed is answered with -EALREADY, and if the service has
  been reset and turned on for another client by then, that client's reference is
  released. The overflow check of `onoff_request()` does not count clients on the list.
* NVS, small sectors: with three sectors of six cells, values of one and two cells and
  two losses of power, a sector is used up without a valid entry that has data, `ate_wra`
  passes the start of the sector at mount, and the file system is used with it there
  (`ReadyState`, a part of `LogInv`, fails); so does a sector filled with deletions.
  `LargeSectors` excludes it.
* NVS: `nvs_read_hist()` compares `cnt_his < cnt`: asked for one entry more than
  there are, it returns the oldest again if that ends the log. Lookups walk the log
  without the lock while another thread may collect.
* Scheduler, suspension: `k_thread_suspend()` "prevents the kernel scheduler from making
  thread the current thread" (`kernel.h:926`). A timeout that is dequeued, or added by the
  thread between the two sections of the call (`sched.c:652`), ends the suspension
  when its callback clears SUSPENDED (`sched.c:796`). Resuming a thread whose wait had a
  timeout does not make it "return from the blocked call": it goes on waiting, without
  the timeout.
* Scheduler, wakeup: `k_wakeup()` also aborts the timeout of a delayed start, and of a
  wait that begins between its check and the abort (`kernel.h`: "If thread is not
  currently sleeping, the routine has no effect"); the thread then has no timeout and may
  not be started or woken any more. Its change of `thread_state` without the lock is a
  step in the model, where in the code it is a read and a write. Between its last
  sections the thread is ready and not queued: `k_thread_priority_set()` on it there
  removes a node that is not linked, by writing through null pointers; the model goes
  on with the queues unchanged. A caller that is aborted there, or within
  `k_thread_suspend()`, leaves the thread ready and not queued, and nothing queues it
  (`adrift`).
* Scheduler, switches: `k_thread_abort()` of another thread does not reschedule, so a more
  urgent joiner waits for the next switch. `k_thread_priority_set()` switches a cooperative
  caller out, whereas `kernel.h:797` lets only a preemptible caller be. With the scheduler
  locked it points the cache to another thread, as `k_thread_abort()` does, and the next
  interrupt switches to it although the current thread is cooperative or has locked the
  scheduler.

## 6. What is proved

Every theorem is about the specification that TLC checks and holds for every value
of its constants. The assumptions are those that the modules state on their
constants (sets of threads, queues and the like are disjoint, NONE is none of them,
limits are above zero), and what a theorem names itself. A theorem whose property a
run checks has that property as its statement; the run's mutants show that
the property can fail.

All invariants are proved the same way: an inductive invariant, which TLC checked
first, one lemma per action, and the property as a consequence. What list
operations do to membership, occurrences and order is in `ListFacts`, proved from
the definitions of sequences.

### Work queues (`WorkQProofs`)

For any sets of queues, items and clients, with or without the timeout gap:

* `TypeCorrect`: `Spec => []TypeOK`;
* `QueuedExactlyOnce`: an item is QUEUED exactly when it is on the pending list of
  its queue, once;
* `HandlersNotReentered`: RUNNING means exactly one queue thread has the item;
* `CancelingEnds`: a CANCELING item is running and not queued;
* `Refinement`: `Spec => WorkPromise`;
* `FirstInFirstOut`: no item starts before one queued earlier;
* `DelayedWillFire`: a DELAYED item has a timeout, and without the gap no other item has
  a linked one, so the assertion of `z_add_timeout()` holds there;
* `NobodyIsForgotten`: whoever waits is recorded where its wakeup comes from, no
  queue thread sleeps with work to do, a plugged and drained queue is quiet;
* `NoEarlyReturn`: a flush or synchronous cancellation does not return before the
  instances of the item that were queued or running at the call are done.

None of the first is inductive alone. That an item is queued once needs that a
CANCELING item is not queued (else its flags would stop a submission and
not the flag's clearing); reentrancy needs that a running item is resubmitted
only to the queue that runs it, hence that `wqueue` names that queue; both need
the place of the queue thread (`WorkerState`) and that a queued item has a queue.
`IInv` is their conjunction; TLC checks it in `workq`. That nobody is
forgotten needs to know where each waiting client is (`WaitersPlaced`, a part of
`WaitersInv`): a flusher is on a list or being handled, once; a drainer is on the
wait queue of its queue. `NoEarlyReturn` needs, further, that the flusher or the
record of a canceller stands behind all that the call has to wait for (`OwedInv`).

### Timeouts (`TimeoutQProofs`)

For any timeouts, delays and sets of CPUs:

* `QueueInvariant`, without a condition: the deltas add up to the deadlines, and
  the times `z_timeout_remaining()` reports lead to them;
* `ClockInvariant`: between announcements the uptime is the time and the alarm covers
  the first timeout; up to the moment when two timeouts are due on the same tick of an
  SMP machine, one CPU at a time processes ticks and the clock is not ahead of the time;
* up to the same moment, `NeverEarly`: no callback runs before the time asked for,
  counted from the uptime at the call; and `PromiseKept`: every step is one of
  `TimeoutPromise`.

On one CPU that moment never comes.

The invariant says of each delta that it leads from the deadline of the timeout
in front to its own, of `curr_tick` and `announce_remaining` how far the announced
ticks are processed, in a callback and outside, and of the alarm that it covers the
first timeout. `z_add_timeout()` and `remaining` sum deltas over the list: that the sum
of the deltas up to a timeout is its deadline less `curr_tick` is proved by induction
over the place in the list. The library's induction theorem cannot be used; the
induction is done in `ListFacts` (`NatInd`) from the fact that a set of natural
numbers has a least element, and that the recursive function exists is proved too.

### Semaphores (`SemProofs`)

For any sets of threads and semaphores, any priorities and any limit:

* on one CPU and on several: `TypeCorrect`, `WaitersQueued`, `MostUrgentFirst`,
  `NobodyWaitsForUnits`, `NobodyStranded`, `NoOvertaking`;
* on one CPU: `ResultsTrue`. The run `sem_smp` shows that it does not hold on
  several.

The invariant `IInv` is the order of the wait queues (`QueueInv`: types, a pending
thread is on its queue once and not on the run queue, queues are sorted), that
no thread waits for a semaphore with a unit, that a pending thread is in
`k_sem_take()` for the semaphore it is pended on, and that no thread is
stranded. The last needs the one before it: `z_ready_thread()` does nothing for a
thread that is pended or whose timeout is linked, and such a thread is not
stranded because what it is pended on is what it takes.
`ResultsTrue` needs more (`ResultInv`): a pending thread has been given nothing
and would return -EAGAIN; the return value of a waiting thread is right except
between its being chosen and its being readied, and on one CPU no thread returns
then.

That `z_priq_dumb_add()` keeps a list sorted, and puts a thread behind all
that are as urgent, is proved in `ListFacts` from the definition of the place of
insertion as the least index with a less urgent thread. What pending, unpending
and `z_thread_timeout()` do to the queues comes first in `SemProofs`, for any number of
wait queues and apart from what semaphores do.

### Mutexes (`MutexProofs`)

* for any threads, mutexes and condition variables, `MutexInvariant`: kernel and threads
  agree on owner and count, and a thread is told that it has the mutex exactly when
  it is the owner;
* with one mutex, any threads and priorities: `OwnerInherits` (the owner is as urgent as
  its waiters, up to the ceiling) and, with a ceiling that lowers nobody,
  `RaisedForAWaiter` (no priority is raised without a reason).

`MutexInv` is inductive as the run checks it; for that it says where a thread is in its
call (`ThreadPlaced`, `CallsPlaced`). The priorities need `PriosInv`: a thread that
owns nothing has its own priority, the owner's own one is what the mutex has saved,
and the wait queue is sorted. With two mutexes each of these fails (section 5), so the
theorems assume one.

### Kernel objects (`IpcProofs`)

For any set of threads, any finite set of items, any priorities, requests, event bits
and sizes of the objects, and for all eight objects:

* `IpcInductive`: `Spec => []IInv`, the inductive invariant;
* `IpcSafe`: `IpcInv`. The wait queue holds exactly the threads that are pended, the
  most urgent first; nobody is stranded; no thread waits for what a message queue, queue,
  stack, slab or event object could give it: a reader for a message in the buffer, a
  writer for a free slot, a thread for events that are set; an allocation waits only
  if its search could fail on the blocks there are, without some that came since; a
  timer's waiter has somebody to wake it; a user-mode semaphore keeps its units;
* `ResultsAreTrue`: `ResultIsTrue`, a call succeeds if and only if it was served (for
  queues and timers only the one direction: `k_queue_cancel_wait()` and an expiration
  end a wait with success and nothing handed over);
* `ItemsAreExchanged`: `Spec => ImplementsExchange`, the refinement of `Exchange`.

`IInv` has two parts. `BaseInv` is what all objects share. A thread is ready
unless it is pended; a pended thread is in a call that nobody has served, with
nothing in `swap_data` and -EAGAIN as the result it would return; a linked timeout
belongs to a pended thread, and one that is firing is not linked. This is the reason why
the gap between the dequeue of a timeout and its callback is harmless:
`z_unpend_first_thread()` takes the thread off the wait queue, and the callback, which
comes later, finds it no longer pended and does nothing. The other part says, for the
object of the behaviour, what is in it and which calls wait at it:

* message queue: the pointers are `used_msgs` apart, up to one turn of the ring
  (`Ring`); readers wait only when it is empty and writers only when it is full, so
  never both; a message that waits to be written is nowhere else (`OwnMessage`);
* queue, stack, slab: threads wait only when the object is empty; `num_used` of a slab
  is the number of blocks that are not on its free list, which stays true when a
  block goes from hand to hand;
* heap: the search of a pended thread could fail on a subset of the blocks (`Full`): they
  only become more while it is pended, since every free wakes all that are;
* event: the events of the object do not meet the condition of a pended thread, and
  those a thread was given do meet its own;
* timer: whoever waits has a running timer, its interrupt under way, or a start or stop
  that is yet to add the timeout or to unpend; whoever is unpended has one caller, or
  the interrupt, about to ready it;
* user-mode semaphore: the units are the value above zero. Nothing is claimed about the
  threads that wait.

Neither part stands alone: `Truthful` (success exactly if served) is preserved by a timeout
only because a pended thread has not been served, and that nobody waits in vain is preserved
by the service of one thread only because the others are still pended on the same
queue.

The refinement maps the contents of an object to `chan`, the oldest item first: the
messages from `read_ptr` on around the ring, the list of a queue, the array of a
stack, the free list of a slab backwards; `swap_data` of the threads is `given`. That
a put appends to what is read around the ring, and a get takes its head, is proved from
the pointers (`StoredFacts`, `FetchedFacts`), for any size. Each action is then
shown to be a step of `Exchange` or to change none of its variables. The steps where
an item goes to a thread that waits need that the object is empty then
(`IInv`), since it passes no other; a get on a full message queue with a writer waiting
is one step of the abstract specification, `Deliver` with the next message accepted.

### Scheduler (`SchedProofs`)

For any threads and priorities, any set of callers, with and without timeouts of joins:

* `NoThreadForgotten`: flags and queues agree, every ready thread is on the run queue
  once, or something is under way with it, or a call on it was cut short by an
  abort (then nothing will queue it); the run queue is sorted;
* `CacheStaysFresh`: the cached choice is the best thread;
* `MostUrgentThreadRuns`: outside interrupts the thread that runs is ready, and the
  first of the run queue if it may be preempted and no switch was put off.

The proof follows the code: what each function of `sched.c` does to the record `k`
is a lemma, with two sets of exceptions, the threads that are still to be readied
and the one that is just ending, since inside a call the invariant is broken
(`Inv`). An action's lemma then composes those of the functions it calls.
`unpend_all()` is a loop; what it does is proved by induction over its turns.
The inductive invariant `SchedulerInvariant` adds to the three properties what
interrupts may leave behind: the current thread, even if it was stopped by an
interrupt, has no timeout and waits for nothing (`CurOk`; else the callback of a timeout
could ready it behind the back of the cache); a thread that must not be preempted
is the cached choice unless a switch was put off (`CoopOk`), also in the middle of
an interrupt.

### On-off services (`OnoffProofs`)

For any clients and monitors, `ManagerInvariant` (the reference count is the number of
clients that have the service or are being told so, lists and state agree,
transitions do not overlap, no deferred event is forgotten), `StaysOnWhileHeld`, and
`ListedInTransition` (between invocations of `process_event()` clients are listed
in transitions only). `OnoffInv` is inductive with the place
of the loop of `process_event()` in it (`LoopPlaced`): what is deferred, and which
part of the loop comes next, is a function of its local variables. The count
needs that a list on which nobody is twice is as long as the set of its members.

### What is only model-checked

All liveness (`WaitsReturn` and its like), which is out of the prover's reach together
with ENABLED. `LogInv`,
`Durable` and `LookupsTrue` of `Nvs`: what a walk over the log finds is a recursive
function of the whole flash, and an invariant that says it for a log of any length, at every
point of a collection where power may fail, is induction over that data.

## 7. Not modelled

* Everywhere: memory ordering below the spinlocks; user-mode system call wrappers,
  tracing hooks and argument checks; statistics; 32-bit tick arithmetic and its
  overflow; priorities of threads outside `Sched` and the wait queues (any ready thread
  may run next); what happens after an assertion of `z_add_timeout()` has failed, or
  would have.
* `TimeoutQ`: `z_timeout_expires()` (section 5).
* `WorkQ`: a queue thread started twice, re-initialisation of an item in use (which
  the documentation forbids).
* `Ipc`: polling (`CONFIG_POLL`), pipes and mailboxes; several CPUs, but for the steps of
  timers; aligned allocation, reallocation and the headers of chunks; the buffers that
  `k_msgq_alloc_init()` and `k_stack_alloc_init()` allocate; `k_queue_remove()` and
  `k_queue_unique_append()`, which walk the list without the lock.
* `Mutex`: several CPUs, where `k_mutex_unlock()` tests and decrements the count without
  the lock; `sys_mutex`.
* `Sched`: several CPUs, meta-IRQ threads, deadlines, CPU masks, the tree and
  multi-queue forms of the run queue; calls on threads that have ended; interrupts
  nested within the calls of an interrupt.
* `Onoff`: `onoff_sync_lock()` and `onoff_sync_finalize()`.
* `Nvs`: several callers, flash errors, `nvs_clear()`, `nvs_calc_free_space()` and
  the history of `nvs_read_hist()`.
* Device runtime power management, packet buffers and meta-IRQ work queues, which
  the plan has not reached. Device runtime power management is the next candidate;
  it rests on an event object, a semaphore and a delayable item, all modelled here.
* The rest of the repository (section 1): hardware, protocol suites that are projects
  of their own, generated data, and code without state.

