------------------------------- MODULE WaitQ -------------------------------
(***************************************************************************)
(* Wait queues and thread timeouts (kernel/sched.c), which the blocking    *)
(* primitives share: a thread pends on a wait queue, is unpended by        *)
(* another thread or by an interrupt, or is woken by its timeout.          *)
(*                                                                         *)
(* Every section that holds sched_spinlock is one step.  Priorities are    *)
(* numbers, the smaller the more urgent; a ready thread may run at any     *)
(* time.                                                                   *)
(***************************************************************************)
EXTENDS Integers, Sequences, Lists

CONSTANTS
  Threads,
  WaitQs,     \* the wait queues of the kernel objects
  BasePrio,   \* BasePrio[t]: the priority t was created with
  NONE,
  SMP         \* CONFIG_SMP: other CPUs run while one holds a spinlock

ASSUME WaitQAssumption ==
  /\ BasePrio \in [Threads -> Int]
  /\ NONE \notin Threads \cup WaitQs
  /\ SMP \in BOOLEAN

VARIABLES
  prio,       \* thread->base.prio
  waitq,      \* the threads on each wait queue
  pended_on,  \* thread->base.pended_on; a thread is PENDING iff it has one
  linked,     \* thread->base.timeout is on the timeout list
  firing,     \* the thread whose timeout was dequeued, callback pending
  ready,      \* the thread is running or on the run queue
  swap_retval

schedVars == <<prio, waitq, pended_on, linked, firing, ready, swap_retval>>

SchedInit ==
  /\ prio = BasePrio
  /\ waitq = [q \in WaitQs |-> <<>>]
  /\ pended_on = [t \in Threads |-> NONE]
  /\ linked = [t \in Threads |-> FALSE]
  /\ firing = NONE
  /\ ready = [t \in Threads |-> TRUE]
  /\ swap_retval = [t \in Threads |-> "EAGAIN"]

(***************************************************************************)
(* Pending                                                                 *)
(***************************************************************************)
\* pend_locked() and z_swap() for the running thread t: it is off the run
\* queue, and returns -EAGAIN unless the one that wakes it says otherwise.
\* p is the priorities in force.
Pend(t, q, timed, p) ==
  /\ waitq' = [waitq EXCEPT ![q] = Inserted(@, p, t)]
  /\ pended_on' = [pended_on EXCEPT ![t] = q]
  /\ linked' = [linked EXCEPT ![t] = timed]
  /\ ready' = [ready EXCEPT ![t] = FALSE]
  /\ swap_retval' = [swap_retval EXCEPT ![t] = "EAGAIN"]

(***************************************************************************)
(* Waking                                                                  *)
(***************************************************************************)
\* z_abort_thread_timeout(), whose result z_unpend_first_thread() ignores.
Unlinked(t) == [linked EXCEPT ![t] = FALSE]

\* z_unpend_first_thread() on a queue that is not empty.
UnpendFirst(q) ==
  LET t == Head(waitq[q]) IN
  /\ waitq' = [waitq EXCEPT ![q] = Tail(@)]
  /\ pended_on' = [pended_on EXCEPT ![t] = NONE]
  /\ linked' = Unlinked(t)

\* Faulty variant: readied before it is unpended.
ReadiedTooEarly(t, pend, tmo) ==
  [ready EXCEPT ![t] = @ \/ (pended_on[t] = NONE /\ ~tmo[t])]

\* ready_thread(t), with its wait queue and timeout as pend and tmo say: a
\* thread that is pending or has a timeout stays off the run queue.
Readied(t, pend, tmo) ==
  [ready EXCEPT ![t] = @ \/ (pend[t] = NONE /\ ~tmo[t])]

\* sys_clock_announce() dequeues an expired timeout ...
TimeoutExpires(t) ==
  /\ firing = NONE
  /\ linked[t]
  /\ linked' = [linked EXCEPT ![t] = FALSE]
  /\ firing' = t
  /\ UNCHANGED <<prio, waitq, pended_on, ready, swap_retval>>

\* Faulty variant: every thread is taken for a killed one.
ThreadTimeoutIgnored ==
  /\ firing # NONE
  /\ firing' = NONE
  /\ UNCHANGED <<prio, waitq, pended_on, linked, ready, swap_retval>>

\* ... and calls z_thread_timeout(), that is z_sched_wake_thread().
ThreadTimeout ==
  LET t == firing
      q == pended_on[t]
  IN
  /\ firing # NONE
  /\ firing' = NONE
  /\ waitq' = IF q = NONE THEN waitq ELSE [waitq EXCEPT ![q] = RemoveItem(@, t)]
  /\ pended_on' = [pended_on EXCEPT ![t] = NONE]
  /\ ready' = Readied(t, pended_on', linked)
  /\ UNCHANGED <<prio, linked, swap_retval>>

(***************************************************************************)
(* Properties                                                              *)
(***************************************************************************)
SchedTypeOK ==
  /\ prio \in [Threads -> Int]
  /\ waitq \in [WaitQs -> Seq(Threads)]
  /\ pended_on \in [Threads -> WaitQs \cup {NONE}]
  /\ linked \in [Threads -> BOOLEAN]
  /\ firing \in Threads \cup {NONE}
  /\ ready \in [Threads -> BOOLEAN]
  /\ swap_retval \in [Threads -> {"0", "EAGAIN", "ENOMSG"}]

\* A thread is on the wait queue it is pended on and on no other, once, and
\* a pending thread is not on the run queue: no interleaving of a timeout
\* with a wake-up links the one qnode of a thread twice.
PendedIsQueued ==
  /\ \A q \in WaitQs, t \in Threads :
       /\ IsIn(waitq[q], t) <=> pended_on[t] = q
       /\ Once(waitq[q], t)
  /\ \A t \in Threads : pended_on[t] # NONE => ~ready[t]

\* The most urgent thread is first on its wait queue.
WaitqSorted ==
  \A q \in WaitQs : \A j, k \in DOMAIN waitq[q] :
    j < k => prio[waitq[q][j]] <= prio[waitq[q][k]]

\* The queues and the threads agree, in every primitive whose threads keep
\* their priority while they wait.
QueueInv == SchedTypeOK /\ PendedIsQueued /\ WaitqSorted

\* A thread never gets in front of one that waits already unless it is more
\* urgent: of equals, the one that has waited longest is first.
LongestFirst ==
  [][\A q \in WaitQs, t, u \in Threads :
       IsIn(waitq[q], u) /\ ~IsIn(waitq[q], t) /\ Before(waitq'[q], t, u) =>
         prio'[t] < prio'[u]]_schedVars
=============================================================================
