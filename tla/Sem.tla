-------------------------------- MODULE Sem --------------------------------
(***************************************************************************)
(* Counting semaphores (kernel/sem.c) over wait queues, in the build       *)
(* without CONFIG_POLL.  One spinlock guards all semaphores; giving and    *)
(* resetting wake threads in several sections of sched_spinlock while they *)
(* hold it.  On one CPU nothing else runs meanwhile; on several, timeouts  *)
(* and the threads themselves do.                                          *)
(***************************************************************************)
EXTENDS WaitQ

CONSTANTS Sems, Limit   \* the semaphores, and sem->limit

\* What the spinlock's holder is doing: the operation, its semaphore and the
\* thread it has unpended but not readied.
Holders == [op : {"give", "reset"}, sem : Sems, woken : Threads \cup {NONE}]

ASSUME SemAssumption ==
  /\ WaitQs = Sems /\ Limit \in Nat \ {0}
  /\ NONE \notin Holders

VARIABLES
  count,     \* sem->count
  lock,      \* NONE, or who holds the spinlock
  taking,    \* the semaphore the thread waits for in k_sem_take()
  granted    \* history: a k_sem_give() chose the waiting thread

semVars == <<count, lock, taking, granted>>
vars == <<schedVars, semVars>>

Init ==
  /\ SchedInit
  /\ count = [s \in Sems |-> 0]
  /\ lock = NONE
  /\ taking = [t \in Threads |-> NONE]
  /\ granted = [t \in Threads |-> FALSE]

\* On one CPU, interrupts are masked while the lock is held, and threads do
\* not run while an interrupt is served; a nested interrupt may come between
\* the dequeue of a timeout and its callback.
InterruptsRun == SMP \/ lock = NONE
ThreadsRun == SMP \/ (lock = NONE /\ firing = NONE)

Running(t) == ThreadsRun /\ ready[t] /\ taking[t] = NONE

(***************************************************************************)
(* k_sem_take()                                                            *)
(***************************************************************************)
\* There is a unit to take.
TakeNow(s) ==
  /\ InterruptsRun
  /\ lock = NONE
  /\ count[s] > 0
  /\ count' = [count EXCEPT ![s] = @ - 1]
  /\ UNCHANGED <<schedVars, lock, taking, granted>>

\* There is none, and the thread waits.
TakePend(t, s, timed) ==
  /\ Running(t)
  /\ lock = NONE
  /\ count[s] = 0
  /\ Pend(t, s, timed, prio)
  /\ taking' = [taking EXCEPT ![t] = s]
  /\ granted' = [granted EXCEPT ![t] = FALSE]
  /\ UNCHANGED <<prio, firing, count, lock>>

\* The waiting thread runs again and z_pend_curr() returns swap_retval.
TakeReturn(t) ==
  /\ ThreadsRun
  /\ taking[t] # NONE
  /\ ready[t]
  /\ taking' = [taking EXCEPT ![t] = NONE]
  /\ granted' = [granted EXCEPT ![t] = FALSE]
  /\ UNCHANGED <<schedVars, count, lock>>

(***************************************************************************)
(* k_sem_give() and k_sem_reset()                                          *)
(***************************************************************************)
Given(c) == IF c # Limit THEN c + 1 ELSE c

\* Faulty variant: the count goes up although a thread waits.
GiveAlways(s) ==
  /\ InterruptsRun
  /\ lock = NONE
  /\ count' = [count EXCEPT ![s] = Given(@)]
  /\ UNCHANGED <<schedVars, lock, taking, granted>>

Give(s) ==
  /\ InterruptsRun
  /\ lock = NONE
  /\ \/ /\ waitq[s] = <<>>
        /\ count' = [count EXCEPT ![s] = Given(@)]
        /\ UNCHANGED <<schedVars, lock, granted>>
     \/ /\ waitq[s] # <<>>
        /\ UnpendFirst(s)
        /\ lock' = [op |-> "give", sem |-> s, woken |-> Head(waitq[s])]
        /\ granted' = [granted EXCEPT ![Head(waitq[s])] = TRUE]
        /\ UNCHANGED <<prio, firing, ready, swap_retval, count>>
  /\ UNCHANGED taking

Reset(s) ==
  /\ InterruptsRun
  /\ lock = NONE
  /\ lock' = [op |-> "reset", sem |-> s, woken |-> NONE]
  /\ UNCHANGED <<schedVars, count, taking, granted>>

\* The loop of k_sem_reset(): unpend the next thread, or finish.
ResetLoop ==
  /\ lock # NONE /\ lock.op = "reset" /\ lock.woken = NONE
  /\ \/ /\ waitq[lock.sem] # <<>>
        /\ UnpendFirst(lock.sem)
        /\ lock' = [lock EXCEPT !.woken = Head(waitq[lock.sem])]
        /\ UNCHANGED <<prio, firing, ready, swap_retval, count>>
     \/ /\ waitq[lock.sem] = <<>>
        /\ count' = [count EXCEPT ![lock.sem] = 0]
        /\ lock' = NONE
        /\ UNCHANGED schedVars
  /\ UNCHANGED <<taking, granted>>

\* Faulty variant: the return value of the thread is not set.
WokenValueUnset(op) == "EAGAIN"

WokenValue(op) == IF op = "give" THEN "0" ELSE "EAGAIN"

\* arch_thread_return_value_set() and z_ready_thread() for the unpended
\* thread; a give then releases the lock.
Wake ==
  /\ lock # NONE /\ lock.woken # NONE
  /\ swap_retval' = [swap_retval EXCEPT ![lock.woken] = WokenValue(lock.op)]
  /\ ready' = Readied(lock.woken, pended_on, linked)
  /\ lock' = IF lock.op = "give" THEN NONE ELSE [lock EXCEPT !.woken = NONE]
  /\ UNCHANGED <<prio, waitq, pended_on, linked, firing, count, taking, granted>>

(***************************************************************************)
(* The timer interrupt                                                     *)
(***************************************************************************)
Expire(t) ==
  /\ InterruptsRun
  /\ TimeoutExpires(t)
  /\ UNCHANGED semVars

Callback ==
  /\ InterruptsRun
  /\ ThreadTimeout
  /\ UNCHANGED semVars

Next ==
  \/ \E t \in Threads :
       \/ \E s \in Sems, timed \in BOOLEAN : TakePend(t, s, timed)
       \/ TakeReturn(t)
       \/ Expire(t)
  \/ \E s \in Sems : TakeNow(s) \/ Give(s) \/ Reset(s)
  \/ ResetLoop
  \/ Wake
  \/ Callback

Spec == Init /\ [][Next]_vars

\* Code that holds the lock goes on, timeouts expire, and a ready thread runs
\* between interrupts.
FairSpec ==
  /\ Spec
  /\ WF_vars(ResetLoop \/ Wake)
  /\ SF_vars(Callback)
  /\ \A t \in Threads : SF_vars(Expire(t)) /\ SF_vars(TakeReturn(t))

(***************************************************************************)
(* Properties                                                              *)
(***************************************************************************)
\* The variables have the types of their declarations; the count is within
\* the limit.
SemTypeOK ==
  /\ count \in [Sems -> 0..Limit]
  /\ lock \in Holders \cup {NONE}
  /\ taking \in [Threads -> Sems \cup {NONE}]
  /\ granted \in [Threads -> BOOLEAN]

TypeOK == SchedTypeOK /\ SemTypeOK

\* No thread waits for a semaphore that has a unit to give.
WaitersOnlyAtZero == \A s \in Sems : waitq[s] # <<>> => count[s] = 0

\* A thread that waits is on the wait queue of its semaphore, or its wake-up
\* is under way, or a timeout will bring it back: it cannot be forgotten.
NotStranded ==
  \A t \in Threads :
    taking[t] # NONE /\ ~ready[t] =>
      \/ pended_on[t] = taking[t]
      \/ lock # NONE /\ lock.woken = t
      \/ linked[t] \/ firing = t

\* A pending thread waits in k_sem_take() for the semaphore it is pended on.
PendedIsTaking ==
  \A t \in Threads : pended_on[t] # NONE => taking[t] = pended_on[t]

\* The semaphore's invariant: wait queues and threads agree, the most urgent
\* thread is first, the count is within its limit and zero while a thread
\* waits, and no give, reset or timeout forgets a thread.
IInv ==
  /\ QueueInv
  /\ SemTypeOK
  /\ WaitersOnlyAtZero
  /\ PendedIsTaking
  /\ NotStranded

\* k_sem_take() returns 0 to exactly the threads that k_sem_give() chose
\* (kernel.h: 0 is "Semaphore taken", -EAGAIN a timeout or a reset): no unit
\* is lost, and none is made up, when a give, a reset and a timeout meet.
ResultIsTrue ==
  [][\A t \in Threads :
       taking[t] # NONE /\ taking'[t] = NONE =>
         (swap_retval[t] = "0" <=> granted[t])]_vars

\* A k_sem_take() with a timeout returns.
TimedTakeReturns ==
  \A t \in Threads : taking[t] # NONE /\ linked[t] ~> taking[t] = NONE
=============================================================================
