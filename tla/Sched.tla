------------------------------- MODULE Sched -------------------------------
(***************************************************************************)
(* The scheduler (kernel/sched.c) of one CPU: the run queue and the cached *)
(* choice of the next thread, and everything that starts, pends, suspends, *)
(* wakes, reorders and ends threads, called by threads and by interrupts.  *)
(* CONFIG_SCHED_DUMB and CONFIG_WAITQ_DUMB, no meta-IRQ threads.           *)
(*                                                                         *)
(* k is what sched_spinlock protects, a record that the functions of       *)
(* sched.c, which have the same names here, map to its next value.  Each   *)
(* section of the lock is a step; k_wakeup() and k_thread_suspend() have   *)
(* several, with interrupts and more urgent threads in between.  The calls *)
(* of an interrupt are not interrupted themselves.                         *)
(***************************************************************************)
EXTENDS Integers, Sequences, Lists

CONSTANTS
  Threads,
  Main,       \* the thread that runs at first
  idle,       \* the idle thread
  wait_q,     \* the wait queue of some kernel object
  BasePrio,   \* the priorities threads are created with; below 0: cooperative
  Prios,      \* those that k_thread_priority_set() is called with
  MaxLock,    \* bound on the depth of k_sched_lock()
  Callers,    \* the threads that call k_wakeup(), k_thread_suspend() of a thread
              \* with a timeout, and k_sched_lock()
  JoinTimed,  \* whether calls of k_thread_join() have a timeout
  NONE

ASSUME SchedAssumption ==
  /\ Main \in Threads /\ Callers \subseteq Threads
  /\ idle \notin Threads /\ wait_q \notin Threads /\ NONE \notin Threads \cup {wait_q}
  /\ NONE \notin [at : {"suspend", "abort_timeout", "mark", "ready"}, on : Threads]
  /\ BasePrio \in [Threads -> Int] /\ Prios \subseteq Int
  /\ MaxLock \in Nat /\ JoinTimed \subseteq BOOLEAN

VARIABLES
  k,
  in_isr,
  firing,    \* the thread whose timeout was dequeued, callback pending
  op,        \* what a thread has left to do of its call, or NONE
  adrift,    \* history: threads on which an aborted thread has left a call undone
  overdue    \* history: k_thread_abort() or a priority changed under
             \* k_sched_lock() has left the current thread running

vars == <<k, in_isr, firing, op, adrift, overdue>>

\* A thread that has not been created is like one that has ended.
Init ==
  /\ k = [current   |-> Main,
          cache     |-> Main,
          runq      |-> <<Main>>,
          state     |-> [t \in Threads |-> IF t = Main THEN {"QUEUED"} ELSE {"DEAD"}],
          prio      |-> BasePrio,
          locked    |-> [t \in Threads |-> 0],
          pended_on |-> [t \in Threads |-> NONE],
          waitq     |-> [q \in Threads \cup {wait_q} |-> <<>>],  \* t: t's join_queue
          linked    |-> [t \in Threads |-> FALSE]]
  /\ in_isr = FALSE
  /\ firing = NONE
  /\ op = [t \in Threads |-> NONE]
  /\ adrift = {}
  /\ overdue = FALSE

(***************************************************************************)
(* The run queue and the cache                                             *)
(***************************************************************************)
z_is_thread_prevented_from_running(s, t) ==
  t # idle /\ s.state[t] \cap {"PENDING", "PRESTART", "DEAD", "SUSPENDED"} # {}

z_is_thread_ready(s, t) == ~z_is_thread_prevented_from_running(s, t) /\ ~s.linked[t]

is_preempt(s, t) == t = idle \/ (s.prio[t] >= 0 /\ s.locked[t] = 0)

next_up(s) == IF s.runq = <<>> THEN idle ELSE Head(s.runq)

\* Faulty variant: it takes a request to preempt a thread that is ready.
ShouldPreemptAsked(s, preempt_ok) ==
  preempt_ok \/ z_is_thread_prevented_from_running(s, s.current)

should_preempt(s, preempt_ok) ==
  \/ preempt_ok
  \/ z_is_thread_prevented_from_running(s, s.current)
  \/ is_preempt(s, s.current)

update_cache(s, preempt_ok) ==
  [s EXCEPT !.cache = IF should_preempt(s, preempt_ok) THEN next_up(s) ELSE s.current]

queue_thread(s, t) ==
  [s EXCEPT !.state[t] = @ \cup {"QUEUED"}, !.runq = Inserted(@, s.prio, t)]

dequeue_thread(s, t) ==
  IF "QUEUED" \notin s.state[t] THEN s
  ELSE [s EXCEPT !.state[t] = @ \ {"QUEUED"}, !.runq = RemoveItem(@, t)]

Clear(s, t, flags) == [s EXCEPT !.state[t] = @ \ flags]

z_abort_thread_timeout(s, t) == [s EXCEPT !.linked[t] = FALSE]

\* Faulty variant: a thread that is queued is queued again.
ReadyThreadTwice(s, t) ==
  IF z_is_thread_ready(s, t) THEN update_cache(queue_thread(s, t), FALSE) ELSE s

ready_thread(s, t) ==
  IF "QUEUED" \notin s.state[t] /\ z_is_thread_ready(s, t)
  THEN update_cache(queue_thread(s, t), FALSE) ELSE s

add_to_waitq_locked(s, q) ==
  LET t == s.current IN
  [update_cache(dequeue_thread(s, t), TRUE)
     EXCEPT !.state[t] = @ \cup {"PENDING"},
            !.pended_on[t] = q,
            !.waitq[q] = Inserted(@, s.prio, t)]

unpend_thread_no_timeout(s, t) ==
  IF s.pended_on[t] = NONE THEN s
  ELSE [s EXCEPT !.waitq[s.pended_on[t]] = RemoveItem(@, t),
                 !.pended_on[t] = NONE,
                 !.state[t] = @ \ {"PENDING"}]

\* z_sched_wake() for the thread t, and one turn of unpend_all().
Woken(s, t) ==
  ready_thread(z_abort_thread_timeout(unpend_thread_no_timeout(s, t), t), t)

unpend_all(s, q) ==
  LET w == s.waitq[q]
      after[n \in 0..Len(w)] == IF n = 0 THEN s ELSE Woken(after[n - 1], w[n])
  IN  after[Len(w)]

\* Faulty variant: the cache is not updated.
EndThreadCached(s, t) ==
  LET dead == [dequeue_thread(s, t) EXCEPT !.state[t] = @ \cup {"DEAD"}]
  IN  unpend_all(z_abort_thread_timeout(unpend_thread_no_timeout(dead, t), t), t)

end_thread(s, t) ==
  LET dead == [dequeue_thread(s, t) EXCEPT !.state[t] = @ \cup {"DEAD"}]
      gone == z_abort_thread_timeout(unpend_thread_no_timeout(dead, t), t)
  IN  update_cache(unpend_all(gone, t), TRUE)

(***************************************************************************)
(* Calls                                                                   *)
(***************************************************************************)
current == k.current

\* The current thread, not in the middle of another call.
InThread == ~in_isr /\ current # idle /\ op[current] = NONE
Anywhere == in_isr \/ InThread

\* Threads that have ended are not suspended or woken.
Live(t) == "DEAD" \notin k.state[t]

\* The state becomes s, and a context switch follows: z_reschedule(), z_swap().
\* In an interrupt the switch is left to its end.
Rescheduled(s) ==
  /\ k' = IF in_isr THEN s ELSE [s EXCEPT !.current = s.cache]
  /\ overdue' = (overdue /\ k'.cache # k'.current)

\* The state becomes s, and whoever called goes on.
GoesOn(s, late) ==
  /\ k' = s
  /\ overdue' = ((overdue \/ late) /\ s.cache # s.current)

z_sched_start(s, t) ==
  IF "PRESTART" \in s.state[t] THEN ready_thread(Clear(s, t, {"PRESTART"}), t) ELSE s

\* k_thread_create(), with K_NO_WAIT, K_FOREVER or a delay.
Create(t, delay) ==
  LET new == [k EXCEPT !.state[t] = {"PRESTART"}, !.prio[t] = BasePrio[t], !.locked[t] = 0]
  IN
  /\ InThread
  /\ "DEAD" \in k.state[t]
  /\ CASE delay = "no_wait" -> Rescheduled(z_sched_start(new, t))
       [] delay = "forever" -> GoesOn(new, FALSE)
       [] delay = "timed"   -> GoesOn([new EXCEPT !.linked[t] = TRUE], FALSE)
  /\ UNCHANGED <<in_isr, firing, op, adrift>>

\* k_thread_start()
Start(t) ==
  /\ Anywhere
  /\ "PRESTART" \in k.state[t]
  /\ Rescheduled(z_sched_start(k, t))
  /\ UNCHANGED <<in_isr, firing, op, adrift>>

\* The current thread pends on a queue: z_pend_curr(), k_thread_join().
PendCurr(q, timed) ==
  /\ InThread
  /\ Rescheduled([add_to_waitq_locked(k, q) EXCEPT !.linked[current] = timed])
  /\ UNCHANGED <<in_isr, firing, op, adrift>>

Join(t, timed) ==
  /\ Live(t)
  /\ t # current /\ k.pended_on[t] # current
  /\ PendCurr(t, timed)

\* z_sched_wake(), and the z_reschedule() of its callers.
Wake ==
  /\ Anywhere
  /\ k.waitq[wait_q] # <<>>
  /\ Rescheduled(Woken(k, Head(k.waitq[wait_q])))
  /\ UNCHANGED <<in_isr, firing, op, adrift>>

\* k_sleep(); with K_FOREVER it is k_thread_suspend().
Sleep ==
  LET t == current IN
  /\ InThread
  /\ Rescheduled([update_cache(dequeue_thread(k, t), TRUE)
                    EXCEPT !.linked[t] = TRUE, !.state[t] = @ \cup {"SUSPENDED"}])
  /\ UNCHANGED <<in_isr, firing, op, adrift>>

\* k_thread_suspend(): the section of the lock.  A timeout that is under way
\* all the same will undo it.
Suspended(t) ==
  LET s == update_cache([dequeue_thread(k, t) EXCEPT !.state[t] = @ \cup {"SUSPENDED"}],
                        t = current)
  IN
  IF t = current THEN Rescheduled(s) ELSE GoesOn(s, FALSE)

\* A thread aborts the timeout first; without one this is no step.
SuspendStart(t) ==
  /\ InThread /\ current \in Callers
  /\ k.linked[t]
  /\ GoesOn(z_abort_thread_timeout(k, t), FALSE)
  /\ op' = [op EXCEPT ![current] = [at |-> "suspend", on |-> t]]
  /\ UNCHANGED <<in_isr, firing, adrift>>

Suspend(t) ==
  /\ InThread /\ ~k.linked[t] /\ Live(t)
  /\ Suspended(t)
  /\ UNCHANGED <<in_isr, firing, op, adrift>>

\* The current thread is in the middle of a call, at the given place.
At(place) == ~in_isr /\ current # idle /\ op[current] # NONE /\ op[current].at = place
Done == op' = [op EXCEPT ![current] = NONE]

SuspendEnd ==
  /\ At("suspend")
  /\ Suspended(op[current].on)
  /\ Done
  /\ UNCHANGED <<in_isr, firing, adrift>>

IsrSuspend(t) ==
  LET s == z_abort_thread_timeout(k, t) IN
  /\ in_isr /\ Live(t)
  /\ GoesOn(update_cache([dequeue_thread(s, t) EXCEPT !.state[t] = @ \cup {"SUSPENDED"}],
                         t = current), FALSE)
  /\ UNCHANGED <<in_isr, firing, op, adrift>>

\* k_thread_resume()
Resume(t) ==
  /\ Anywhere
  /\ "SUSPENDED" \in k.state[t]
  /\ Rescheduled(ready_thread(Clear(k, t, {"SUSPENDED"}), t))
  /\ UNCHANGED <<in_isr, firing, op, adrift>>

\* k_wakeup(): the thread is not pending ...
WakeupStart(t) ==
  /\ InThread /\ current \in Callers
  /\ "PENDING" \notin k.state[t] /\ Live(t)
  /\ op' = [op EXCEPT ![current] = [at |-> "abort_timeout", on |-> t]]
  /\ UNCHANGED <<k, in_isr, firing, adrift, overdue>>

Wakeable(t) == k.linked[t] \/ k.state[t] = {"SUSPENDED"}

\* ... its timeout is aborted, if it has one ...
WakeupAbort ==
  LET t == op[current].on IN
  /\ At("abort_timeout")
  /\ GoesOn(z_abort_thread_timeout(k, t), FALSE)
  /\ op' = [op EXCEPT ![current] =
              IF Wakeable(t) THEN [at |-> "mark", on |-> t] ELSE NONE]
  /\ UNCHANGED <<in_isr, firing, adrift>>

\* ... its state is changed, without the lock ...
WakeupMark ==
  LET t == op[current].on IN
  /\ At("mark")
  /\ GoesOn(Clear(k, t, {"SUSPENDED"}), FALSE)
  /\ op' = [op EXCEPT ![current].at = "ready"]
  /\ UNCHANGED <<in_isr, firing, adrift>>

\* ... and it is readied.
WakeupEnd ==
  /\ At("ready")
  /\ Rescheduled(ready_thread(k, op[current].on))
  /\ Done
  /\ UNCHANGED <<in_isr, firing, adrift>>

IsrWakeup(t) ==
  /\ in_isr
  /\ "PENDING" \notin k.state[t] /\ Wakeable(t)
  /\ GoesOn(ready_thread(Clear(z_abort_thread_timeout(k, t), t, {"SUSPENDED"}), t), FALSE)
  /\ UNCHANGED <<in_isr, firing, op, adrift>>

\* k_thread_abort(), also by a thread that returns from its entry function;
\* without a context switch unless the thread has ended itself.
Abort(t) ==
  LET s == end_thread(k, t) IN
  /\ Anywhere
  /\ Live(t)
  /\ IF t = current THEN Rescheduled(s) ELSE GoesOn(s, TRUE)
  /\ op' = [op EXCEPT ![t] = NONE]
  /\ adrift' = (adrift \ {t}) \cup {u \in Threads : op[t] # NONE /\ op[t].on = u}
  /\ UNCHANGED <<in_isr, firing>>

z_set_prio(s, t, prio) ==
  IF z_is_thread_ready(s, t)
  THEN update_cache(queue_thread([dequeue_thread(s, t) EXCEPT !.prio[t] = prio], t), TRUE)
  ELSE [s EXCEPT !.prio[t] = prio]

\* k_thread_priority_set().  Of a thread that is ready and not queued
\* z_set_prio() removes a node that is not linked, by writing through null
\* pointers: the machine stops, or no queue is changed.
PrioritySet(t, prio) ==
  LET s == z_set_prio(k, t, prio) IN
  /\ InThread
  /\ Live(t)
  /\ IF z_is_thread_ready(k, t) /\ k.locked[current] = 0
     THEN Rescheduled(s) ELSE GoesOn(s, TRUE)
  /\ UNCHANGED <<in_isr, firing, op, adrift>>

SchedLock ==
  /\ InThread /\ current \in Callers
  /\ k.locked[current] < MaxLock
  /\ GoesOn([k EXCEPT !.locked[current] = @ + 1], FALSE)
  /\ UNCHANGED <<in_isr, firing, op, adrift>>

SchedUnlock ==
  /\ InThread
  /\ k.locked[current] > 0
  /\ Rescheduled(update_cache([k EXCEPT !.locked[current] = @ - 1], FALSE))
  /\ UNCHANGED <<in_isr, firing, op, adrift>>

\* move_thread_to_end_of_prio_q() for the current thread.
MovedToEnd(s) == update_cache(queue_thread(dequeue_thread(s, s.current), s.current), TRUE)

\* k_yield()
Yield ==
  /\ InThread
  /\ Rescheduled(MovedToEnd(k))
  /\ UNCHANGED <<in_isr, firing, op, adrift>>

(***************************************************************************)
(* Interrupts                                                              *)
(***************************************************************************)
IsrEnter ==
  /\ ~in_isr
  /\ in_isr' = TRUE
  /\ UNCHANGED <<k, firing, op, adrift, overdue>>

\* z_get_next_switch_handle()
IsrExit ==
  /\ in_isr /\ firing = NONE
  /\ in_isr' = FALSE
  /\ k' = [k EXCEPT !.current = k.cache]
  /\ overdue' = FALSE
  /\ UNCHANGED <<firing, op, adrift>>

\* z_time_slice(): the slice of the current thread has expired.
TimeSlice ==
  /\ in_isr /\ firing = NONE
  /\ current # idle /\ is_preempt(k, current)
  /\ ~z_is_thread_prevented_from_running(k, current)
  /\ GoesOn(MovedToEnd(k), FALSE)
  /\ UNCHANGED <<in_isr, firing, op, adrift>>

\* sys_clock_announce() dequeues the timeout of a thread ...
Expire(t) ==
  /\ in_isr /\ firing = NONE
  /\ k.linked[t]
  /\ GoesOn(z_abort_thread_timeout(k, t), FALSE)
  /\ firing' = t
  /\ UNCHANGED <<in_isr, op, adrift>>

z_sched_wake_thread(s, t) ==
  IF "DEAD" \in s.state[t] THEN s
  ELSE ready_thread(Clear(unpend_thread_no_timeout(s, t), t, {"PRESTART", "SUSPENDED"}), t)

\* ... and calls z_thread_timeout().
Callback ==
  /\ firing # NONE
  /\ GoesOn(z_sched_wake_thread(k, firing), FALSE)
  /\ firing' = NONE
  /\ UNCHANGED <<in_isr, op, adrift>>

Next ==
  \/ \E t \in Threads :
       \/ \E delay \in {"no_wait", "forever", "timed"} : Create(t, delay)
       \/ \E timed \in JoinTimed : Join(t, timed)
       \/ \E prio \in Prios : PrioritySet(t, prio)
       \/ Start(t) \/ SuspendStart(t) \/ Suspend(t) \/ IsrSuspend(t) \/ Resume(t)
       \/ WakeupStart(t) \/ IsrWakeup(t) \/ Abort(t) \/ Expire(t)
  \/ \E timed \in BOOLEAN : PendCurr(wait_q, timed)
  \/ Wake \/ Sleep \/ SuspendEnd \/ WakeupAbort \/ WakeupMark \/ WakeupEnd
  \/ SchedLock \/ SchedUnlock \/ Yield
  \/ IsrEnter \/ IsrExit \/ TimeSlice \/ Callback

Spec == Init /\ [][Next]_vars

(***************************************************************************)
(* Properties                                                              *)
(***************************************************************************)
\* The one queue node of a thread is on at most one queue: a thread is QUEUED
\* exactly when it is on the run queue, once, and PENDING exactly when it is
\* on the queue it is pended on.  Only a thread that is ready is queued, and
\* every thread that is ready is, but for those whose timeout is dequeued and
\* its callback still to come, those a k_wakeup() or k_thread_suspend() is busy
\* with, and those whose k_wakeup() or k_thread_suspend() was cut short when
\* its caller was aborted (adrift: nothing under way will queue them).  The run
\* queue is sorted.  A thread that has ended is nowhere, and nobody waits for
\* it.
SchedInv ==
  /\ \A t \in Threads :
       /\ IsIn(k.runq, t) <=> "QUEUED" \in k.state[t]
       /\ Once(k.runq, t)
       /\ "PENDING" \in k.state[t] <=> k.pended_on[t] # NONE
       /\ \A q \in Threads \cup {wait_q} :
            /\ IsIn(k.waitq[q], t) <=> k.pended_on[t] = q
            /\ Once(k.waitq[q], t)
       /\ "QUEUED" \in k.state[t] => z_is_thread_ready(k, t)
       /\ z_is_thread_ready(k, t) =>
            \/ "QUEUED" \in k.state[t]
            \/ firing = t \/ t \in adrift
            \/ \E c \in Threads :
                 op[c] # NONE /\ op[c].at \in {"suspend", "mark", "ready"} /\ op[c].on = t
       /\ "DEAD" \in k.state[t] => k.waitq[t] = <<>> /\ ~k.linked[t] /\ k.pended_on[t] = NONE
  /\ Sorted(k.runq, k.prio)

\* The cached choice is never stale: it is the first thread of the run queue,
\* or the current thread while that is ready and must not be preempted.
CacheFresh ==
  \/ k.cache = next_up(k)
  \/ /\ k.cache = current
     /\ current # idle /\ z_is_thread_ready(k, current) /\ ~is_preempt(k, current)

\* Outside interrupts the current thread is ready, and a preemptible one is
\* the first of the run queue, hence of the most urgent (scheduling/index.rst:
\* "selects the highest priority ready thread"); but k_thread_abort(), and
\* k_thread_priority_set() under k_sched_lock(), put the switch off.
MostUrgentRuns ==
  ~in_isr =>
    /\ current # idle => z_is_thread_ready(k, current)
    /\ is_preempt(k, current) /\ ~overdue => current = next_up(k)
=============================================================================
