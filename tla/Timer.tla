------------------------------- MODULE Timer -------------------------------
(***************************************************************************)
(* Timers (kernel/timer.c): a timeout, perhaps periodic, whose handler     *)
(* counts the expirations and wakes the thread that waits for one.         *)
(* k_timer_start() and k_timer_stop() take no lock of the timer: each call *)
(* they make is a step, and the steps of several calls may fall anywhere   *)
(* between those of the others and of the timer interrupt, between the     *)
(* dequeue of the timeout and its handler too.                             *)
(***************************************************************************)
EXTENDS Blocking

CONSTANTS
  MaxStatus,    \* bound on the expirations that are not read
  TimerCallers  \* the threads and interrupts that start and stop the timer

KTimer == [kind |-> "timer", linked |-> FALSE, periodic |-> FALSE, status |-> 0,
          isr |-> "none",     \* where the timer interrupt is
          calls |-> [c \in TimerCallers |-> "none"],  \* what each caller does next
          unpended |-> NONE]  \* a thread off the wait queue that is yet to be readied

\* Caller c goes on from one of its steps to the next, and the timer becomes o.
TimerCall(c, from, to, o) ==
  /\ obj.calls[c] = from
  /\ obj' = [o EXCEPT !.calls[c] = to]
  /\ UNCHANGED <<schedVars, call, swap_data>>

\* k_timer_start(): abort the timeout, set the period and then the status ...
TimerStart(c) == TimerCall(c, "none", "period", [obj EXCEPT !.linked = FALSE])
TimerSetPeriod(c, periodic) ==
  TimerCall(c, "period", "status", [obj EXCEPT !.periodic = periodic])
TimerSetStatus(c) == TimerCall(c, "status", "add", [obj EXCEPT !.status = 0])

\* ... and add the timeout.  z_add_timeout() asserts that it is not linked,
\* which another start in between makes false (README, section 5): a
\* behaviour does not go past the assertion.
TimerAdd(c) == ~obj.linked /\ TimerCall(c, "add", "none", [obj EXCEPT !.linked = TRUE])

\* k_timer_stop(): a timer that is not running is left alone, also when its
\* timeout has been dequeued and the handler is going to start it again.
TimerStop(c) == obj.linked /\ TimerCall(c, "none", "unpend", [obj EXCEPT !.linked = FALSE])

\* The first thread that waits is off the wait queue, to be readied in the
\* next step.  ready is set already; TimerSyncReturn waits for that step.
Unpended(retval, o) ==
  /\ obj' = [o EXCEPT !.unpended = First]
  /\ Serve({First}, retval, [t \in {First} |-> NONE])
  /\ UNCHANGED call

\* z_unpend1_no_timeout() ...
TimerUnpend(c) ==
  \/ Waiters = <<>> /\ TimerCall(c, "unpend", "none", obj)
  \/ /\ Waiters # <<>> /\ obj.calls[c] = "unpend"
     /\ Unpended(swap_retval[First], [obj EXCEPT !.calls[c] = "ready"])

\* ... and z_ready_thread().
TimerReady(c) == TimerCall(c, "ready", "none", [obj EXCEPT !.unpended = NONE])

\* sys_clock_announce() dequeues the timeout.
TimerExpires ==
  /\ obj.linked /\ obj.isr = "none" /\ firing = NONE
  /\ obj.status < MaxStatus
  /\ obj' = [obj EXCEPT !.linked = FALSE, !.isr = "dequeued"]
  /\ UNCHANGED <<schedVars, call, swap_data>>

\* z_timer_expiration_handler() up to the expiry function ...
TimerHandler ==
  /\ obj.isr = "dequeued"
  /\ obj' = IF obj.linked THEN [obj EXCEPT !.isr = "none"]
            ELSE [obj EXCEPT !.isr = "expiry", !.status = @ + 1, !.linked = obj.periodic]
  /\ UNCHANGED <<schedVars, call, swap_data>>

\* ... from there on ...
TimerWake ==
  /\ obj.isr = "expiry"
  /\ \/ /\ Waiters = <<>>
        /\ obj' = [obj EXCEPT !.isr = "none"]
        /\ UNCHANGED <<schedVars, call, swap_data>>
     \/ Waiters # <<>> /\ Unpended("0", [obj EXCEPT !.isr = "ready"])

\* ... and, without the lock, z_ready_thread().
TimerWakeReady ==
  /\ obj.isr = "ready"
  /\ obj' = [obj EXCEPT !.isr = "none", !.unpended = NONE]
  /\ UNCHANGED <<schedVars, call, swap_data>>

\* k_timer_status_get()
TimerStatusGet ==
  /\ obj' = [obj EXCEPT !.status = 0]
  /\ UNCHANGED <<schedVars, call, swap_data>>

\* k_timer_status_sync(); it is for one user of the timer.
TimerStatusSync(t) ==
  /\ \A u \in Threads : call[u] = NONE
  /\ \/ /\ obj.status = 0 /\ obj.linked
        /\ Wait(t, "sync", NONE, FALSE)
        /\ UNCHANGED obj
     \/ /\ obj.status > 0 /\ Running(t)
        /\ TimerStatusGet

\* The thread goes on and reads the status.
TimerSyncReturn(t) ==
  /\ obj.kind = "timer" /\ obj.unpended # t
  /\ Resumes(t)
  /\ obj' = [obj EXCEPT !.status = 0]

TimerInterrupt == obj.kind = "timer" /\ (TimerHandler \/ TimerWake \/ TimerWakeReady)
CallerReadies(c) == obj.kind = "timer" /\ TimerReady(c)

TimerNext ==
  /\ obj.kind = "timer"
  /\ \/ \E c \in TimerCallers :
          \/ TimerStart(c) \/ TimerSetStatus(c) \/ TimerAdd(c)
          \/ \E periodic \in BOOLEAN : TimerSetPeriod(c, periodic)
          \/ TimerStop(c) \/ TimerUnpend(c) \/ CallerReadies(c)
     \/ TimerExpires \/ TimerInterrupt \/ TimerStatusGet
     \/ \E t \in Threads : TimerStatusSync(t) \/ TimerSyncReturn(t)

(***************************************************************************)
(* Properties                                                              *)
(***************************************************************************)
\* A thread that waits for a timer will be woken: the timer runs, its
\* interrupt is under way, or a caller has aborted the timeout and is yet to
\* add it again or to unpend the thread; and one that is off the wait queue
\* has somebody to ready it.  No order of starts and stops forgets it.
TimerInv ==
  obj.kind = "timer" =>
    /\ Waiters # <<>> =>
         \/ obj.linked \/ obj.isr # "none"
         \/ \E c \in TimerCallers : obj.calls[c] \in {"period", "status", "add", "unpend"}
    /\ obj.unpended # NONE =>
         obj.isr = "ready" \/ \E c \in TimerCallers : obj.calls[c] = "ready"
=============================================================================
