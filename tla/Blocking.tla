------------------------------ MODULE Blocking ------------------------------
(***************************************************************************)
(* What the kernel objects with a wait queue share: a call that cannot be  *)
(* served pends, with or without a timeout; whoever can serve it later     *)
(* hands over the result in the thread's swap_data and readies it.         *)
(*                                                                         *)
(* One CPU: an operation holds the spinlock of its object, so that         *)
(* interrupts are masked, and is one step.  The interrupts that may nest   *)
(* in the timer interrupt use the object too.  A behaviour uses one        *)
(* object, obj; the fields depend on obj.kind.                             *)
(***************************************************************************)
EXTENDS WaitQ

CONSTANTS
  wait_q,    \* the wait queue of the object
  Items      \* what goes through it: messages, data, blocks, each different

ASSUME BlockingAssumption == WaitQs = {wait_q} /\ NONE \notin Items

VARIABLES
  obj,
  call,      \* the call a thread waits in, with its argument, or NONE
  swap_data  \* thread->base.swap_data, set by the one that serves the call

objVars == <<obj, call, swap_data>>
vars == <<schedVars, objVars>>

Waiters == waitq[wait_q]
First == Head(Waiters)

\* Threads run when no interrupt is served, not even a timer's.
InTimerInterrupt == firing # NONE \/ (obj.kind = "timer" /\ obj.isr # "none")
Running(t) == ~InTimerInterrupt /\ ready[t] /\ call[t] = NONE

\* z_pend_curr() in the call op of thread t.
Wait(t, op, arg, timed) ==
  /\ Running(t)
  /\ Pend(t, wait_q, timed, prio)
  /\ call' = [call EXCEPT ![t] = [op |-> op, arg |-> arg]]
  /\ swap_data' = [swap_data EXCEPT ![t] = NONE]
  /\ UNCHANGED <<prio, firing>>

\* The threads of the set S are unpended, their timeouts aborted, their
\* return value and data set, and readied.
Serve(S, retval, data) ==
  /\ waitq' = [waitq EXCEPT ![wait_q] = Without(@, S)]
  /\ pended_on' = [t \in Threads |-> IF t \in S THEN NONE ELSE pended_on[t]]
  /\ linked' = [t \in Threads |-> linked[t] /\ t \notin S]
  /\ swap_retval' = [t \in Threads |-> IF t \in S THEN retval ELSE swap_retval[t]]
  /\ swap_data' = [t \in Threads |-> IF t \in S THEN data[t] ELSE swap_data[t]]
  /\ ready' = [t \in Threads |-> ready[t] \/ t \in S]
  /\ UNCHANGED <<prio, firing>>

\* The first thread that waits is handed x.
ServeFirst(x) == Waiters # <<>> /\ Serve({First}, "0", [t \in {First} |-> x])

\* The thread runs again, and its call returns; what z_swap() returned is
\* not looked at any more.
Resumes(t) ==
  /\ ~InTimerInterrupt
  /\ call[t] # NONE
  /\ ready[t]
  /\ call' = [call EXCEPT ![t] = NONE]
  /\ swap_data' = [swap_data EXCEPT ![t] = NONE]
  /\ swap_retval' = [swap_retval EXCEPT ![t] = "EAGAIN"]
  /\ UNCHANGED <<prio, waitq, pended_on, linked, firing, ready>>

Return(t) == obj.kind \notin {"timer", "heap", "sys_sem"} /\ Resumes(t) /\ UNCHANGED obj

\* The timer interrupt, for the timeout of a thread.
Expire(t) == TimeoutExpires(t) /\ UNCHANGED objVars
Callback == ThreadTimeout /\ UNCHANGED objVars

\* The items that are neither with the object nor with a waiting thread.
Outside(contents) ==
  Items \ ({contents[k] : k \in DOMAIN contents}
           \cup {swap_data[t] : t \in Threads}
           \cup {call[t].arg : t \in {u \in Threads : call[u] # NONE}})

BlockingInit ==
  /\ SchedInit
  /\ call = [t \in Threads |-> NONE]
  /\ swap_data = [t \in Threads |-> NONE]

(***************************************************************************)
(* Properties                                                              *)
(***************************************************************************)
\* A thread that waits can be found by the one that will serve it, or a
\* timeout will bring it back.
NotStranded ==
  \A t \in Threads :
    call[t] # NONE /\ ~ready[t] => pended_on[t] = wait_q
=============================================================================
