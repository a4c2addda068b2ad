------------------------------- MODULE SysSem -------------------------------
(***************************************************************************)
(* Semaphores for user threads (lib/os/sem.c, with CONFIG_USERSPACE) on    *)
(* top of futexes (kernel/futex.c): the count is changed by atomic         *)
(* operations in user mode, and the kernel is called to wait and to wake.  *)
(* Every atomic access and every section of the futex's lock is a step.    *)
(***************************************************************************)
EXTENDS Blocking

CONSTANTS
  sem_limit,
  givers      \* the threads that give; the others take

ASSUME SysSemAssumption == {sem_limit, givers} \subseteq Nat \ {0}

SYS_SEM_CONTENDED == -1

KSysSem == [kind |-> "sys_sem", val |-> 0,
            waking |-> 0,  \* the givers that are about to call k_futex_wake()
            units |-> 0]   \* history: the units given and not taken

bounded_dec(v) == IF v < 0 THEN v ELSE v - 1
bounded_inc(v) == IF v >= sem_limit THEN v ELSE IF v < 0 THEN 1 ELSE v + 1

\* Thread t is in one of the calls, about to do op.
At(t, op) == ~InTimerInterrupt /\ ready[t] /\ call[t] # NONE /\ call[t].op = op

GoesTo(t, op) == call' = [call EXCEPT ![t].op = op]

\* sys_sem_give() by another thread: the count, and then the threads that wait.
SysGive ==
  /\ ~InTimerInterrupt /\ obj.waking < givers
  /\ obj' = [obj EXCEPT !.val = bounded_inc(@),
                        !.units = IF obj.val < sem_limit THEN @ + 1 ELSE @,
                        !.waking = IF obj.val < 0 THEN @ + 1 ELSE @]
  /\ UNCHANGED <<schedVars, call, swap_data>>

\* k_futex_wake() for all threads.
FutexWake ==
  LET S == {u \in Threads : IsIn(Waiters, u)} IN
  /\ ~InTimerInterrupt /\ obj.waking > 0
  /\ obj' = [obj EXCEPT !.waking = @ - 1]
  /\ Serve(S, "0", [u \in S |-> NONE])
  /\ UNCHANGED call

\* sys_sem_take(): one turn of its loop begins.
TakeStep(t, timed) ==
  /\ \/ /\ obj.val > 0
        /\ obj' = [obj EXCEPT !.val = @ - 1, !.units = @ - 1]
        /\ call' = [call EXCEPT ![t] = NONE]
     \/ /\ obj.val <= 0
        /\ obj' = [obj EXCEPT !.val = bounded_dec(@)]
        /\ call' = [call EXCEPT ![t] = [op |-> "test", arg |-> timed]]
  /\ UNCHANGED <<schedVars, swap_data>>

SysTake(t, timed) == Running(t) /\ TakeStep(t, timed)
SysTakeAgain(t) == At(t, "dec") /\ TakeStep(t, call[t].arg)

\* k_futex_wait(): the value is compared before the lock is taken ...
FutexTest(t) ==
  /\ At(t, "test")
  /\ GoesTo(t, IF obj.val = SYS_SEM_CONTENDED THEN "pend" ELSE "dec")
  /\ UNCHANGED <<schedVars, swap_data, obj>>

\* ... and the thread pends whatever it has become, perhaps too late.
FutexPend(t) ==
  /\ At(t, "pend")
  /\ Pend(t, wait_q, call[t].arg, prio)
  /\ GoesTo(t, "wait")
  /\ UNCHANGED <<prio, firing, swap_data, obj>>

\* Woken, it tries again; after a timeout sys_sem_take() fails.
FutexReturn(t) ==
  /\ At(t, "wait")
  /\ \/ /\ swap_retval[t] = "0"
        /\ GoesTo(t, "dec")
        /\ swap_retval' = [swap_retval EXCEPT ![t] = "EAGAIN"]
        /\ UNCHANGED <<prio, waitq, pended_on, linked, firing, ready, swap_data>>
     \/ swap_retval[t] # "0" /\ Resumes(t)
  /\ UNCHANGED obj

SysSemNext ==
  /\ obj.kind = "sys_sem"
  /\ \/ SysGive \/ FutexWake
     \/ \E t \in Threads :
          \/ FutexTest(t) \/ FutexPend(t) \/ FutexReturn(t) \/ SysTakeAgain(t)
          \/ \E timed \in BOOLEAN : SysTake(t, timed)

(***************************************************************************)
(* Properties                                                              *)
(***************************************************************************)
\* Each unit given is there until it is taken, also when gives meet the
\* negative count that takers leave behind; the limit is kept.  Nothing is
\* claimed about the threads that wait: a unit given between the comparison
\* and the wait of k_futex_wait() wakes nobody (README, section 5).
SysSemInv ==
  obj.kind = "sys_sem" =>
    /\ obj.val \in SYS_SEM_CONTENDED..sem_limit
    /\ obj.units = IF obj.val > 0 THEN obj.val ELSE 0
=============================================================================
