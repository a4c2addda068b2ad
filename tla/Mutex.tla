------------------------------- MODULE Mutex -------------------------------
(***************************************************************************)
(* Mutexes with priority inheritance (kernel/mutex.c) and condition        *)
(* variables (kernel/condvar.c) over wait queues, on one CPU: interrupts   *)
(* are masked while a spinlock is held, so that each locked section is one *)
(* step, and threads do not run between the dequeue of a timeout and its   *)
(* callback.                                                               *)
(***************************************************************************)
EXTENDS WaitQ

CONSTANTS
  Mutexes,
  CondVars,
  Ceiling,    \* CONFIG_PRIORITY_CEILING
  MaxLocks    \* bound on the times a thread locks the mutex it owns

ASSUME MutexAssumption ==
  /\ WaitQs = Mutexes \cup CondVars /\ Mutexes \cap CondVars = {}
  /\ Ceiling \in Int /\ MaxLocks \in Nat \ {0}
  /\ SMP = FALSE

VARIABLES
  owner, lock_count, owner_orig_prio,
  call,       \* where the thread is in a blocking call
  held        \* held[t][m]: how often t has locked m, as t itself counts

mutexVars == <<owner, lock_count, owner_orig_prio>>
vars == <<schedVars, mutexVars, call, held>>

\* In no call; in k_mutex_lock(); in k_condvar_wait(), waiting for the signal
\* (cv) or for the mutex.
Out == [op |-> "none"]
Calls == {Out} \cup [op : {"lock", "relock"}, m : Mutexes]
               \cup [op : {"wait"}, m : Mutexes, cv : CondVars]

Init ==
  /\ SchedInit
  /\ owner = [m \in Mutexes |-> NONE]
  /\ lock_count = [m \in Mutexes |-> 0]
  /\ owner_orig_prio = [m \in Mutexes |-> 0]
  /\ call = [t \in Threads |-> Out]
  /\ held = [t \in Threads |-> [m \in Mutexes |-> 0]]

Running(t) == ready[t] /\ firing = NONE

(***************************************************************************)
(* Priority inheritance                                                    *)
(***************************************************************************)
\* new_prio_for_inheritance(), with z_get_new_prio_with_ceiling()
new_prio_for_inheritance(target, limit) ==
  LET new == IF target < limit THEN target ELSE limit
  IN  IF new >= Ceiling THEN new ELSE Ceiling

\* Faulty variant: a more urgent waiter does not raise the owner.
BoostedNot(t, m) == prio

\* The priorities when t begins to wait for m.
Boosted(t, m) ==
  LET new == new_prio_for_inheritance(prio[t], prio[owner[m]])
  IN  IF new < prio[owner[m]] THEN [prio EXCEPT ![owner[m]] = new] ELSE prio

\* The priorities when a thread has given up waiting for m: that of the first
\* thread that still waits counts.
Lowered(m) ==
  LET q == waitq[m]
      new == IF q # <<>> THEN new_prio_for_inheritance(prio[Head(q)], owner_orig_prio[m])
             ELSE owner_orig_prio[m]
  IN  IF owner[m] = NONE THEN prio ELSE [prio EXCEPT ![owner[m]] = new]

(***************************************************************************)
(* k_mutex_lock()                                                          *)
(***************************************************************************)
\* Faulty variant: a recursive lock saves the raised priority.
OrigPrioAgain(t, m) == prio[t]

\* The priority to go back to: saved when the mutex is locked, kept when its
\* owner locks it again.
OrigPrio(t, m) == IF lock_count[m] = 0 THEN prio[t] ELSE owner_orig_prio[m]

Free(t, m) == lock_count[m] = 0 \/ owner[m] = t

\* The mutex is free or t's own: take it.
LockTake(t, m) ==
  /\ owner_orig_prio' = [owner_orig_prio EXCEPT ![m] = OrigPrio(t, m)]
  /\ lock_count' = [lock_count EXCEPT ![m] = @ + 1]
  /\ owner' = [owner EXCEPT ![m] = t]
  /\ held' = [held EXCEPT ![t][m] = @ + 1]

\* It is another's: raise the owner and wait.
LockPend(t, m, timed) ==
  /\ prio' = Boosted(t, m)
  /\ Pend(t, m, timed, prio)

Lock(t, m, timed) ==
  /\ Running(t)
  /\ call[t] = Out
  /\ \/ /\ Free(t, m)
        /\ held[t][m] < MaxLocks
        /\ LockTake(t, m)
        /\ UNCHANGED <<schedVars, call>>
     \/ /\ ~Free(t, m)
        /\ LockPend(t, m, timed)
        /\ call' = [call EXCEPT ![t] = [op |-> "lock", m |-> m]]
        /\ UNCHANGED <<firing, mutexVars, held>>

\* The thread that waited for m runs again: it owns m, or it gave up and
\* lowers the owner's priority.  k_condvar_wait() does not look at which.
LockReturn(t) ==
  LET m == call[t].m IN
  /\ Running(t)
  /\ call[t].op \in {"lock", "relock"}
  /\ call' = [call EXCEPT ![t] = Out]
  /\ \/ /\ swap_retval[t] = "0"
        /\ held' = [held EXCEPT ![t][m] = @ + 1]
        /\ UNCHANGED prio
     \/ /\ swap_retval[t] # "0"
        /\ prio' = Lowered(m)
        /\ held' = IF call[t].op = "lock" THEN held ELSE [held EXCEPT ![t][m] = @ + 1]
  /\ UNCHANGED <<waitq, pended_on, linked, firing, ready, swap_retval, mutexVars>>

(***************************************************************************)
(* k_mutex_unlock()                                                        *)
(***************************************************************************)
Restored(t, m) == [prio EXCEPT ![t] = owner_orig_prio[m]]

\* The last unlock with nobody waiting ...
Release(t, m) ==
  /\ waitq[m] = <<>>
  /\ owner' = [owner EXCEPT ![m] = NONE]
  /\ lock_count' = [lock_count EXCEPT ![m] = 0]
  /\ UNCHANGED owner_orig_prio

\* Faulty variant: the old owner stays recorded.
HandOverUnrecorded(t, m) ==
  /\ waitq[m] # <<>>
  /\ UNCHANGED <<owner, owner_orig_prio, lock_count>>

\* ... and the one that hands the mutex to the first waiter, whose lock count
\* is already 1.
HandOver(t, m) ==
  LET new == Head(waitq[m]) IN
  /\ waitq[m] # <<>>
  /\ owner' = [owner EXCEPT ![m] = new]
  /\ owner_orig_prio' = [owner_orig_prio EXCEPT ![m] = Restored(t, m)[new]]
  /\ UNCHANGED lock_count

Unlock(t, m) ==
  /\ Running(t)
  /\ call[t] = Out
  /\ owner[m] = t
  /\ held' = [held EXCEPT ![t][m] = @ - 1]
  /\ \/ /\ lock_count[m] > 1
        /\ lock_count' = [lock_count EXCEPT ![m] = @ - 1]
        /\ UNCHANGED <<schedVars, owner, owner_orig_prio>>
     \/ /\ lock_count[m] = 1
        /\ Release(t, m)
        /\ prio' = Restored(t, m)
        /\ UNCHANGED <<waitq, pended_on, linked, firing, ready, swap_retval>>
     \/ /\ lock_count[m] = 1
        /\ HandOver(t, m)
        /\ prio' = Restored(t, m)
        /\ UnpendFirst(m)
        /\ swap_retval' = [swap_retval EXCEPT ![Head(waitq[m])] = "0"]
        /\ ready' = Readied(Head(waitq[m]), pended_on', linked')
        /\ UNCHANGED firing
  /\ UNCHANGED call

(***************************************************************************)
(* Condition variables                                                     *)
(***************************************************************************)
\* k_condvar_wait() up to the wait: k_mutex_unlock() as above and, with the
\* condition variable's lock held throughout, pend.
CondWait(t, cv, m, timed) ==
  LET new == Head(waitq[m]) IN
  /\ Running(t)
  /\ call[t] = Out
  /\ owner[m] = t
  /\ held' = [held EXCEPT ![t][m] = @ - 1]
  /\ call' = [call EXCEPT ![t] = [op |-> "wait", m |-> m, cv |-> cv]]
  /\ \/ /\ lock_count[m] > 1
        /\ lock_count' = [lock_count EXCEPT ![m] = @ - 1]
        /\ Pend(t, cv, timed, prio)
        /\ UNCHANGED <<prio, owner, owner_orig_prio>>
     \/ /\ lock_count[m] = 1
        /\ Release(t, m)
        /\ prio' = Restored(t, m)
        /\ Pend(t, cv, timed, Restored(t, m))
     \/ /\ lock_count[m] = 1
        /\ HandOver(t, m)
        /\ prio' = Restored(t, m)
        /\ waitq' = [waitq EXCEPT ![m] = Tail(@), ![cv] = Inserted(@, Restored(t, m), t)]
        /\ pended_on' = [pended_on EXCEPT ![new] = NONE, ![t] = cv]
        /\ linked' = [Unlinked(new) EXCEPT ![t] = timed]
        /\ ready' = [Readied(new, pended_on', linked') EXCEPT ![t] = FALSE]
        /\ swap_retval' = [swap_retval EXCEPT ![new] = "0", ![t] = "EAGAIN"]
  /\ UNCHANGED firing

\* The rest of k_condvar_wait(): k_mutex_lock(mutex, K_FOREVER).
CondReturn(t) ==
  LET m == call[t].m IN
  /\ Running(t)
  /\ call[t].op = "wait"
  /\ \/ /\ Free(t, m)
        /\ LockTake(t, m)
        /\ call' = [call EXCEPT ![t] = Out]
        /\ UNCHANGED schedVars
     \/ /\ ~Free(t, m)
        /\ LockPend(t, m, FALSE)
        /\ call' = [call EXCEPT ![t] = [op |-> "relock", m |-> m]]
        /\ UNCHANGED <<firing, mutexVars, held>>

Signal(cv) ==
  /\ firing = NONE
  /\ waitq[cv] # <<>>
  /\ UnpendFirst(cv)
  /\ swap_retval' = [swap_retval EXCEPT ![Head(waitq[cv])] = "0"]
  /\ ready' = Readied(Head(waitq[cv]), pended_on', linked')
  /\ UNCHANGED <<prio, firing, mutexVars, call, held>>

\* The timeouts after z_unpend_first_thread() for all the threads of cv.
Untimed(cv) == [t \in Threads |-> linked[t] /\ pended_on[t] # cv]

Broadcast(cv) ==
  /\ firing = NONE
  /\ waitq[cv] # <<>>
  /\ waitq' = [waitq EXCEPT ![cv] = <<>>]
  /\ pended_on' = [t \in Threads |-> IF pended_on[t] = cv THEN NONE ELSE pended_on[t]]
  /\ linked' = Untimed(cv)
  /\ swap_retval' = [t \in Threads |-> IF pended_on[t] = cv THEN "0" ELSE swap_retval[t]]
  /\ ready' = [t \in Threads |-> ready[t] \/ (pended_on[t] = cv /\ ~linked'[t])]
  /\ UNCHANGED <<prio, firing, mutexVars, call, held>>

Expire(t) == TimeoutExpires(t) /\ UNCHANGED <<mutexVars, call, held>>
Callback == ThreadTimeout /\ UNCHANGED <<mutexVars, call, held>>

Next ==
  \/ \E t \in Threads, m \in Mutexes :
       \/ \E timed \in BOOLEAN : Lock(t, m, timed)
       \/ Unlock(t, m)
       \/ \E timed \in BOOLEAN, cv \in CondVars : CondWait(t, cv, m, timed)
  \/ \E t \in Threads : LockReturn(t) \/ CondReturn(t) \/ Expire(t)
  \/ \E cv \in CondVars : Signal(cv) \/ Broadcast(cv)
  \/ Callback

Spec == Init /\ [][Next]_vars

\* Timeouts expire, and a ready thread runs between interrupts.
FairSpec ==
  /\ Spec
  /\ SF_vars(Callback)
  /\ \A t \in Threads : SF_vars(Expire(t)) /\ SF_vars(LockReturn(t))

(***************************************************************************)
(* Properties                                                              *)
(***************************************************************************)
\* The variables have the types of their declarations.
TypeOK ==
  /\ SchedTypeOK
  /\ owner \in [Mutexes -> Threads \cup {NONE}]
  /\ lock_count \in [Mutexes -> 0..MaxLocks]
  /\ owner_orig_prio \in [Mutexes -> Int]
  /\ call \in [Threads -> Calls]
  /\ held \in [Threads -> [Mutexes -> 0..MaxLocks]]

\* The thread is being handed the mutex it waited for.
Receives(t, m) == owner[m] = t /\ call[t].op \in {"lock", "relock"} /\ call[t].m = m

\* The kernel and the threads agree on who holds a mutex and how often it is
\* locked: nobody holds it but its owner, whatever timeouts, hand-overs and
\* condition variables do.
HeldByOwner ==
  \A t \in Threads, m \in Mutexes :
    held[t][m] = IF owner[m] = t /\ ~Receives(t, m) THEN lock_count[m] ELSE 0

\* A thread back from waiting for a mutex is told that it has the mutex
\* exactly when it is the owner: a hand-over that meets a timeout is not
\* lost, nor taken for a timeout.
HandOverKnown ==
  \A t \in Threads :
    call[t].op \in {"lock", "relock"} /\ ready[t] =>
      (swap_retval[t] = "0" <=> owner[call[t].m] = t)

\* Where a thread is in its call says what it waits for: only a thread that
\* waits has a timeout, never one that takes the mutex back after a wait for
\* a condition; a mutex that is waited for is another's, and one being handed
\* over is locked once.
ThreadPlaced(t) ==
  /\ ready[t] <=> pended_on[t] = NONE
  /\ linked[t] \/ firing = t => pended_on[t] # NONE /\ call[t].op # "relock"
  /\ firing = t => ~linked[t]
  /\ pended_on[t] \in CondVars => call[t].op = "wait"
  /\ pended_on[t] \in Mutexes =>
       /\ call[t].op \in {"lock", "relock"} /\ call[t].m = pended_on[t]
       /\ swap_retval[t] = "EAGAIN"
       /\ owner[pended_on[t]] \notin {t, NONE}
  /\ call[t].op = "relock" /\ ready[t] => swap_retval[t] = "0"
  /\ call[t].op = "wait" /\ owner[call[t].m] = t => lock_count[call[t].m] < MaxLocks

CallsPlaced ==
  /\ \A t \in Threads : ThreadPlaced(t)
  /\ \A m \in Mutexes : owner[m] = NONE <=> lock_count[m] = 0
  /\ \A t \in Threads, m \in Mutexes : Receives(t, m) => ready[t] /\ lock_count[m] = 1

\* The mutex's invariant: kernel and threads agree on the owner, the count
\* and the outcome of every wait.
MutexInv == TypeOK /\ PendedIsQueued /\ CallsPlaced /\ HeldByOwner /\ HandOverKnown

\* With one mutex, its owner is as urgent as every thread that waits for it.
PriorityInherited ==
  \A t \in Threads, m \in Mutexes :
    pended_on[t] = m => prio[owner[m]] <= new_prio_for_inheritance(prio[t], prio[t])

\* With one mutex, and without a ceiling, a thread whose priority is not the
\* one it was created with is more urgent, and owns a mutex that some thread
\* as urgent has waited for; all others have their own priority back
\* (mutexes.rst: "the unlocking thread resets its priority to the level it had
\* before locking that mutex").
PriorityJustified ==
  \A t \in Threads :
    prio[t] # BasePrio[t] =>
      /\ prio[t] < BasePrio[t]
      /\ \E m \in Mutexes, u \in Threads :
           /\ owner[m] = t /\ u # t
           /\ call[u].op \in {"lock", "relock"} /\ call[u].m = m
           /\ prio[u] <= prio[t]

\* A k_mutex_lock() with a timeout returns.
TimedLockReturns ==
  \A t \in Threads : call[t].op = "lock" /\ linked[t] ~> call[t] = Out
=============================================================================
