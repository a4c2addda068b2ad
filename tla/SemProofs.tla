----------------------------- MODULE SemProofs -----------------------------
(***************************************************************************)
(* Theorems about Sem, for every number of threads and semaphores, with    *)
(* any priorities, on one CPU and, but for ResultsTrue, on several.        *)
(***************************************************************************)
EXTENDS Sem, ListFacts, TLAPS

(***************************************************************************)
(* Threads and wait queues stay consistent                                 *)
(***************************************************************************)
\* The invariant, one wait queue at a time.
QueueOf(q) ==
  /\ waitq[q] \in Seq(Threads)
  /\ \A t \in Threads : (IsIn(waitq[q], t) <=> pended_on[t] = q) /\ Once(waitq[q], t)
  /\ Sorted(waitq[q], prio)

\* The invariant, one wait queue at a time: what a step may use.
LEMMA QueueInvParts ==
  QueueInv <=> /\ SchedTypeOK
               /\ \A q \in WaitQs : QueueOf(q)
               /\ \A t \in Threads : pended_on[t] # NONE => ~ready[t]
<1>1. SchedTypeOK => \A q \in WaitQs : waitq[q] \in Seq(Threads)
  BY DEF SchedTypeOK
<1>2. WaitqSorted <=> \A q \in WaitQs : Sorted(waitq[q], prio)
  BY DEF WaitqSorted, Sorted
<1> QED
  BY <1>1, <1>2 DEF QueueInv, QueueOf, PendedIsQueued

\* The same for the state after the step: what it has to show.
LEMMA QueueInvNext ==
  ASSUME SchedTypeOK', \A q \in WaitQs : QueueOf(q)',
         \A t \in Threads : pended_on'[t] # NONE => ~ready'[t]
  PROVE  QueueInv'
<1>1. WaitqSorted'
  BY DEF WaitqSorted, QueueOf, Sorted
<1>2. PendedIsQueued'
  BY DEF PendedIsQueued, QueueOf
<1> QED
  BY <1>1, <1>2 DEF QueueInv

\* pend_locked(): a thread that runs is on no wait queue.
LEMMA PendKeeps ==
  ASSUME QueueInv, NEW t \in Threads, NEW q \in WaitQs, NEW timed \in BOOLEAN,
         ready[t], Pend(t, q, timed, prio), UNCHANGED <<prio, firing>>
  PROVE  QueueInv'
<1>1. SchedTypeOK /\ \A x \in WaitQs : QueueOf(x)
  BY QueueInvParts
<1>2. pended_on[t] = NONE /\ \A u \in Threads : pended_on[u] # NONE => ~ready[u]
  BY QueueInvParts
<1>3. NONE \notin WaitQs
  BY WaitQAssumption
<1> DEFINE r == Inserted(waitq[q], prio, t)
<1>4. waitq[q] \in Seq(Threads) /\ prio \in [Threads -> Int] /\ Sorted(waitq[q], prio)
  BY <1>1 DEF QueueOf, SchedTypeOK
<1>5. ~IsIn(waitq[q], t)
  BY <1>1, <1>2, <1>3 DEF QueueOf
<1>6. /\ r \in Seq(Threads) /\ Sorted(r, prio)
      /\ \A y : IsIn(r, y) <=> IsIn(waitq[q], y) \/ y = t
      /\ \A y : Once(waitq[q], y) /\ (y # t \/ ~IsIn(waitq[q], t)) => Once(r, y)
  BY <1>4, InsertedFacts, InsertedSorted
<1>7. /\ waitq' = [waitq EXCEPT ![q] = r] /\ pended_on' = [pended_on EXCEPT ![t] = q]
      /\ ready' = [ready EXCEPT ![t] = FALSE] /\ prio' = prio
  BY DEF Pend
<1> HIDE DEF r
<1>8. SchedTypeOK'
  BY <1>1, <1>6 DEF SchedTypeOK, Pend, r
<1>9. ASSUME NEW x \in WaitQs PROVE QueueOf(x)'
  <2>1. CASE x = q
    <3>1. waitq'[q] = r
      BY <1>1, <1>7 DEF SchedTypeOK
    <3>2. \A u \in Threads : pended_on'[u] = q <=> pended_on[u] = q \/ u = t
      BY <1>1, <1>7 DEF SchedTypeOK
    <3> QED
      BY <1>1, <1>5, <1>6, <1>7, <2>1, <3>1, <3>2 DEF QueueOf
  <2>2. CASE x # q
    <3>1. waitq'[x] = waitq[x]
      BY <1>1, <1>7, <2>2 DEF SchedTypeOK
    <3>2. \A u \in Threads : pended_on'[u] = x <=> pended_on[u] = x
      BY <1>1, <1>2, <1>3, <1>7, <2>2 DEF SchedTypeOK
    <3> QED
      BY <1>1, <1>7, <3>1, <3>2 DEF QueueOf
  <2> QED
    BY <2>1, <2>2
<1>10. \A u \in Threads : pended_on'[u] # NONE => ~ready'[u]
  BY <1>1, <1>2, <1>7 DEF SchedTypeOK
<1> QED
  BY <1>8, <1>9, <1>10, QueueInvNext

\* Taking a pending thread t off its wait queue q, by whatever means.
LEMMA UnpendKeepsQueues ==
  ASSUME SchedTypeOK, \A x \in WaitQs : QueueOf(x),
         NEW q \in WaitQs, NEW t \in Threads, NEW r \in Seq(Threads),
         pended_on[t] = q, Sorted(r, prio),
         \A y : IsIn(r, y) <=> IsIn(waitq[q], y) /\ y # t,
         \A y : Once(waitq[q], y) => Once(r, y),
         waitq' = [waitq EXCEPT ![q] = r],
         pended_on' = [pended_on EXCEPT ![t] = NONE],
         UNCHANGED prio
  PROVE  \A x \in WaitQs : QueueOf(x)'
<1> SUFFICES ASSUME NEW x \in WaitQs PROVE QueueOf(x)'
  OBVIOUS
<1>1. NONE \notin WaitQs
  BY WaitQAssumption
<1>2. \A u \in Threads : pended_on'[u] = x <=> pended_on[u] = x /\ u # t
  BY <1>1 DEF SchedTypeOK
<1>3. CASE x = q
  <2>1. waitq'[q] = r
    BY DEF SchedTypeOK
  <2> QED
    BY <1>2, <1>3, <2>1 DEF QueueOf
<1>4. CASE x # q
  <2>1. waitq'[x] = waitq[x]
    BY <1>4 DEF SchedTypeOK
  <2> QED
    BY <1>2, <1>4, <2>1 DEF QueueOf
<1> QED
  BY <1>3, <1>4

\* z_unpend_first_thread()
LEMMA UnpendFirstKeeps ==
  ASSUME QueueInv, NEW q \in WaitQs, waitq[q] # <<>>, UnpendFirst(q),
         UNCHANGED <<prio, firing, ready, swap_retval>>
  PROVE  /\ QueueInv'
         /\ Head(waitq[q]) \in Threads /\ pended_on[Head(waitq[q])] = q
<1>1. SchedTypeOK /\ \A x \in WaitQs : QueueOf(x)
  BY QueueInvParts
<1>2. \A u \in Threads : pended_on[u] # NONE => ~ready[u]
  BY QueueInvParts
<1> DEFINE t == Head(waitq[q])
           r == Tail(waitq[q])
<1>3. waitq[q] \in Seq(Threads) /\ prio \in [Threads -> Int] /\ Sorted(waitq[q], prio)
  BY <1>1 DEF QueueOf, SchedTypeOK
<1>4. /\ t \in Threads /\ r \in Seq(Threads) /\ IsIn(waitq[q], t)
      /\ \A y : Once(waitq[q], y) => Once(r, y)
      /\ \A y : Once(waitq[q], y) => (IsIn(r, y) <=> IsIn(waitq[q], y) /\ y # t)
  BY <1>3, TailFacts
<1>5. Sorted(r, prio)
  BY <1>3, TailSorted
<1>6. pended_on[t] = q
  BY <1>1, <1>4 DEF QueueOf
<1>7. \A y : IsIn(r, y) <=> IsIn(waitq[q], y) /\ y # t
  <2>1. \A y \in Threads : Once(waitq[q], y)
    BY <1>1 DEF QueueOf
  <2>2. \A y : IsIn(r, y) \/ IsIn(waitq[q], y) => y \in Threads
    BY <1>3, <1>4 DEF IsIn
  <2> QED
    BY <1>4, <2>1, <2>2
<1>8. /\ waitq' = [waitq EXCEPT ![q] = r] /\ pended_on' = [pended_on EXCEPT ![t] = NONE]
      /\ linked' = [linked EXCEPT ![t] = FALSE]
  BY DEF UnpendFirst, Unlinked
<1> HIDE DEF t, r
<1>9. \A x \in WaitQs : QueueOf(x)'
  BY <1>1, <1>4, <1>5, <1>6, <1>7, <1>8, UnpendKeepsQueues
<1>10. SchedTypeOK'
  BY <1>1, <1>4, <1>8 DEF SchedTypeOK
<1>11. \A u \in Threads : pended_on'[u] # NONE => ~ready'[u]
  BY <1>1, <1>2, <1>4, <1>8 DEF SchedTypeOK
<1> QED
  BY <1>4, <1>6, <1>9, <1>10, <1>11, QueueInvNext DEF t

\* z_thread_timeout()
LEMMA ThreadTimeoutKeeps ==
  ASSUME QueueInv, ThreadTimeout
  PROVE  QueueInv'
<1>1. SchedTypeOK /\ \A x \in WaitQs : QueueOf(x)
  BY QueueInvParts
<1>2. \A u \in Threads : pended_on[u] # NONE => ~ready[u]
  BY QueueInvParts
<1>3. NONE \notin WaitQs
  BY WaitQAssumption
<1> DEFINE t == firing
           q == pended_on[t]
           r == RemoveItem(waitq[q], t)
<1>4. t \in Threads /\ q \in WaitQs \cup {NONE}
  BY <1>1 DEF ThreadTimeout, SchedTypeOK
<1>5. /\ waitq' = IF q = NONE THEN waitq ELSE [waitq EXCEPT ![q] = r]
      /\ pended_on' = [pended_on EXCEPT ![t] = NONE]
      /\ ready' = [ready EXCEPT ![t] = ready[t] \/ (pended_on'[t] = NONE /\ ~linked[t])]
      /\ firing' = NONE /\ prio' = prio /\ linked' = linked /\ swap_retval' = swap_retval
  BY <1>1 DEF ThreadTimeout, Readied, SchedTypeOK
<1> HIDE DEF t
<1>6. (\A x \in WaitQs : QueueOf(x)') /\ waitq' \in [WaitQs -> Seq(Threads)]
  <2>1. CASE q = NONE
    <3>1. waitq' = waitq /\ pended_on' = pended_on
      BY <1>1, <1>4, <1>5, <2>1 DEF SchedTypeOK
    <3> QED
      BY <1>1, <1>5, <3>1 DEF QueueOf, SchedTypeOK
  <2>2. CASE q # NONE
    <3>1. q \in WaitQs
      BY <1>4, <2>2
    <3>2. /\ waitq[q] \in Seq(Threads) /\ prio \in [Threads -> Int] /\ Sorted(waitq[q], prio)
          /\ IsIn(waitq[q], t) /\ Once(waitq[q], t)
      BY <1>1, <1>4, <3>1 DEF QueueOf, SchedTypeOK
    <3>3. /\ r \in Seq(Threads) /\ Sorted(r, prio)
          /\ \A y : IsIn(r, y) <=> IsIn(waitq[q], y) /\ y # t
          /\ \A y : Once(waitq[q], y) => Once(r, y)
      <4> HIDE DEF q
      <4>1. Sorted(r, prio)
        BY <3>2, RemoveSorted
      <4>2. /\ r \in Seq(Threads) /\ ~IsIn(r, t)
            /\ \A y : y # t => (IsIn(r, y) <=> IsIn(waitq[q], y))
            /\ \A y : Once(waitq[q], y) => Once(r, y)
        BY <3>2, RemoveFacts
      <4> QED
        BY <4>1, <4>2
    <3>4. waitq' = [waitq EXCEPT ![q] = r] /\ pended_on[t] = q
      BY <1>5, <2>2
    <3> HIDE DEF q, r
    <3>5. \A x \in WaitQs : QueueOf(x)'
      BY <1>1, <1>4, <1>5, <3>1, <3>3, <3>4, UnpendKeepsQueues
    <3> QED
      BY <1>1, <3>3, <3>4, <3>5 DEF SchedTypeOK
  <2> QED
    BY <2>1, <2>2
<1> HIDE DEF q, r
<1>7. SchedTypeOK'
  BY <1>1, <1>4, <1>5, <1>6 DEF SchedTypeOK
<1>8. \A u \in Threads : pended_on'[u] # NONE => ~ready'[u]
  BY <1>1, <1>2, <1>4, <1>5 DEF SchedTypeOK
<1> QED
  BY <1>6, <1>7, <1>8, QueueInvNext

\* Nothing waits and no lock is held at the start.
LEMMA InitIInv == Init => IInv
<1> SUFFICES ASSUME Init PROVE IInv
  OBVIOUS
<1> USE SemAssumption, WaitQAssumption
<1>1. SchedTypeOK
  BY DEF Init, SchedInit, SchedTypeOK
<1>2. PendedIsQueued
  BY DEF Init, SchedInit, PendedIsQueued, IsIn, Once
<1>3. WaitqSorted
  BY DEF Init, SchedInit, WaitqSorted
<1>4. SemTypeOK
  BY DEF Init, SemTypeOK
<1>5. WaitersOnlyAtZero /\ PendedIsTaking /\ NotStranded
  BY DEF Init, SchedInit, WaitersOnlyAtZero, PendedIsTaking, NotStranded
<1> QED
  BY <1>1, <1>2, <1>3, <1>4, <1>5 DEF IInv, QueueInv

\* A step that leaves the scheduler alone leaves the wait queues in order.
LEMMA QueueInvSame ==
  ASSUME QueueInv, UNCHANGED schedVars
  PROVE  QueueInv'
<1>1. SchedTypeOK'
  BY DEF QueueInv, SchedTypeOK, schedVars
<1>2. PendedIsQueued'
  BY DEF QueueInv, PendedIsQueued, schedVars
<1>3. WaitqSorted'
  BY DEF QueueInv, WaitqSorted, schedVars
<1> QED
  BY <1>1, <1>2, <1>3 DEF QueueInv

\* ready_thread() on a thread that is not pended, or has no effect.
LEMMA ReadiedKeeps ==
  ASSUME QueueInv, NEW t \in Threads, NEW v \in {"0", "EAGAIN"},
         ready' = Readied(t, pended_on, linked),
         swap_retval' = [swap_retval EXCEPT ![t] = v],
         UNCHANGED <<prio, waitq, pended_on, linked, firing>>
  PROVE  QueueInv'
<1>1. SchedTypeOK'
  BY DEF QueueInv, SchedTypeOK, Readied
<1>2. PendedIsQueued'
  BY DEF QueueInv, PendedIsQueued, Readied, SchedTypeOK
<1>3. WaitqSorted'
  BY DEF QueueInv, WaitqSorted
<1> QED
  BY <1>1, <1>2, <1>3 DEF QueueInv

(***************************************************************************)
(* One lemma per action                                                    *)
(***************************************************************************)
\* k_sem_take() with a unit to take: the count goes down, nobody waits.
LEMMA TakeNowIInv ==
  ASSUME IInv, NEW s \in Sems, TakeNow(s)
  PROVE  IInv'
<1>1. UNCHANGED schedVars
  BY DEF TakeNow
<1>2. QueueInv'
  BY <1>1, QueueInvSame DEF IInv
<1>3. SemTypeOK'
  BY SemAssumption DEF IInv, SemTypeOK, TakeNow
<1>4. WaitersOnlyAtZero'
  BY <1>1 DEF IInv, WaitersOnlyAtZero, SemTypeOK, TakeNow, schedVars
<1>5. PendedIsTaking' /\ NotStranded'
  BY <1>1 DEF IInv, PendedIsTaking, NotStranded, TakeNow, schedVars
<1> QED
  BY <1>2, <1>3, <1>4, <1>5 DEF IInv

\* k_sem_take() without one: the thread joins the queue of an empty semaphore.
LEMMA TakePendIInv ==
  ASSUME IInv, NEW t \in Threads, NEW s \in Sems, NEW timed \in BOOLEAN,
         TakePend(t, s, timed)
  PROVE  IInv'
<1>0. s \in WaitQs /\ s # NONE
  BY SemAssumption, WaitQAssumption
<1>1. /\ ready[t] /\ Pend(t, s, timed, prio) /\ UNCHANGED <<prio, firing>>
      /\ count[s] = 0 /\ UNCHANGED <<count, lock>>
      /\ taking' = [taking EXCEPT ![t] = s]
      /\ granted' = [granted EXCEPT ![t] = FALSE]
  BY DEF TakePend, Running
<1>2. QueueInv'
  BY <1>0, <1>1, PendKeeps DEF IInv
<1>3. SemTypeOK'
  BY <1>1 DEF IInv, SemTypeOK
<1>4. /\ waitq' = [waitq EXCEPT ![s] = Inserted(waitq[s], prio, t)]
      /\ pended_on' = [pended_on EXCEPT ![t] = s]
      /\ linked' = [linked EXCEPT ![t] = timed]
      /\ ready' = [ready EXCEPT ![t] = FALSE]
  BY <1>1 DEF Pend
<1>5. WaitersOnlyAtZero'
  BY <1>0, <1>1, <1>4 DEF IInv, WaitersOnlyAtZero, QueueInv, SchedTypeOK
<1>6. PendedIsTaking'
  BY <1>0, <1>1, <1>4 DEF IInv, PendedIsTaking, QueueInv, SchedTypeOK, SemTypeOK
<1>7. NotStranded'
  BY <1>0, <1>1, <1>4 DEF IInv, NotStranded, QueueInv, SchedTypeOK, SemTypeOK
<1> QED
  BY <1>2, <1>3, <1>5, <1>6, <1>7 DEF IInv

\* The return of a k_sem_take() that waited.
LEMMA TakeReturnIInv ==
  ASSUME IInv, NEW t \in Threads, TakeReturn(t)
  PROVE  IInv'
<1>1. UNCHANGED schedVars
  BY DEF TakeReturn
<1>2. QueueInv'
  BY <1>1, QueueInvSame DEF IInv
<1>3. SemTypeOK'
  BY DEF IInv, SemTypeOK, TakeReturn
<1>4. WaitersOnlyAtZero'
  BY <1>1 DEF IInv, WaitersOnlyAtZero, TakeReturn, schedVars
<1>5. PendedIsTaking'
  BY <1>1 DEF IInv, PendedIsTaking, QueueInv, PendedIsQueued, SemTypeOK, TakeReturn, schedVars
<1>6. NotStranded'
  BY <1>1 DEF IInv, NotStranded, SemTypeOK, TakeReturn, schedVars
<1> QED
  BY <1>2, <1>3, <1>4, <1>5, <1>6 DEF IInv

\* The choice of a thread by a give or a reset.
LEMMA ChosenIInv ==
  ASSUME IInv, NEW s \in Sems, waitq[s] # <<>>, UnpendFirst(s),
         NEW o \in {"give", "reset"}, lock = NONE \/ lock.woken = NONE,
         lock' = [op |-> o, sem |-> s, woken |-> Head(waitq[s])],
         UNCHANGED <<prio, firing, ready, swap_retval, count, taking>>,
         granted' \in [Threads -> BOOLEAN]
  PROVE  IInv'
<1> DEFINE t == Head(waitq[s])
<1>0. s \in WaitQs /\ s # NONE /\ NONE \notin Threads /\ NONE \notin Holders
  BY SemAssumption, WaitQAssumption
<1>1. QueueInv' /\ t \in Threads /\ pended_on[t] = s
  BY <1>0, UnpendFirstKeeps DEF IInv
<1>2. lock' \in Holders /\ lock' # NONE /\ lock'.woken = t
  BY <1>0, <1>1 DEF Holders
<1>3. SemTypeOK'
  BY <1>2 DEF IInv, SemTypeOK
<1>4. /\ waitq' = [waitq EXCEPT ![s] = Tail(waitq[s])]
      /\ pended_on' = [pended_on EXCEPT ![t] = NONE]
      /\ linked' = [linked EXCEPT ![t] = FALSE]
  BY DEF UnpendFirst, Unlinked
<1> HIDE DEF t
<1>5. WaitersOnlyAtZero'
  BY <1>0, <1>4 DEF IInv, WaitersOnlyAtZero, QueueInv, SchedTypeOK
<1>6. PendedIsTaking'
  BY <1>1, <1>4 DEF IInv, PendedIsTaking, QueueInv, SchedTypeOK
<1>7. ASSUME NEW u \in Threads, taking'[u] # NONE, ~ready'[u]
      PROVE  \/ pended_on'[u] = taking'[u]
             \/ lock' # NONE /\ lock'.woken = u
             \/ linked'[u] \/ firing' = u
  <2>1. CASE u = t
    BY <1>2, <2>1
  <2>2. CASE u # t
    <3>1. pended_on'[u] = pended_on[u] /\ linked'[u] = linked[u]
      BY <1>4, <2>2 DEF IInv, QueueInv, SchedTypeOK
    <3>2. \/ pended_on[u] = taking[u] \/ (lock # NONE /\ lock.woken = u)
          \/ linked[u] \/ firing = u
      BY <1>7 DEF IInv, NotStranded
    <3> QED
      BY <1>0, <3>1, <3>2
  <2> QED
    BY <2>1, <2>2
<1>8. NotStranded'
  BY <1>7 DEF NotStranded
<1> QED
  BY <1>1, <1>3, <1>5, <1>6, <1>8 DEF IInv

\* k_sem_give(): a unit is kept only when nobody waits for it.
LEMMA GiveIInv ==
  ASSUME IInv, NEW s \in Sems, Give(s)
  PROVE  IInv'
<1>0. lock = NONE /\ taking' = taking /\ s \in WaitQs
  BY SemAssumption DEF Give
<1>1. CASE waitq[s] = <<>>
  <2>1. UNCHANGED schedVars /\ lock' = lock /\ granted' = granted
    BY <1>1 DEF Give
  <2>2. count' = [count EXCEPT ![s] = Given(count[s])]
    BY <1>1 DEF Give
  <2>3. QueueInv'
    BY <2>1, QueueInvSame DEF IInv
  <2>4. Given(count[s]) \in 0..Limit
    BY SemAssumption DEF Given, IInv, SemTypeOK
  <2>5. SemTypeOK'
    BY <1>0, <2>1, <2>2, <2>4 DEF IInv, SemTypeOK
  <2>6. WaitersOnlyAtZero'
    BY <1>1, <2>1, <2>2 DEF IInv, WaitersOnlyAtZero, SemTypeOK, schedVars
  <2>7. PendedIsTaking' /\ NotStranded'
    BY <1>0, <2>1 DEF IInv, PendedIsTaking, NotStranded, schedVars
  <2> QED
    BY <2>3, <2>5, <2>6, <2>7 DEF IInv
<1>2. CASE waitq[s] # <<>>
  <2>1. /\ UnpendFirst(s)
        /\ lock' = [op |-> "give", sem |-> s, woken |-> Head(waitq[s])]
        /\ granted' = [granted EXCEPT ![Head(waitq[s])] = TRUE]
        /\ UNCHANGED <<prio, firing, ready, swap_retval, count>>
    BY <1>2 DEF Give
  <2>2. granted' \in [Threads -> BOOLEAN]
    BY <2>1 DEF IInv, SemTypeOK
  <2> QED
    BY <1>0, <1>2, <2>1, <2>2, ChosenIInv
<1> QED
  BY <1>1, <1>2

\* k_sem_reset() takes the spinlock.
LEMMA ResetIInv ==
  ASSUME IInv, NEW s \in Sems, Reset(s)
  PROVE  IInv'
<1>0. NONE \notin Threads /\ NONE \notin Holders
  BY SemAssumption, WaitQAssumption
<1>1. /\ UNCHANGED <<schedVars, count, taking, granted>> /\ lock = NONE
      /\ lock' = [op |-> "reset", sem |-> s, woken |-> NONE]
  BY DEF Reset
<1>2. QueueInv'
  BY <1>1, QueueInvSame DEF IInv
<1>3. SemTypeOK'
  BY <1>1 DEF IInv, SemTypeOK, Holders
<1>4. WaitersOnlyAtZero' /\ PendedIsTaking'
  BY <1>1 DEF IInv, WaitersOnlyAtZero, PendedIsTaking, schedVars
<1>5. NotStranded'
  BY <1>1 DEF IInv, NotStranded, schedVars
<1> QED
  BY <1>2, <1>3, <1>4, <1>5 DEF IInv

\* The loop of k_sem_reset(): one waiter, or the count once there is none.
LEMMA ResetLoopIInv ==
  ASSUME IInv, ResetLoop
  PROVE  IInv'
<1>0. /\ lock \in Holders /\ lock.sem \in Sems /\ lock.op = "reset" /\ lock.woken = NONE
      /\ UNCHANGED <<taking, granted>>
  BY DEF IInv, SemTypeOK, ResetLoop, Holders
<1>1. CASE waitq[lock.sem] # <<>>
  <2>1. UnpendFirst(lock.sem) /\ UNCHANGED <<prio, firing, ready, swap_retval, count>>
    BY <1>1 DEF ResetLoop
  <2>2. lock' = [op |-> "reset", sem |-> lock.sem, woken |-> Head(waitq[lock.sem])]
    BY <1>0, <1>1 DEF ResetLoop, Holders
  <2>3. granted' \in [Threads -> BOOLEAN]
    BY <1>0 DEF IInv, SemTypeOK
  <2> QED
    BY <1>0, <1>1, <2>1, <2>2, <2>3, ChosenIInv
<1>2. CASE waitq[lock.sem] = <<>>
  <2>1. /\ UNCHANGED schedVars /\ lock' = NONE
        /\ count' = [count EXCEPT ![lock.sem] = 0]
    BY <1>2 DEF ResetLoop
  <2>2. QueueInv'
    BY <2>1, QueueInvSame DEF IInv
  <2>3. SemTypeOK'
    BY <1>0, <2>1, SemAssumption DEF IInv, SemTypeOK
  <2>4. WaitersOnlyAtZero'
    BY <2>1 DEF IInv, WaitersOnlyAtZero, SemTypeOK, schedVars
  <2>5. PendedIsTaking'
    BY <1>0, <2>1 DEF IInv, PendedIsTaking, schedVars
  <2>6. NotStranded'
    BY <1>0, <2>1, WaitQAssumption DEF IInv, NotStranded, schedVars
  <2> QED
    BY <2>2, <2>3, <2>4, <2>5, <2>6 DEF IInv
<1> QED
  BY <1>1, <1>2

\* ready_thread() on the thread chosen: it runs, unless it is pended or
\* its timeout is linked, and then it is not stranded either.
LEMMA WakeIInv ==
  ASSUME IInv, Wake
  PROVE  IInv'
<1> DEFINE t == lock.woken
<1>0. NONE \notin Threads /\ NONE \notin Holders
  BY SemAssumption, WaitQAssumption
<1>1. lock \in Holders /\ t \in Threads /\ WokenValue(lock.op) \in {"0", "EAGAIN"}
  BY DEF IInv, SemTypeOK, Wake, Holders, WokenValue
<1>2. /\ swap_retval' = [swap_retval EXCEPT ![t] = WokenValue(lock.op)]
      /\ ready' = Readied(t, pended_on, linked)
      /\ UNCHANGED <<prio, waitq, pended_on, linked, firing, count, taking, granted>>
  BY DEF Wake
<1>3. QueueInv'
  BY <1>1, <1>2, ReadiedKeeps DEF IInv
<1>4. lock' = NONE \/ (lock' \in Holders /\ lock'.woken = NONE)
  BY <1>1 DEF Wake, Holders
<1>5. SemTypeOK'
  BY <1>2, <1>4 DEF IInv, SemTypeOK
<1>6. WaitersOnlyAtZero' /\ PendedIsTaking'
  BY <1>2 DEF IInv, WaitersOnlyAtZero, PendedIsTaking
<1>7. ASSUME NEW u \in Threads, taking[u] # NONE, ~ready'[u]
      PROVE  pended_on[u] = taking[u] \/ linked[u] \/ firing = u
  <2>1. CASE u = t
    <3>1. pended_on[t] # NONE \/ linked[t]
      BY <1>1, <1>2, <1>7, <2>1 DEF Readied, IInv, QueueInv, SchedTypeOK
    <3> QED
      BY <1>1, <2>1, <3>1 DEF IInv, PendedIsTaking
  <2>2. CASE u # t
    <3>1. ~ready[u]
      BY <1>1, <1>2, <1>7, <2>2 DEF Readied, IInv, QueueInv, SchedTypeOK
    <3> QED
      BY <1>7, <2>2, <3>1 DEF IInv, NotStranded
  <2> QED
    BY <2>1, <2>2
<1>8. NotStranded'
  BY <1>2, <1>7 DEF NotStranded
<1> QED
  BY <1>3, <1>5, <1>6, <1>8 DEF IInv

\* sys_clock_announce() unlinks the timeout of a thread.
LEMMA ExpireIInv ==
  ASSUME IInv, NEW t \in Threads, Expire(t)
  PROVE  IInv'
<1>1. /\ linked' = [linked EXCEPT ![t] = FALSE] /\ firing = NONE /\ firing' = t
      /\ UNCHANGED <<prio, waitq, pended_on, ready, swap_retval>> /\ UNCHANGED semVars
  BY DEF Expire, TimeoutExpires
<1>2. QueueInv'
  <2>1. SchedTypeOK'
    BY <1>1 DEF IInv, QueueInv, SchedTypeOK
  <2>2. PendedIsQueued' /\ WaitqSorted'
    BY <1>1 DEF IInv, QueueInv, PendedIsQueued, WaitqSorted
  <2> QED
    BY <2>1, <2>2 DEF QueueInv
<1>3. SemTypeOK' /\ WaitersOnlyAtZero' /\ PendedIsTaking'
  BY <1>1 DEF IInv, SemTypeOK, WaitersOnlyAtZero, PendedIsTaking, semVars
<1>4. NotStranded'
  BY <1>1, WaitQAssumption DEF IInv, NotStranded, QueueInv, SchedTypeOK, semVars
<1> QED
  BY <1>2, <1>3, <1>4 DEF IInv

\* z_thread_timeout(): the thread leaves whatever queue it is on by now.
LEMMA CallbackIInv ==
  ASSUME IInv, Callback
  PROVE  IInv'
<1> DEFINE t == firing
<1>1. ThreadTimeout /\ UNCHANGED semVars
  BY DEF Callback
<1>2. QueueInv'
  BY <1>1, ThreadTimeoutKeeps DEF IInv
<1>3. t \in Threads
  BY <1>1 DEF IInv, QueueInv, SchedTypeOK, ThreadTimeout
<1>4. /\ pended_on' = [pended_on EXCEPT ![t] = NONE]
      /\ ready' = Readied(t, pended_on', linked) /\ linked' = linked /\ firing' = NONE
  BY <1>1 DEF ThreadTimeout
<1>5. SemTypeOK'
  BY <1>1 DEF IInv, SemTypeOK, semVars
<1>6. WaitersOnlyAtZero'
  <2> SUFFICES ASSUME NEW s \in Sems, waitq'[s] # <<>> PROVE count[s] = 0
    BY <1>1 DEF WaitersOnlyAtZero, semVars
  <2>1. s \in WaitQs /\ pended_on[t] \in WaitQs \cup {NONE}
    BY <1>3, SemAssumption DEF IInv, QueueInv, SchedTypeOK
  <2>2. CASE pended_on[t] = s
    <3>1. IsIn(waitq[s], t) /\ waitq[s] \in Seq(Threads)
      BY <1>3, <2>1, <2>2 DEF IInv, QueueInv, PendedIsQueued, SchedTypeOK
    <3>2. waitq[s] # <<>>
      BY <3>1 DEF IsIn
    <3> QED
      BY <3>2 DEF IInv, WaitersOnlyAtZero
  <2>3. CASE pended_on[t] # s
    <3>1. waitq'[s] = waitq[s]
      BY <1>1, <2>1, <2>3 DEF ThreadTimeout, IInv, QueueInv, SchedTypeOK
    <3> QED
      BY <3>1 DEF IInv, WaitersOnlyAtZero
  <2> QED
    BY <2>2, <2>3
<1> HIDE DEF t
<1>7. PendedIsTaking'
  BY <1>1, <1>3, <1>4 DEF IInv, PendedIsTaking, QueueInv, SchedTypeOK, semVars
<1>8. ASSUME NEW u \in Threads, taking[u] # NONE, ~ready'[u]
      PROVE  pended_on'[u] = taking[u] \/ (lock # NONE /\ lock.woken = u) \/ linked[u]
  <2>1. CASE u = t
    BY <1>3, <1>4, <1>8, <2>1 DEF Readied, IInv, QueueInv, SchedTypeOK
  <2>2. CASE u # t
    <3>1. ~ready[u] /\ pended_on'[u] = pended_on[u]
      BY <1>3, <1>4, <1>8, <2>2 DEF Readied, IInv, QueueInv, SchedTypeOK
    <3> QED
      BY <1>8, <2>2, <3>1 DEF IInv, NotStranded, t
  <2> QED
    BY <2>1, <2>2
<1>9. NotStranded'
  BY <1>1, <1>4, <1>8 DEF NotStranded, semVars
<1> QED
  BY <1>2, <1>5, <1>6, <1>7, <1>9 DEF IInv

\* Every step, and stuttering, preserves the invariant.
LEMMA NextIInv ==
  ASSUME IInv, [Next]_vars
  PROVE  IInv'
<1>1. CASE Next
  BY <1>1, TakeNowIInv, TakePendIInv, TakeReturnIInv, GiveIInv, ResetIInv,
     ResetLoopIInv, WakeIInv, ExpireIInv, CallbackIInv DEF Next
<1>2. CASE UNCHANGED vars
  <2>1. UNCHANGED schedVars /\ UNCHANGED semVars
    BY <1>2 DEF vars
  <2>2. QueueInv'
    BY <2>1, QueueInvSame DEF IInv
  <2>3. SemTypeOK' /\ WaitersOnlyAtZero'
    BY <2>1 DEF IInv, SemTypeOK, WaitersOnlyAtZero, semVars, schedVars
  <2>4. PendedIsTaking' /\ NotStranded'
    BY <2>1 DEF IInv, PendedIsTaking, NotStranded, semVars, schedVars
  <2> QED
    BY <2>2, <2>3, <2>4 DEF IInv
<1> QED
  BY <1>1, <1>2

\* The invariant holds in every state of every behaviour.
THEOREM Invariance == Spec => []IInv
<1>1. Init => IInv
  BY InitIInv
<1>2. IInv /\ [Next]_vars => IInv'
  BY NextIInv
<1> QED
  BY <1>1, <1>2, PTL DEF Spec

(***************************************************************************)
(* Theorems                                                                *)
(***************************************************************************)
\* The variables of the semaphore model keep their types: the count never
\* passes the limit.
THEOREM TypeCorrect == Spec => []TypeOK
<1>1. IInv => TypeOK
  BY DEF IInv, QueueInv, SemTypeOK, TypeOK
<1> QED
  BY <1>1, Invariance, PTL

\* A thread is on the wait queue it is pended on and on no other, once, and
\* not on the run queue.
THEOREM WaitersQueued == Spec => []PendedIsQueued
<1>1. IInv => PendedIsQueued
  BY DEF IInv, QueueInv
<1> QED
  BY <1>1, Invariance, PTL

\* The wait queue of a semaphore is in the order of priority.
THEOREM MostUrgentFirst == Spec => []WaitqSorted
<1>1. IInv => WaitqSorted
  BY DEF IInv, QueueInv
<1> QED
  BY <1>1, Invariance, PTL

\* No thread waits for a semaphore that has a unit to give.
THEOREM NobodyWaitsForUnits == Spec => []WaitersOnlyAtZero
<1>1. IInv => WaitersOnlyAtZero
  BY DEF IInv
<1> QED
  BY <1>1, Invariance, PTL

\* A thread off the run queue is on a wait queue, about to be readied, or has
\* a timeout.
THEOREM NobodyStranded == Spec => []NotStranded
<1>1. IInv => NotStranded
  BY DEF IInv
<1> QED
  BY <1>1, Invariance, PTL

\* Of threads that are as urgent, the one that has waited longest is first.
THEOREM NoOvertaking == Spec => LongestFirst
<1> DEFINE Overtakes(q, t, u) ==
             IsIn(waitq[q], u) /\ ~IsIn(waitq[q], t) /\ Before(waitq'[q], t, u) =>
               prio'[t] < prio'[u]
<1>1. ASSUME IInv, [Next]_vars, NEW q \in WaitQs, NEW t \in Threads, NEW u \in Threads
      PROVE  Overtakes(q, t, u)
  <2> SUFFICES ASSUME ~IsIn(waitq[q], t), Before(waitq'[q], t, u)
               PROVE  prio'[t] < prio'[u]
    OBVIOUS
  <2>1. IsIn(waitq'[q], t)
    BY DEF Before, IsIn
  <2>2. pended_on[t] # q /\ pended_on'[t] = q
    <3>1. IInv'
      BY <1>1, NextIInv
    <3> QED
      BY <1>1, <2>1, <3>1 DEF IInv, QueueInv, PendedIsQueued
  <2>3. PICK s \in Sems, timed \in BOOLEAN : TakePend(t, s, timed)
    <3>0. q # NONE /\ pended_on \in [Threads -> WaitQs \cup {NONE}]
      BY <1>1, WaitQAssumption DEF IInv, QueueInv, SchedTypeOK
    <3>1. Next
      BY <1>1, <2>2 DEF vars, schedVars
    <3>2. ASSUME UNCHANGED pended_on PROVE FALSE
      BY <2>2, <3>2
    <3>3. ASSUME NEW x, pended_on' = [pended_on EXCEPT ![x] = NONE] PROVE FALSE
      BY <2>2, <3>0, <3>3
    <3>4. ASSUME NEW v \in Threads, NEW s \in Sems, NEW timed \in BOOLEAN,
                 TakePend(v, s, timed)
          PROVE  v = t
      BY <2>2, <3>0, <3>4 DEF TakePend, Pend
    <3>5. ~\E s \in Sems : TakeNow(s) \/ Give(s) \/ Reset(s)
      BY <3>2, <3>3 DEF TakeNow, Give, Reset, UnpendFirst, schedVars
    <3>6. ~(ResetLoop \/ Wake \/ Callback)
      BY <3>2, <3>3 DEF ResetLoop, Wake, Callback, ThreadTimeout, UnpendFirst, schedVars
    <3>7. ~\E v \in Threads : TakeReturn(v) \/ Expire(v)
      BY <3>2 DEF TakeReturn, Expire, TimeoutExpires, schedVars
    <3> QED
      BY <3>1, <3>4, <3>5, <3>6, <3>7 DEF Next
  <2>4. /\ waitq \in [WaitQs -> Seq(Threads)] /\ prio \in [Threads -> Int]
        /\ pended_on \in [Threads -> WaitQs \cup {NONE}]
    BY <1>1 DEF IInv, QueueInv, SchedTypeOK
  <2>5. s = q /\ prio' = prio /\ waitq'[q] = Inserted(waitq[q], prio, t)
    BY <2>2, <2>3, <2>4 DEF TakePend, Pend
  <2>6. Sorted(waitq[q], prio)
    BY <1>1 DEF IInv, QueueInv, WaitqSorted, Sorted
  <2> QED
    BY <2>4, <2>5, <2>6, InsertedSorted
<1>2. IInv /\ [Next]_vars => [\A q \in WaitQs, t, u \in Threads : Overtakes(q, t, u)]_schedVars
  BY <1>1
<1> QED
  BY <1>2, Invariance, PTL DEF Spec, LongestFirst

(***************************************************************************)
(* One CPU: k_sem_take() tells the truth                                   *)
(***************************************************************************)
\* The thread has been unpended and is about to be readied.
Woken(t) == lock # NONE /\ lock.woken = t

\* A pending thread has been given nothing; the return value of a waiting
\* thread says whether it has, once it has been set; a thread about to be
\* readied is in k_sem_take(), and was given a unit if it is a give.
ResultInv ==
  /\ \A t \in Threads : pended_on[t] # NONE => ~granted[t] /\ swap_retval[t] = "EAGAIN"
  /\ \A t \in Threads :
       taking[t] # NONE => (swap_retval[t] = "0" <=> granted[t] /\ ~Woken(t))
  /\ \A t \in Threads :
       Woken(t) => /\ taking[t] # NONE /\ pended_on[t] = NONE
                   /\ granted[t] <=> lock.op = "give"

\* A give or a reset chooses t.
LEMMA ChosenResult ==
  ASSUME IInv, ResultInv, NEW s \in Sems, waitq[s] # <<>>, UnpendFirst(s),
         NEW o \in {"give", "reset"}, lock = NONE \/ lock.woken = NONE,
         lock' = [op |-> o, sem |-> s, woken |-> Head(waitq[s])],
         UNCHANGED <<swap_retval, taking>>,
         granted' = IF o = "give" THEN [granted EXCEPT ![Head(waitq[s])] = TRUE] ELSE granted
  PROVE  ResultInv'
<1> DEFINE t == Head(waitq[s])
<1>0. s \in WaitQs /\ s # NONE /\ NONE \notin Threads /\ NONE \notin Holders
  BY SemAssumption, WaitQAssumption
<1>1. t \in Threads /\ pended_on[t] = s
  <2>1. waitq[s] \in Seq(Threads)
    BY <1>0 DEF IInv, QueueInv, SchedTypeOK
  <2>2. t \in Threads /\ IsIn(waitq[s], t)
    BY <2>1, TailFacts
  <2> QED
    BY <1>0, <2>2 DEF IInv, QueueInv, PendedIsQueued
<1>2. lock' \in Holders /\ lock' # NONE /\ lock'.woken = t /\ lock'.op = o
  BY <1>0, <1>1 DEF Holders
<1>3. pended_on' = [pended_on EXCEPT ![t] = NONE]
  BY DEF UnpendFirst
<1>4. ~granted[t] /\ swap_retval[t] = "EAGAIN" /\ taking[t] = s
  BY <1>0, <1>1 DEF ResultInv, IInv, PendedIsTaking
<1>5. /\ pended_on \in [Threads -> WaitQs \cup {NONE}] /\ granted \in [Threads -> BOOLEAN]
      /\ \A u \in Threads : ~Woken(u)
  BY <1>0 DEF IInv, QueueInv, SchedTypeOK, SemTypeOK, Woken
<1>6. /\ granted' = IF o = "give" THEN [granted EXCEPT ![t] = TRUE] ELSE granted
      /\ taking' = taking /\ swap_retval' = swap_retval
  OBVIOUS
<1> HIDE DEF t
<1>7. \A u \in Threads : Woken(u)' <=> u = t
  BY <1>2 DEF Woken
<1>8. \A u \in Threads : u # t => pended_on'[u] = pended_on[u] /\ granted'[u] = granted[u]
  BY <1>3, <1>5, <1>6
<1>9. pended_on'[t] = NONE /\ (granted'[t] <=> o = "give")
  BY <1>1, <1>3, <1>4, <1>5, <1>6
<1>10. ASSUME NEW u \in Threads
       PROVE  /\ pended_on'[u] # NONE => ~granted'[u] /\ swap_retval'[u] = "EAGAIN"
              /\ taking'[u] # NONE => (swap_retval'[u] = "0" <=> granted'[u] /\ ~Woken(u)')
              /\ Woken(u)' => /\ taking'[u] # NONE /\ pended_on'[u] = NONE
                              /\ granted'[u] <=> lock'.op = "give"
  <2>1. CASE u = t
    BY <1>0, <1>2, <1>4, <1>6, <1>7, <1>9, <2>1
  <2>2. CASE u # t
    BY <1>5, <1>6, <1>7, <1>8, <2>2 DEF ResultInv
  <2> QED
    BY <2>1, <2>2
<1> QED
  BY <1>10 DEF ResultInv

\* Readying the thread chosen writes the result the choice recorded.
LEMMA WakeResult ==
  ASSUME IInv, ResultInv, Wake
  PROVE  ResultInv'
<1> DEFINE t == lock.woken
<1>0. NONE \notin Threads /\ NONE \notin Holders
  BY SemAssumption, WaitQAssumption
<1>1. lock \in Holders /\ t \in Threads /\ Woken(t)
  BY DEF IInv, SemTypeOK, Wake, Holders, Woken
<1>2. /\ swap_retval' = [swap_retval EXCEPT ![t] = WokenValue(lock.op)]
      /\ UNCHANGED <<pended_on, taking, granted>>
  BY DEF Wake
<1>3. \A u \in Threads : ~Woken(u)'
  BY <1>0, <1>1 DEF Wake, Holders, Woken
<1>4. WokenValue(lock.op) = "0" <=> granted[t]
  BY <1>1 DEF ResultInv, WokenValue
<1>5. pended_on[t] = NONE
  BY <1>1 DEF ResultInv
<1>6. \A u \in Threads : u # t => ~Woken(u) /\ swap_retval'[u] = swap_retval[u]
  BY <1>1, <1>2 DEF Woken, IInv, QueueInv, SchedTypeOK
<1>7. swap_retval'[t] = WokenValue(lock.op)
  BY <1>1, <1>2 DEF IInv, QueueInv, SchedTypeOK
<1> HIDE DEF t
<1>8. \A u \in Threads : pended_on'[u] # NONE => ~granted'[u] /\ swap_retval'[u] = "EAGAIN"
  BY <1>2, <1>5, <1>6 DEF ResultInv
<1>9. \A u \in Threads :
        taking'[u] # NONE => (swap_retval'[u] = "0" <=> granted'[u] /\ ~Woken(u)')
  BY <1>2, <1>3, <1>4, <1>6, <1>7 DEF ResultInv
<1> QED
  BY <1>3, <1>8, <1>9 DEF ResultInv

\* With one CPU every step keeps the results in line with the choices made.
LEMMA NextResult ==
  ASSUME SMP = FALSE, IInv, ResultInv, [Next]_vars
  PROVE  ResultInv'
<1>0. NONE \notin Threads /\ NONE \notin Holders /\ NONE \notin Sems
  BY SemAssumption, WaitQAssumption
<1>1. /\ pended_on \in [Threads -> WaitQs \cup {NONE}] /\ granted \in [Threads -> BOOLEAN]
      /\ taking \in [Threads -> Sems \cup {NONE}]
      /\ swap_retval \in [Threads -> {"0", "EAGAIN", "ENOMSG"}]
  BY DEF IInv, QueueInv, SchedTypeOK, SemTypeOK
<1>2. ASSUME UNCHANGED <<pended_on, swap_retval, taking, granted>>, lock' = lock
      PROVE  ResultInv'
  BY <1>2 DEF ResultInv, Woken
<1>3. ASSUME NEW s \in Sems, TakeNow(s) PROVE ResultInv'
  BY <1>2, <1>3 DEF TakeNow, schedVars
<1>4. ASSUME NEW t \in Threads, NEW s \in Sems, NEW timed \in BOOLEAN, TakePend(t, s, timed)
      PROVE  ResultInv'
  <2>1. /\ pended_on' = [pended_on EXCEPT ![t] = s]
        /\ swap_retval' = [swap_retval EXCEPT ![t] = "EAGAIN"]
        /\ taking' = [taking EXCEPT ![t] = s] /\ granted' = [granted EXCEPT ![t] = FALSE]
        /\ lock = NONE /\ lock' = NONE
    BY <1>4 DEF TakePend, Pend
  <2>2. \A u \in Threads : ~Woken(u) /\ ~Woken(u)'
    BY <2>1 DEF Woken
  <2> QED
    BY <1>1, <2>1, <2>2 DEF ResultInv
<1>5. ASSUME NEW t \in Threads, TakeReturn(t) PROVE ResultInv'
  <2>1. /\ taking' = [taking EXCEPT ![t] = NONE] /\ granted' = [granted EXCEPT ![t] = FALSE]
        /\ UNCHANGED <<pended_on, swap_retval>> /\ lock = NONE /\ lock' = NONE
    BY <1>5 DEF TakeReturn, ThreadsRun, schedVars
  <2>2. \A u \in Threads : ~Woken(u) /\ ~Woken(u)'
    BY <2>1 DEF Woken
  <2> QED
    BY <1>1, <2>1, <2>2 DEF ResultInv
<1>6. ASSUME NEW s \in Sems, Give(s) PROVE ResultInv'
  <2>1. CASE waitq[s] = <<>>
    BY <1>2, <1>6, <2>1 DEF Give, schedVars
  <2>2. CASE waitq[s] # <<>>
    <3>1. /\ UnpendFirst(s) /\ lock = NONE
          /\ lock' = [op |-> "give", sem |-> s, woken |-> Head(waitq[s])]
          /\ granted' = [granted EXCEPT ![Head(waitq[s])] = TRUE]
          /\ UNCHANGED <<swap_retval, taking>>
      BY <1>6, <2>2 DEF Give
    <3> QED
      BY <2>2, <3>1, ChosenResult
  <2> QED
    BY <2>1, <2>2
<1>7. ASSUME NEW s \in Sems, Reset(s) PROVE ResultInv'
  <2>1. /\ UNCHANGED <<pended_on, swap_retval, taking, granted>> /\ lock = NONE
        /\ lock' = [op |-> "reset", sem |-> s, woken |-> NONE]
    BY <1>7 DEF Reset, schedVars
  <2>2. \A u \in Threads : ~Woken(u) /\ ~Woken(u)'
    BY <1>0, <2>1 DEF Woken
  <2> QED
    BY <2>1, <2>2 DEF ResultInv
<1>8. ASSUME ResetLoop PROVE ResultInv'
  <2>0. /\ lock \in Holders /\ lock.sem \in Sems /\ lock.op = "reset" /\ lock.woken = NONE
        /\ UNCHANGED <<taking, granted>>
    BY <1>8 DEF IInv, SemTypeOK, ResetLoop, Holders
  <2>1. CASE waitq[lock.sem] # <<>>
    <3>1. UnpendFirst(lock.sem) /\ UNCHANGED swap_retval
      BY <1>8, <2>1 DEF ResetLoop
    <3>2. lock' = [op |-> "reset", sem |-> lock.sem, woken |-> Head(waitq[lock.sem])]
      BY <1>8, <2>0, <2>1 DEF ResetLoop, Holders
    <3> QED
      BY <2>0, <2>1, <3>1, <3>2, ChosenResult
  <2>2. CASE waitq[lock.sem] = <<>>
    <3>1. lock' = NONE /\ UNCHANGED <<pended_on, swap_retval, taking, granted>>
      BY <1>8, <2>0, <2>2 DEF ResetLoop, schedVars
    <3>2. \A u \in Threads : ~Woken(u) /\ ~Woken(u)'
      BY <1>0, <2>0, <3>1 DEF Woken
    <3> QED
      BY <3>1, <3>2 DEF ResultInv
  <2> QED
    BY <2>1, <2>2
<1>9. ASSUME NEW t \in Threads, Expire(t) PROVE ResultInv'
  BY <1>2, <1>9 DEF Expire, TimeoutExpires, semVars
<1>10. ASSUME Callback PROVE ResultInv'
  <2>1. /\ pended_on' = [pended_on EXCEPT ![firing] = NONE]
        /\ UNCHANGED <<swap_retval, taking, granted>> /\ lock' = lock
    BY <1>10 DEF Callback, ThreadTimeout, semVars
  <2>2. \A u \in Threads : pended_on'[u] = pended_on[u] \/ pended_on'[u] = NONE
    BY <1>1, <2>1
  <2>3. \A u \in Threads : Woken(u)' <=> Woken(u)
    BY <2>1 DEF Woken
  <2> QED
    BY <2>1, <2>2, <2>3 DEF ResultInv
<1>11. CASE UNCHANGED vars
  BY <1>2, <1>11 DEF vars, schedVars, semVars
<1> QED
  BY <1>3, <1>4, <1>5, <1>6, <1>7, <1>8, <1>9, <1>10, <1>11, WakeResult DEF Next

\* On one CPU k_sem_take() returns 0 to exactly the threads that k_sem_give()
\* chose, whatever timeouts and resets come in between.
THEOREM ResultsTrue ==
  ASSUME SMP = FALSE
  PROVE  Spec => ResultIsTrue
<1> DEFINE Told(t) == taking[t] # NONE /\ taking'[t] = NONE => (swap_retval[t] = "0" <=> granted[t])
<1>1. Init => ResultInv
  BY WaitQAssumption DEF Init, SchedInit, ResultInv, Woken
<1>2. IInv /\ ResultInv /\ [Next]_vars => ResultInv'
  BY NextResult
<1>3. ASSUME IInv, ResultInv, [Next]_vars, NEW t \in Threads PROVE Told(t)
  <2> SUFFICES ASSUME taking[t] # NONE, taking'[t] = NONE
               PROVE  swap_retval[t] = "0" <=> granted[t]
    OBVIOUS
  <2>0. taking \in [Threads -> Sems \cup {NONE}] /\ NONE \notin Sems
    BY <1>3, SemAssumption, WaitQAssumption DEF IInv, SemTypeOK
  <2>1. Next /\ taking' # taking
    BY <1>3 DEF vars, semVars
  <2>2. \E v \in Threads : TakeReturn(v) \/ \E s \in Sems, timed \in BOOLEAN : TakePend(v, s, timed)
    BY <2>1 DEF Next, TakeNow, Give, Reset, ResetLoop, Wake, Expire, Callback, semVars
  <2>3. ~\E v \in Threads, s \in Sems, timed \in BOOLEAN : TakePend(v, s, timed)
    BY <2>0 DEF TakePend
  <2>4. lock = NONE
    BY <2>2, <2>3 DEF TakeReturn, ThreadsRun
  <2> QED
    BY <1>3, <2>4 DEF ResultInv, Woken
<1>4. IInv /\ ResultInv /\ [Next]_vars => [\A t \in Threads : Told(t)]_vars
  BY <1>3
<1> QED
  BY <1>1, <1>2, <1>4, Invariance, PTL DEF Spec, ResultIsTrue
=============================================================================
