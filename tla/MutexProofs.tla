---------------------------- MODULE MutexProofs ----------------------------
(***************************************************************************)
(* Theorems about mutexes and condition variables, for every number of     *)
(* threads and any priorities: who holds a mutex, for any number of        *)
(* mutexes; which priorities threads have, for one.                        *)
(***************************************************************************)
EXTENDS Mutex, ListFacts, TLAPS

(***************************************************************************)
(* Wait queues of which the order is not known                             *)
(***************************************************************************)
\* A thread is on the queue of w that po says it is pended on, once.
Placed(w, po) ==
  \A q \in WaitQs, t \in Threads : (IsIn(w[q], t) <=> po[t] = q) /\ Once(w[q], t)

\* Pending a thread places it.
LEMMA PlacedInsert ==
  ASSUME NEW w \in [WaitQs -> Seq(Threads)], NEW po \in [Threads -> WaitQs \cup {NONE}],
         Placed(w, po), NEW q \in WaitQs, NEW t \in Threads, po[t] = NONE,
         NEW p \in [Threads -> Int]
  PROVE  LET w2 == [w EXCEPT ![q] = Inserted(@, p, t)]
             po2 == [po EXCEPT ![t] = q]
         IN  /\ w2 \in [WaitQs -> Seq(Threads)] /\ po2 \in [Threads -> WaitQs \cup {NONE}]
             /\ Placed(w2, po2)
<1> DEFINE w2 == [w EXCEPT ![q] = Inserted(@, p, t)]
           po2 == [po EXCEPT ![t] = q]
           r == Inserted(w[q], p, t)
<1>0. NONE \notin WaitQs
  BY WaitQAssumption
<1>1. w[q] \in Seq(Threads) /\ ~IsIn(w[q], t)
  BY <1>0 DEF Placed
<1>2. /\ r \in Seq(Threads)
      /\ \A y : IsIn(r, y) <=> IsIn(w[q], y) \/ y = t
      /\ \A y : Once(w[q], y) /\ (y # t \/ ~IsIn(w[q], t)) => Once(r, y)
  BY <1>1, InsertedFacts
<1>3. /\ w2 \in [WaitQs -> Seq(Threads)] /\ po2 \in [Threads -> WaitQs \cup {NONE}]
      /\ w2[q] = r /\ \A x \in WaitQs : x # q => w2[x] = w[x]
      /\ po2[t] = q /\ \A u \in Threads : u # t => po2[u] = po[u]
  BY <1>2
<1> HIDE DEF w2, po2, r
<1>4. ASSUME NEW x \in WaitQs, NEW u \in Threads
      PROVE  (IsIn(w2[x], u) <=> po2[u] = x) /\ Once(w2[x], u)
  <2>1. CASE x = q
    BY <1>1, <1>2, <1>3, <2>1 DEF Placed
  <2>2. CASE x # q
    BY <1>0, <1>3, <2>2 DEF Placed
  <2> QED
    BY <2>1, <2>2
<1> QED
  BY <1>3, <1>4 DEF Placed, w2, po2

\* Taking t from the queue it is on leaves the others in place.
LEMMA PlacedWithout ==
  ASSUME NEW w \in [WaitQs -> Seq(Threads)], NEW po \in [Threads -> WaitQs \cup {NONE}],
         Placed(w, po), NEW q \in WaitQs, NEW t \in Threads, po[t] = q,
         NEW r \in Seq(Threads),
         \A y : IsIn(r, y) <=> IsIn(w[q], y) /\ y # t,
         \A y : Once(w[q], y) => Once(r, y)
  PROVE  LET w2 == [w EXCEPT ![q] = r]
             po2 == [po EXCEPT ![t] = NONE]
         IN  /\ w2 \in [WaitQs -> Seq(Threads)] /\ po2 \in [Threads -> WaitQs \cup {NONE}]
             /\ Placed(w2, po2)
<1> DEFINE w2 == [w EXCEPT ![q] = r]
           po2 == [po EXCEPT ![t] = NONE]
<1>0. NONE \notin WaitQs
  BY WaitQAssumption
<1>1. /\ w2 \in [WaitQs -> Seq(Threads)] /\ po2 \in [Threads -> WaitQs \cup {NONE}]
      /\ w2[q] = r /\ \A x \in WaitQs : x # q => w2[x] = w[x]
      /\ po2[t] = NONE /\ \A u \in Threads : u # t => po2[u] = po[u]
  OBVIOUS
<1> HIDE DEF w2, po2
<1>2. ASSUME NEW x \in WaitQs, NEW u \in Threads
      PROVE  (IsIn(w2[x], u) <=> po2[u] = x) /\ Once(w2[x], u)
  <2>1. CASE x = q
    BY <1>0, <1>1, <2>1 DEF Placed
  <2>2. CASE x # q
    BY <1>0, <1>1, <2>2 DEF Placed
  <2> QED
    BY <2>1, <2>2
<1> QED
  BY <1>1, <1>2 DEF Placed, w2, po2

\* z_unpend_first_thread() takes the first thread.
LEMMA PlacedTail ==
  ASSUME NEW w \in [WaitQs -> Seq(Threads)], NEW po \in [Threads -> WaitQs \cup {NONE}],
         Placed(w, po), NEW q \in WaitQs, w[q] # <<>>
  PROVE  LET t == Head(w[q])
             w2 == [w EXCEPT ![q] = Tail(@)]
             po2 == [po EXCEPT ![t] = NONE]
         IN  /\ t \in Threads /\ po[t] = q
             /\ w2 \in [WaitQs -> Seq(Threads)] /\ po2 \in [Threads -> WaitQs \cup {NONE}]
             /\ Placed(w2, po2)
<1> DEFINE t == Head(w[q])
           r == Tail(w[q])
<1>1. w[q] \in Seq(Threads)
  OBVIOUS
<1>2. /\ t \in Threads /\ r \in Seq(Threads) /\ IsIn(w[q], t)
      /\ \A y : Once(w[q], y) => Once(r, y)
      /\ \A y : Once(w[q], y) => (IsIn(r, y) <=> IsIn(w[q], y) /\ y # t)
  BY <1>1, TailFacts
<1>3. po[t] = q
  BY <1>2 DEF Placed
<1>4. \A y : IsIn(r, y) <=> IsIn(w[q], y) /\ y # t
  <2>1. \A y : IsIn(w[q], y) \/ IsIn(r, y) => y \in Threads
    <3>1. DOMAIN r = 1..Len(r) /\ DOMAIN w[q] = 1..Len(w[q])
      BY <1>1, <1>2
    <3> QED
      BY <3>1, <1>1, <1>2, ElementOfSeq DEF IsIn
  <2> QED
    BY <1>2, <2>1 DEF Placed
<1> HIDE DEF t, r
<1>5. LET w2 == [w EXCEPT ![q] = r]
          po2 == [po EXCEPT ![t] = NONE]
      IN  /\ w2 \in [WaitQs -> Seq(Threads)] /\ po2 \in [Threads -> WaitQs \cup {NONE}]
          /\ Placed(w2, po2)
  BY <1>2, <1>3, <1>4, PlacedWithout
<1> QED
  BY <1>2, <1>3, <1>5 DEF t, r

\* z_thread_timeout() takes t from wherever it is.
LEMMA PlacedRemove ==
  ASSUME NEW w \in [WaitQs -> Seq(Threads)], NEW po \in [Threads -> WaitQs \cup {NONE}],
         Placed(w, po), NEW q \in WaitQs, NEW t \in Threads, po[t] = q
  PROVE  LET w2 == [w EXCEPT ![q] = RemoveItem(@, t)]
             po2 == [po EXCEPT ![t] = NONE]
         IN  /\ w2 \in [WaitQs -> Seq(Threads)] /\ po2 \in [Threads -> WaitQs \cup {NONE}]
             /\ Placed(w2, po2)
<1> DEFINE r == RemoveItem(w[q], t)
<1>1. w[q] \in Seq(Threads) /\ IsIn(w[q], t) /\ Once(w[q], t)
  BY DEF Placed
<1>2. /\ r \in Seq(Threads) /\ ~IsIn(r, t)
      /\ \A y : y # t => (IsIn(r, y) <=> IsIn(w[q], y))
      /\ \A y : Once(w[q], y) => Once(r, y)
  BY <1>1, RemoveFacts
<1>3. \A y : IsIn(r, y) <=> IsIn(w[q], y) /\ y # t
  BY <1>2
<1> HIDE DEF r
<1>4. LET w2 == [w EXCEPT ![q] = r]
          po2 == [po EXCEPT ![t] = NONE]
      IN  /\ w2 \in [WaitQs -> Seq(Threads)] /\ po2 \in [Threads -> WaitQs \cup {NONE}]
          /\ Placed(w2, po2)
  BY <1>2, <1>3, PlacedWithout
<1> QED
  BY <1>4 DEF r

(***************************************************************************)
(* What the proofs of the actions share                                    *)
(***************************************************************************)
\* The types of the variables, and what is told apart.
LEMMA Types ==
  ASSUME MutexInv
  PROVE  /\ prio \in [Threads -> Int] /\ waitq \in [WaitQs -> Seq(Threads)]
         /\ pended_on \in [Threads -> WaitQs \cup {NONE}]
         /\ linked \in [Threads -> BOOLEAN] /\ firing \in Threads \cup {NONE}
         /\ ready \in [Threads -> BOOLEAN]
         /\ swap_retval \in [Threads -> {"0", "EAGAIN", "ENOMSG"}]
         /\ owner \in [Mutexes -> Threads \cup {NONE}]
         /\ lock_count \in [Mutexes -> 0..MaxLocks]
         /\ owner_orig_prio \in [Mutexes -> Int]
         /\ call \in [Threads -> Calls]
         /\ held \in [Threads -> [Mutexes -> 0..MaxLocks]]
         /\ WaitQs = Mutexes \cup CondVars /\ Mutexes \cap CondVars = {}
         /\ NONE \notin Threads /\ NONE \notin WaitQs
         /\ MaxLocks \in Nat /\ MaxLocks >= 1
         /\ Placed(waitq, pended_on)
BY WaitQAssumption, MutexAssumption DEF MutexInv, TypeOK, SchedTypeOK, PendedIsQueued, Placed

\* new_prio_for_inheritance() yields a priority.
LEMMA InheritType ==
  ASSUME NEW a \in Int, NEW b \in Int
  PROVE  new_prio_for_inheritance(a, b) \in Int
BY MutexAssumption DEF new_prio_for_inheritance

\* Priorities stay priorities when the owner inherits one,
LEMMA BoostedType ==
  ASSUME MutexInv, NEW t \in Threads, NEW m \in Mutexes, owner[m] # NONE
  PROVE  Boosted(t, m) \in [Threads -> Int]
<1>1. prio \in [Threads -> Int] /\ owner[m] \in Threads
  BY Types
<1>2. new_prio_for_inheritance(prio[t], prio[owner[m]]) \in Int
  BY <1>1, InheritType
<1> QED
  BY <1>1, <1>2 DEF Boosted

\* ... when it is lowered because a waiter has timed out,
LEMMA LoweredType ==
  ASSUME MutexInv, NEW m \in Mutexes
  PROVE  Lowered(m) \in [Threads -> Int]
<1>1. /\ prio \in [Threads -> Int] /\ owner[m] \in Threads \cup {NONE}
      /\ waitq[m] \in Seq(Threads) /\ owner_orig_prio[m] \in Int
  BY Types
<1>2. waitq[m] # <<>> => Head(waitq[m]) \in Threads
  BY <1>1
<1>3. waitq[m] # <<>> => new_prio_for_inheritance(prio[Head(waitq[m])], owner_orig_prio[m]) \in Int
  BY <1>1, <1>2, InheritType
<1> QED
  BY <1>1, <1>3 DEF Lowered

\* ... and when the mutex is unlocked.
LEMMA RestoredType ==
  ASSUME MutexInv, NEW t \in Threads, NEW m \in Mutexes
  PROVE  Restored(t, m) \in [Threads -> Int]
BY Types DEF Restored

\* The parts of the invariant, put together after a step.
LEMMA MutexInvNext ==
  ASSUME prio' \in [Threads -> Int], waitq' \in [WaitQs -> Seq(Threads)],
         pended_on' \in [Threads -> WaitQs \cup {NONE}],
         linked' \in [Threads -> BOOLEAN], firing' \in Threads \cup {NONE},
         ready' \in [Threads -> BOOLEAN],
         swap_retval' \in [Threads -> {"0", "EAGAIN", "ENOMSG"}],
         owner' \in [Mutexes -> Threads \cup {NONE}],
         lock_count' \in [Mutexes -> 0..MaxLocks],
         owner_orig_prio' \in [Mutexes -> Int],
         call' \in [Threads -> Calls],
         held' \in [Threads -> [Mutexes -> 0..MaxLocks]],
         Placed(waitq', pended_on'), CallsPlaced', HeldByOwner', HandOverKnown'
  PROVE  MutexInv'
<1>1. TypeOK'
  BY DEF TypeOK, SchedTypeOK
<1>2. PendedIsQueued'
  BY DEF PendedIsQueued, Placed, CallsPlaced, ThreadPlaced
<1> QED
  BY <1>1, <1>2 DEF MutexInv

\* Nobody owns a mutex at first.
LEMMA InitMutex == Init => MutexInv
<1> SUFFICES ASSUME Init PROVE MutexInv
  OBVIOUS
<1> USE WaitQAssumption, MutexAssumption
<1>1. TypeOK
  BY DEF Init, SchedInit, TypeOK, SchedTypeOK, Calls
<1>2. PendedIsQueued
  BY DEF Init, SchedInit, PendedIsQueued, IsIn, Once
<1>3. CallsPlaced
  BY DEF Init, SchedInit, CallsPlaced, ThreadPlaced, Receives, Out
<1>4. HeldByOwner /\ HandOverKnown
  BY DEF Init, HeldByOwner, HandOverKnown, Receives, Out
<1> QED
  BY <1>1, <1>2, <1>3, <1>4 DEF MutexInv

\* A thread that a step leaves alone stays in place unless the mutex m of
\* which the owner changes is its own affair.
LEMMA OthersPlaced ==
  ASSUME MutexInv, NEW u \in Threads, NEW m \in Mutexes,
         lock_count' \in [Mutexes -> 0..MaxLocks],
         /\ ready'[u] = ready[u] /\ pended_on'[u] = pended_on[u] /\ linked'[u] = linked[u]
         /\ (firing' = u <=> firing = u) /\ swap_retval'[u] = swap_retval[u] /\ call'[u] = call[u],
         \A n \in Mutexes : n # m => owner'[n] = owner[n] /\ lock_count'[n] = lock_count[n],
         pended_on[u] = m => owner'[m] \notin {u, NONE},
         owner'[m] = u => (owner[m] = u /\ lock_count'[m] <= lock_count[m]) \/ call[u].op # "wait"
  PROVE  ThreadPlaced(u)'
<1>1. ThreadPlaced(u) /\ (call[u].op = "wait" => call[u].m \in Mutexes)
  BY Types DEF MutexInv, CallsPlaced, Calls, Out
<1>2. pended_on[u] \in Mutexes => owner'[pended_on[u]] \notin {u, NONE}
  BY <1>1 DEF ThreadPlaced
<1>3. ASSUME call[u].op = "wait", owner'[call[u].m] = u PROVE lock_count'[call[u].m] < MaxLocks
  <2>1. CASE call[u].m = m
    <3>1. lock_count[m] < MaxLocks /\ lock_count'[m] <= lock_count[m] /\ owner[m] = u
      BY <1>1, <1>3, <2>1 DEF ThreadPlaced
    <3>2. lock_count[m] \in Int /\ lock_count'[m] \in Int /\ MaxLocks \in Int
      BY Types
    <3> QED
      BY <1>1, <1>3, <2>1, <3>1, <3>2
  <2>2. CASE call[u].m # m
    BY <1>1, <1>3, <2>2 DEF ThreadPlaced
  <2> QED
    BY <2>1, <2>2
<1> QED
  BY <1>1, <1>2, <1>3 DEF ThreadPlaced

(***************************************************************************)
(* One lemma per action                                                    *)
(***************************************************************************)
\* A thread that is not waiting for a mutex takes one that is free or its own.
LEMMA TakeKeeps ==
  ASSUME MutexInv, NEW t \in Threads, NEW m \in Mutexes, ready[t], firing = NONE,
         call[t].op \notin {"lock", "relock"}, Free(t, m), LockTake(t, m),
         lock_count[m] < MaxLocks, held[t][m] < MaxLocks,
         call' = [call EXCEPT ![t] = Out], UNCHANGED schedVars
  PROVE  MutexInv'
<1>0. /\ owner' = [owner EXCEPT ![m] = t] /\ lock_count' = [lock_count EXCEPT ![m] = @ + 1]
      /\ held' = [held EXCEPT ![t][m] = @ + 1]
      /\ owner_orig_prio' = [owner_orig_prio EXCEPT ![m] = OrigPrio(t, m)]
  BY DEF LockTake
<1>1. /\ owner' \in [Mutexes -> Threads \cup {NONE}]
      /\ lock_count' \in [Mutexes -> 0..MaxLocks]
      /\ held' \in [Threads -> [Mutexes -> 0..MaxLocks]]
      /\ owner_orig_prio' \in [Mutexes -> Int]
      /\ call' \in [Threads -> Calls]
  <2>1. lock_count[m] + 1 \in 0..MaxLocks /\ held[t][m] + 1 \in 0..MaxLocks
    BY Types
  <2>2. OrigPrio(t, m) \in Int /\ Out \in Calls
    BY Types DEF OrigPrio, Calls
  <2> QED
    BY <1>0, <2>1, <2>2, Types
<1>2. /\ owner'[m] = t /\ lock_count'[m] = lock_count[m] + 1 /\ held'[t][m] = held[t][m] + 1
      /\ call'[t].op = "none"
      /\ \A n \in Mutexes : n # m => owner'[n] = owner[n] /\ lock_count'[n] = lock_count[n]
      /\ \A u \in Threads, n \in Mutexes : u # t \/ n # m => held'[u][n] = held[u][n]
      /\ \A u \in Threads : u # t => call'[u] = call[u]
  BY <1>0, Types DEF Out
<1>3. owner[m] \in {t, NONE} /\ lock_count[m] \in Nat /\ (owner[m] = NONE <=> lock_count[m] = 0)
  BY Types DEF MutexInv, CallsPlaced, Free
<1>4. /\ waitq' = waitq /\ pended_on' = pended_on /\ linked' = linked /\ firing' = firing
      /\ ready' = ready /\ swap_retval' = swap_retval /\ prio' = prio
  BY DEF schedVars
<1>5. HeldByOwner'
  <2> SUFFICES ASSUME NEW u \in Threads, NEW n \in Mutexes
               PROVE  held'[u][n] = IF owner'[n] = u /\ ~Receives(u, n)' THEN lock_count'[n] ELSE 0
    BY DEF HeldByOwner
  <2>0. held[u][n] = IF owner[n] = u /\ ~Receives(u, n) THEN lock_count[n] ELSE 0
    BY DEF MutexInv, HeldByOwner
  <2>1. CASE u = t /\ n = m
    BY <1>2, <1>3, <2>0, <2>1, Types DEF Receives
  <2>2. CASE u = t /\ n # m
    BY <1>2, <2>0, <2>2 DEF Receives
  <2>3. CASE u # t /\ n = m
    BY <1>2, <1>3, <2>0, <2>3, Types
  <2>4. CASE u # t /\ n # m
    BY <1>2, <2>0, <2>4 DEF Receives
  <2> QED
    BY <2>1, <2>2, <2>3, <2>4
<1>6. HandOverKnown'
  <2> SUFFICES ASSUME NEW u \in Threads, call'[u].op \in {"lock", "relock"}, ready[u]
               PROVE  swap_retval[u] = "0" <=> owner'[call'[u].m] = u
    BY <1>4 DEF HandOverKnown
  <2>1. u # t /\ call'[u] = call[u]
    BY <1>2
  <2>2. call[u].m \in Mutexes /\ (swap_retval[u] = "0" <=> owner[call[u].m] = u)
    BY <2>1, Types DEF MutexInv, HandOverKnown, Calls, Out
  <2>3. CASE call[u].m = m
    <3>1. owner[m] # u /\ owner'[m] # u
      BY <1>2, <1>3, <2>1, Types
    <3> QED
      BY <2>1, <2>2, <2>3, <3>1
  <2>4. CASE call[u].m # m
    BY <1>2, <2>1, <2>2, <2>4
  <2> QED
    BY <2>3, <2>4
<1>7. CallsPlaced'
  <2>1. ASSUME NEW u \in Threads PROVE ThreadPlaced(u)'
    <3>1. CASE u = t
      <4>1. pended_on[t] = NONE
        BY DEF MutexInv, CallsPlaced, ThreadPlaced
      <4> QED
        BY <1>2, <1>4, <3>1, <4>1, Types DEF MutexInv, CallsPlaced, ThreadPlaced
    <3>2. CASE u # t
      <4>1. pended_on[u] = m => owner'[m] \notin {u, NONE}
        BY <1>2, <3>2, Types
      <4> QED
        BY <1>1, <1>2, <1>4, <3>2, <4>1, OthersPlaced
    <3> QED
      BY <3>1, <3>2
  <2>2. \A n \in Mutexes : owner'[n] = NONE <=> lock_count'[n] = 0
    <3>1. owner'[m] # NONE /\ lock_count'[m] # 0
      BY <1>2, <1>3, Types
    <3> QED
      BY <1>2, <3>1 DEF MutexInv, CallsPlaced
  <2>3. ASSUME NEW u \in Threads, NEW n \in Mutexes, Receives(u, n)'
        PROVE  ready[u] /\ lock_count'[n] = 1
    <3>1. u # t /\ n # m
      BY <1>2, <2>3 DEF Receives
    <3>2. Receives(u, n) /\ lock_count'[n] = lock_count[n]
      BY <1>2, <2>3, <3>1 DEF Receives
    <3> QED
      BY <3>2 DEF MutexInv, CallsPlaced
  <2> QED
    BY <1>4, <2>1, <2>2, <2>3 DEF CallsPlaced
<1> QED
  BY <1>1, <1>4, <1>5, <1>6, <1>7, Types, MutexInvNext

\* k_mutex_lock() within a call that takes the mutex at once.
LEMMA LockTakeInv ==
  ASSUME MutexInv, NEW t \in Threads, NEW m \in Mutexes, Running(t), call[t] = Out,
         Free(t, m), held[t][m] < MaxLocks, LockTake(t, m), UNCHANGED <<schedVars, call>>
  PROVE  MutexInv'
<1>1. ready[t] /\ firing = NONE
  BY DEF Running
<1>2. call[t].op = "none" /\ call' = [call EXCEPT ![t] = Out]
  BY Types DEF Out
<1>3. lock_count[m] < MaxLocks
  <2>1. CASE lock_count[m] = 0
    BY <2>1, Types
  <2>2. CASE owner[m] = t
    <3>1. ~Receives(t, m)
      BY <1>2 DEF Receives
    <3> QED
      BY <2>2, <3>1 DEF MutexInv, HeldByOwner
  <2> QED
    BY <2>1, <2>2 DEF Free
<1> QED
  BY <1>1, <1>2, <1>3, TakeKeeps

\* A thread begins to wait for a mutex that another has: its owner may be
\* raised, and stays the owner.
LEMMA WaitKeeps ==
  ASSUME MutexInv, NEW t \in Threads, NEW m \in Mutexes, NEW o \in {"lock", "relock"},
         NEW timed \in BOOLEAN, o = "relock" => timed = FALSE,
         ready[t], firing = NONE, call[t].op \notin {"lock", "relock"}, ~Free(t, m),
         LockPend(t, m, timed), call' = [call EXCEPT ![t] = [op |-> o, m |-> m]],
         UNCHANGED <<firing, mutexVars, held>>
  PROVE  MutexInv'
<1>0. /\ prio' = Boosted(t, m) /\ waitq' = [waitq EXCEPT ![m] = Inserted(@, prio, t)]
      /\ pended_on' = [pended_on EXCEPT ![t] = m] /\ linked' = [linked EXCEPT ![t] = timed]
      /\ ready' = [ready EXCEPT ![t] = FALSE]
      /\ swap_retval' = [swap_retval EXCEPT ![t] = "EAGAIN"]
      /\ owner' = owner /\ lock_count' = lock_count /\ owner_orig_prio' = owner_orig_prio
      /\ held' = held /\ firing' = NONE
  BY DEF LockPend, Pend, mutexVars
<1>1. owner[m] \notin {t, NONE} /\ m \in WaitQs
  BY Types DEF Free, MutexInv, CallsPlaced
<1>2. prio' \in [Threads -> Int]
  BY <1>0, <1>1, BoostedType
<1>3. pended_on[t] = NONE
  BY DEF MutexInv, CallsPlaced, ThreadPlaced
<1>4. /\ waitq' \in [WaitQs -> Seq(Threads)] /\ pended_on' \in [Threads -> WaitQs \cup {NONE}]
      /\ Placed(waitq', pended_on')
  BY <1>0, <1>1, <1>3, Types, PlacedInsert
<1>5. /\ linked' \in [Threads -> BOOLEAN] /\ ready' \in [Threads -> BOOLEAN]
      /\ swap_retval' \in [Threads -> {"0", "EAGAIN", "ENOMSG"}] /\ call' \in [Threads -> Calls]
  BY <1>0, Types DEF Calls
<1>6. /\ pended_on'[t] = m /\ linked'[t] = timed /\ ready'[t] = FALSE /\ swap_retval'[t] = "EAGAIN"
      /\ call'[t].op = o /\ call'[t].m = m
      /\ \A u \in Threads : u # t =>
           /\ ready'[u] = ready[u] /\ pended_on'[u] = pended_on[u] /\ linked'[u] = linked[u]
           /\ swap_retval'[u] = swap_retval[u] /\ call'[u] = call[u]
  BY <1>0, Types
<1>7. \A u \in Threads, n \in Mutexes : Receives(u, n)' <=> Receives(u, n)
  BY <1>0, <1>1, <1>6 DEF Receives
<1>8. HeldByOwner'
  BY <1>0, <1>7 DEF MutexInv, HeldByOwner
<1>9. HandOverKnown'
  BY <1>0, <1>6 DEF MutexInv, HandOverKnown
<1>10. CallsPlaced'
  <2>1. ASSUME NEW u \in Threads PROVE ThreadPlaced(u)'
    <3>1. CASE u = t
      BY <1>0, <1>1, <1>6, <3>1, Types DEF ThreadPlaced
    <3>2. CASE u # t
      <4>1. pended_on[u] = m => owner'[m] \notin {u, NONE}
        BY <1>0, Types DEF MutexInv, CallsPlaced, ThreadPlaced
      <4>2. lock_count' \in [Mutexes -> 0..MaxLocks] /\ lock_count'[m] <= lock_count[m]
        BY <1>0, Types
      <4> QED
        BY <1>0, <1>6, <3>2, <4>1, <4>2, OthersPlaced
    <3> QED
      BY <3>1, <3>2
  <2>2. \A u \in Threads, n \in Mutexes : Receives(u, n) => u # t
    BY DEF Receives
  <2> QED
    BY <1>0, <1>6, <1>7, <2>1, <2>2 DEF CallsPlaced, MutexInv
<1> QED
  BY <1>0, <1>2, <1>4, <1>5, <1>8, <1>9, <1>10, Types, MutexInvNext

\* k_mutex_lock(), with and without a wait.
LEMMA LockInv ==
  ASSUME MutexInv, NEW t \in Threads, NEW m \in Mutexes, NEW timed \in BOOLEAN, Lock(t, m, timed)
  PROVE  MutexInv'
<1>1. CASE Free(t, m)
  BY <1>1, LockTakeInv DEF Lock
<1>2. CASE ~Free(t, m)
  <2>1. /\ ready[t] /\ firing = NONE /\ call[t].op = "none" /\ LockPend(t, m, timed)
        /\ call' = [call EXCEPT ![t] = [op |-> "lock", m |-> m]]
        /\ UNCHANGED <<firing, mutexVars, held>>
    BY <1>2 DEF Lock, Running, Out
  <2> QED
    BY <1>2, <2>1, WaitKeeps
<1> QED
  BY <1>1, <1>2

\* The thread back from waiting counts the lock if and only if it was given.
LEMMA LockReturnInv ==
  ASSUME MutexInv, NEW t \in Threads, LockReturn(t)
  PROVE  MutexInv'
<1> DEFINE m == call[t].m
<1>0. /\ ready[t] /\ firing = NONE /\ call[t].op \in {"lock", "relock"}
      /\ call' = [call EXCEPT ![t] = Out] /\ m \in Mutexes
      /\ waitq' = waitq /\ pended_on' = pended_on /\ linked' = linked /\ firing' = firing
      /\ ready' = ready /\ swap_retval' = swap_retval
      /\ owner' = owner /\ lock_count' = lock_count /\ owner_orig_prio' = owner_orig_prio
  BY Types DEF LockReturn, Running, mutexVars, Calls, Out
<1>1. /\ swap_retval[t] = "0" <=> owner[m] = t
      /\ call[t].op = "relock" => swap_retval[t] = "0"
  BY <1>0 DEF MutexInv, HandOverKnown, CallsPlaced, ThreadPlaced
<1>2. prio' \in [Threads -> Int]
  BY <1>0, Types, LoweredType DEF LockReturn
<1>3. held' = IF owner[m] = t THEN [held EXCEPT ![t][m] = @ + 1] ELSE held
  BY <1>0, <1>1 DEF LockReturn
<1> HIDE DEF m
<1>4. call'[t].op = "none" /\ \A u \in Threads : u # t => call'[u] = call[u]
  BY <1>0, Types DEF Out
<1>5. \A n \in Mutexes : Receives(t, n) <=> n = m /\ owner[m] = t
  BY <1>0 DEF Receives, m
<1>6. /\ \A n \in Mutexes : ~Receives(t, n)'
      /\ \A u \in Threads, n \in Mutexes : u # t => (Receives(u, n)' <=> Receives(u, n))
  BY <1>0, <1>4 DEF Receives
<1>7. owner[m] = t => lock_count[m] = 1 /\ held[t][m] = 0
  BY <1>0, <1>5 DEF MutexInv, CallsPlaced, HeldByOwner
<1>8. held' \in [Threads -> [Mutexes -> 0..MaxLocks]]
  <2>1. owner[m] = t => held[t][m] + 1 \in 0..MaxLocks
    BY <1>7, Types
  <2> QED
    BY <1>0, <1>3, <2>1, Types
<1>9. /\ owner[m] = t => held'[t][m] = 1
      /\ \A u \in Threads, n \in Mutexes :
           ~(u = t /\ n = m /\ owner[m] = t) => held'[u][n] = held[u][n]
  BY <1>0, <1>3, <1>7, Types
<1>10. HeldByOwner'
  <2> SUFFICES ASSUME NEW u \in Threads, NEW n \in Mutexes
               PROVE  held'[u][n] = IF owner[n] = u /\ ~Receives(u, n)' THEN lock_count[n] ELSE 0
    BY <1>0 DEF HeldByOwner
  <2>0. held[u][n] = IF owner[n] = u /\ ~Receives(u, n) THEN lock_count[n] ELSE 0
    BY DEF MutexInv, HeldByOwner
  <2>1. CASE u = t /\ n = m /\ owner[m] = t
    BY <1>6, <1>7, <1>9, <2>1
  <2>2. CASE ~(u = t /\ n = m /\ owner[m] = t)
    BY <1>5, <1>6, <1>9, <2>0, <2>2
  <2> QED
    BY <2>1, <2>2
<1>11. HandOverKnown'
  BY <1>0, <1>4 DEF MutexInv, HandOverKnown
<1>12. CallsPlaced'
  <2>1. ASSUME NEW u \in Threads PROVE ThreadPlaced(u)'
    <3>1. CASE u = t
      <4>1. pended_on[t] = NONE
        BY <1>0 DEF MutexInv, CallsPlaced, ThreadPlaced
      <4> QED
        BY <1>0, <1>4, <3>1, <4>1, Types DEF MutexInv, CallsPlaced, ThreadPlaced
    <3>2. CASE u # t
      BY <1>0, <1>4, <3>2 DEF MutexInv, CallsPlaced, ThreadPlaced
    <3> QED
      BY <3>1, <3>2
  <2> QED
    BY <1>0, <1>6, <2>1 DEF CallsPlaced, MutexInv
<1> QED
  BY <1>0, <1>2, <1>8, <1>10, <1>11, <1>12, Types, MutexInvNext DEF Calls

\* What the scheduler knows of u, and the call u is in, are unchanged.
Untouched(u) ==
  /\ ready'[u] = ready[u] /\ pended_on'[u] = pended_on[u] /\ linked'[u] = linked[u]
  /\ (firing' = u <=> firing = u) /\ swap_retval'[u] = swap_retval[u] /\ call'[u] = call[u]

\* t counts one lock of m less.
OneLess(t, m) == held' = [held EXCEPT ![t][m] = @ - 1]

\* The owner of m, which is in no other call, counts one lock less.
LEMMA OwnerHolds ==
  ASSUME MutexInv, NEW t \in Threads, NEW m \in Mutexes, call[t] = Out, owner[m] = t,
         OneLess(t, m)
  PROVE  /\ held[t][m] = lock_count[m] /\ lock_count[m] \in 1..MaxLocks
         /\ held' \in [Threads -> [Mutexes -> 0..MaxLocks]]
         /\ held'[t][m] = lock_count[m] - 1
         /\ \A u \in Threads, n \in Mutexes : u # t \/ n # m => held'[u][n] = held[u][n]
<1>1. ~Receives(t, m)
  BY DEF Receives, Out
<1>2. held[t][m] = lock_count[m]
  BY <1>1 DEF MutexInv, HeldByOwner
<1>3. lock_count[m] \in 1..MaxLocks
  BY Types DEF MutexInv, CallsPlaced
<1>4. held[t][m] - 1 \in 0..MaxLocks
  BY <1>2, <1>3, Types
<1> QED
  BY <1>2, <1>3, <1>4, Types DEF OneLess

\* k_mutex_unlock() of a mutex that is locked more than once.
LEMMA NestedKeeps ==
  ASSUME MutexInv, NEW t \in Threads, NEW m \in Mutexes, call[t] = Out, owner[m] = t,
         lock_count[m] > 1, OneLess(t, m),
         lock_count' = [lock_count EXCEPT ![m] = @ - 1],
         UNCHANGED <<owner, owner_orig_prio>>,
         SchedTypeOK', call' \in [Threads -> Calls], Placed(waitq', pended_on'),
         \A u \in Threads : u # t => Untouched(u),
         call'[t].op \notin {"lock", "relock"}, ThreadPlaced(t)'
  PROVE  MutexInv'
<1>1. /\ held[t][m] = lock_count[m] /\ lock_count[m] \in 1..MaxLocks
      /\ held' \in [Threads -> [Mutexes -> 0..MaxLocks]]
      /\ held'[t][m] = lock_count[m] - 1
      /\ \A u \in Threads, n \in Mutexes : u # t \/ n # m => held'[u][n] = held[u][n]
  BY OwnerHolds
<1>2. /\ lock_count' \in [Mutexes -> 0..MaxLocks] /\ lock_count'[m] = lock_count[m] - 1
      /\ \A n \in Mutexes : n # m => lock_count'[n] = lock_count[n]
      /\ owner' = owner
  <2>1. lock_count[m] - 1 \in 0..MaxLocks
    BY <1>1, Types
  <2> QED
    BY <2>1, Types
<1>3. /\ \A n \in Mutexes : ~Receives(t, n) /\ ~Receives(t, n)'
      /\ \A u \in Threads, n \in Mutexes : u # t => (Receives(u, n)' <=> Receives(u, n))
  <2>1. call[t].op = "none"
    BY DEF Out
  <2>2. \A u \in Threads : u # t => call'[u] = call[u]
    BY DEF Untouched
  <2> QED
    BY <1>2, <2>1, <2>2 DEF Receives
<1>4. HeldByOwner'
  <2> SUFFICES ASSUME NEW u \in Threads, NEW n \in Mutexes
               PROVE  held'[u][n] = IF owner[n] = u /\ ~Receives(u, n)' THEN lock_count'[n] ELSE 0
    BY <1>2 DEF HeldByOwner
  <2>0. held[u][n] = IF owner[n] = u /\ ~Receives(u, n) THEN lock_count[n] ELSE 0
    BY DEF MutexInv, HeldByOwner
  <2>1. CASE u = t /\ n = m
    BY <1>1, <1>2, <1>3, <2>1
  <2>2. CASE u # t /\ n = m
    BY <1>1, <2>0, <2>2
  <2>3. CASE n # m
    BY <1>1, <1>2, <1>3, <2>0, <2>3
  <2> QED
    BY <2>1, <2>2, <2>3
<1>5. HandOverKnown'
  BY <1>2 DEF MutexInv, HandOverKnown, Untouched
<1>6. CallsPlaced'
  <2>1. ASSUME NEW u \in Threads, u # t PROVE ThreadPlaced(u)'
    <3>1. pended_on[u] = m => owner'[m] \notin {u, NONE}
      BY <1>2, Types DEF MutexInv, CallsPlaced, ThreadPlaced
    <3>2. lock_count'[m] <= lock_count[m] /\ Untouched(u)
      BY <1>1, <1>2, <2>1
    <3> QED
      BY <1>2, <3>1, <3>2, OthersPlaced DEF Untouched
  <2>2. \A n \in Mutexes : owner'[n] = NONE <=> lock_count'[n] = 0
    <3>1. lock_count'[m] # 0 /\ owner[m] # NONE
      BY <1>1, <1>2, Types
    <3> QED
      BY <1>2, <3>1 DEF MutexInv, CallsPlaced
  <2>3. ASSUME NEW u \in Threads, NEW n \in Mutexes, Receives(u, n)'
        PROVE  ready'[u] /\ lock_count'[n] = 1
    <3>1. u # t /\ Receives(u, n) /\ ready'[u] = ready[u]
      BY <1>3, <2>3 DEF Untouched
    <3>2. n # m
      BY <3>1 DEF Receives
    <3> QED
      BY <1>2, <3>1, <3>2 DEF MutexInv, CallsPlaced
  <2> QED
    BY <2>1, <2>2, <2>3 DEF CallsPlaced
<1> QED
  BY <1>1, <1>2, <1>4, <1>5, <1>6, Types, MutexInvNext DEF SchedTypeOK

\* The last unlock, with nobody waiting.
LEMMA ReleaseKeeps ==
  ASSUME MutexInv, NEW t \in Threads, NEW m \in Mutexes, call[t] = Out, owner[m] = t,
         lock_count[m] = 1, OneLess(t, m), Release(t, m),
         SchedTypeOK', call' \in [Threads -> Calls], Placed(waitq', pended_on'),
         \A u \in Threads : u # t => Untouched(u),
         call'[t].op \notin {"lock", "relock"}, ThreadPlaced(t)'
  PROVE  MutexInv'
<1>1. /\ held' \in [Threads -> [Mutexes -> 0..MaxLocks]]
      /\ held'[t][m] = 0
      /\ \A u \in Threads, n \in Mutexes : u # t \/ n # m => held'[u][n] = held[u][n]
  BY OwnerHolds
<1>2. /\ lock_count' \in [Mutexes -> 0..MaxLocks] /\ lock_count'[m] = 0
      /\ owner' \in [Mutexes -> Threads \cup {NONE}] /\ owner'[m] = NONE
      /\ owner_orig_prio' = owner_orig_prio
      /\ \A n \in Mutexes : n # m => lock_count'[n] = lock_count[n] /\ owner'[n] = owner[n]
  BY Types DEF Release
<1>3. \A u \in Threads : pended_on[u] # m
  BY Types DEF Release, Placed, IsIn
<1>4. /\ \A n \in Mutexes : ~Receives(t, n) /\ ~Receives(t, n)'
      /\ \A u \in Threads : ~Receives(u, m) /\ ~Receives(u, m)'
      /\ \A u \in Threads, n \in Mutexes : u # t => (Receives(u, n)' <=> Receives(u, n))
  <2>1. call[t].op = "none"
    BY DEF Out
  <2>2. \A u \in Threads : u # t => call'[u] = call[u]
    BY DEF Untouched
  <2>3. \A u \in Threads : owner'[m] # u /\ (Receives(u, m) => u = t)
    BY <1>2, Types DEF Receives
  <2> QED
    BY <1>2, <2>1, <2>2, <2>3 DEF Receives
<1>5. HeldByOwner'
  <2> SUFFICES ASSUME NEW u \in Threads, NEW n \in Mutexes
               PROVE  held'[u][n] = IF owner'[n] = u /\ ~Receives(u, n)' THEN lock_count'[n] ELSE 0
    BY DEF HeldByOwner
  <2>0. held[u][n] = IF owner[n] = u /\ ~Receives(u, n) THEN lock_count[n] ELSE 0
    BY DEF MutexInv, HeldByOwner
  <2>1. CASE u = t /\ n = m
    BY <1>1, <1>2, <2>1
  <2>2. CASE u # t /\ n = m
    BY <1>1, <1>2, <2>0, <2>2
  <2>3. CASE n # m
    BY <1>1, <1>2, <1>4, <2>0, <2>3
  <2> QED
    BY <2>1, <2>2, <2>3
<1>6. HandOverKnown'
  <2> SUFFICES ASSUME NEW u \in Threads, call'[u].op \in {"lock", "relock"}, ready'[u]
               PROVE  swap_retval'[u] = "0" <=> owner'[call'[u].m] = u
    BY DEF HandOverKnown
  <2>1. u # t /\ Untouched(u)
    OBVIOUS
  <2>2. call[u].m \in Mutexes /\ (swap_retval[u] = "0" <=> owner[call[u].m] = u)
    BY <2>1, Types DEF MutexInv, HandOverKnown, Calls, Out, Untouched
  <2>3. owner'[call[u].m] = u <=> owner[call[u].m] = u
    BY <1>2, <2>1, <2>2, Types
  <2> QED
    BY <2>1, <2>2, <2>3 DEF Untouched
<1>7. CallsPlaced'
  <2>1. ASSUME NEW u \in Threads, u # t PROVE ThreadPlaced(u)'
    <3>1. Untouched(u) /\ owner'[m] # u
      BY <1>2, <2>1, Types
    <3> QED
      BY <1>2, <1>3, <3>1, OthersPlaced DEF Untouched
  <2>2. \A n \in Mutexes : owner'[n] = NONE <=> lock_count'[n] = 0
    BY <1>2 DEF MutexInv, CallsPlaced
  <2>3. ASSUME NEW u \in Threads, NEW n \in Mutexes, Receives(u, n)'
        PROVE  ready'[u] /\ lock_count'[n] = 1
    <3>1. u # t /\ Receives(u, n) /\ n # m /\ ready'[u] = ready[u]
      BY <1>4, <2>3 DEF Untouched
    <3> QED
      BY <1>2, <3>1 DEF MutexInv, CallsPlaced
  <2> QED
    BY <2>1, <2>2, <2>3 DEF CallsPlaced
<1> QED
  BY <1>1, <1>2, <1>5, <1>6, <1>7, Types, MutexInvNext DEF SchedTypeOK

\* The last unlock hands the mutex to the first waiter, which is told so.
LEMMA HandOverKeeps ==
  ASSUME MutexInv, NEW t \in Threads, NEW m \in Mutexes, call[t] = Out, owner[m] = t,
         lock_count[m] = 1, OneLess(t, m), HandOver(t, m),
         SchedTypeOK', call' \in [Threads -> Calls], Placed(waitq', pended_on'),
         NEW new \in Threads, new = Head(waitq[m]), pended_on[new] = m,
         firing = NONE, firing' = NONE,
         pended_on'[new] = NONE, linked'[new] = FALSE, ready'[new] = TRUE,
         swap_retval'[new] = "0", call'[new] = call[new],
         \A u \in Threads : u \notin {t, new} => Untouched(u),
         call'[t].op \notin {"lock", "relock"}, ThreadPlaced(t)'
  PROVE  MutexInv'
<1>1. /\ held' \in [Threads -> [Mutexes -> 0..MaxLocks]]
      /\ held'[t][m] = 0
      /\ \A u \in Threads, n \in Mutexes : u # t \/ n # m => held'[u][n] = held[u][n]
  BY OwnerHolds
<1>2. /\ lock_count' = lock_count
      /\ owner' \in [Mutexes -> Threads \cup {NONE}] /\ owner'[m] = new
      /\ \A n \in Mutexes : n # m => owner'[n] = owner[n]
  BY Types DEF HandOver
<1>3. owner_orig_prio' \in [Mutexes -> Int]
  <2>1. Restored(t, m)[new] \in Int
    BY RestoredType
  <2> QED
    BY <2>1, Types DEF HandOver
<1>4. /\ new # t /\ call[new].op \in {"lock", "relock"} /\ call[new].m = m
      /\ call[t].op = "none"
  BY Types DEF MutexInv, CallsPlaced, ThreadPlaced, Out
<1>5. /\ \A n \in Mutexes : ~Receives(t, n) /\ ~Receives(t, n)'
      /\ \A n \in Mutexes : ~Receives(new, n) /\ (Receives(new, n)' <=> n = m)
      /\ \A u \in Threads : u # new => ~Receives(u, m) /\ ~Receives(u, m)'
      /\ \A u \in Threads, n \in Mutexes : n # m => (Receives(u, n)' <=> Receives(u, n))
  <2>1. \A u \in Threads : u # t => call'[u] = call[u]
    BY DEF Untouched
  <2> QED
    BY <1>2, <1>4, <2>1 DEF Receives
<1>6. HeldByOwner'
  <2> SUFFICES ASSUME NEW u \in Threads, NEW n \in Mutexes
               PROVE  held'[u][n] = IF owner'[n] = u /\ ~Receives(u, n)' THEN lock_count[n] ELSE 0
    BY <1>2 DEF HeldByOwner
  <2>0. held[u][n] = IF owner[n] = u /\ ~Receives(u, n) THEN lock_count[n] ELSE 0
    BY DEF MutexInv, HeldByOwner
  <2>1. CASE u = t /\ n = m
    BY <1>1, <1>2, <1>4, <2>1
  <2>2. CASE u = new /\ n = m
    BY <1>1, <1>4, <1>5, <2>0, <2>2
  <2>3. CASE u \notin {t, new} /\ n = m
    BY <1>1, <1>2, <2>0, <2>3
  <2>4. CASE n # m
    BY <1>1, <1>2, <1>5, <2>0, <2>4
  <2> QED
    BY <2>1, <2>2, <2>3, <2>4
<1>7. HandOverKnown'
  <2> SUFFICES ASSUME NEW u \in Threads, call'[u].op \in {"lock", "relock"}, ready'[u]
               PROVE  swap_retval'[u] = "0" <=> owner'[call'[u].m] = u
    BY DEF HandOverKnown
  <2>1. CASE u = new
    BY <1>2, <1>4, <2>1
  <2>2. CASE u # new
    <3>1. u # t /\ Untouched(u)
      BY <2>2
    <3>2. call[u].m \in Mutexes /\ (swap_retval[u] = "0" <=> owner[call[u].m] = u)
      BY <3>1, Types DEF MutexInv, HandOverKnown, Calls, Out, Untouched
    <3>3. owner'[call[u].m] = u <=> owner[call[u].m] = u
      BY <1>2, <2>2, <3>1, <3>2
    <3> QED
      BY <3>1, <3>2, <3>3 DEF Untouched
  <2> QED
    BY <2>1, <2>2
<1>8. CallsPlaced'
  <2>1. ASSUME NEW u \in Threads, u # t PROVE ThreadPlaced(u)'
    <3>1. CASE u = new
      BY <1>4, <3>1, Types DEF ThreadPlaced
    <3>2. CASE u # new
      <4>1. Untouched(u) /\ owner'[m] # u
        BY <1>2, <2>1, <3>2
      <4>2. owner'[m] \notin {u, NONE} /\ lock_count' \in [Mutexes -> 0..MaxLocks]
        BY <1>2, <4>1, Types
      <4> QED
        BY <1>2, <4>1, <4>2, OthersPlaced DEF Untouched
    <3> QED
      BY <3>1, <3>2
  <2>2. \A n \in Mutexes : owner'[n] = NONE <=> lock_count'[n] = 0
    <3>1. owner'[m] # NONE /\ lock_count'[m] # 0
      BY <1>2, Types
    <3> QED
      BY <1>2, <3>1 DEF MutexInv, CallsPlaced
  <2>3. ASSUME NEW u \in Threads, NEW n \in Mutexes, Receives(u, n)'
        PROVE  ready'[u] /\ lock_count'[n] = 1
    <3>1. CASE u = new
      BY <1>2, <1>5, <2>3, <3>1
    <3>2. CASE u # new
      <4>1. u # t /\ n # m
        BY <1>5, <2>3, <3>2
      <4>2. Receives(u, n) /\ ready'[u] = ready[u]
        BY <1>5, <2>3, <3>2, <4>1 DEF Untouched
      <4> QED
        BY <1>2, <4>2 DEF MutexInv, CallsPlaced
    <3> QED
      BY <3>1, <3>2
  <2> QED
    BY <2>1, <2>2, <2>3 DEF CallsPlaced
<1> QED
  BY <1>1, <1>2, <1>3, <1>6, <1>7, <1>8, Types, MutexInvNext DEF SchedTypeOK

\* k_mutex_unlock().
LEMMA UnlockInv ==
  ASSUME MutexInv, NEW t \in Threads, NEW m \in Mutexes, Unlock(t, m)
  PROVE  MutexInv'
<1>0. /\ ready[t] /\ firing = NONE /\ call[t] = Out /\ owner[m] = t /\ OneLess(t, m)
      /\ call' = call /\ pended_on[t] = NONE /\ linked[t] = FALSE /\ m \in WaitQs
  BY Types DEF Unlock, Running, OneLess, MutexInv, CallsPlaced, ThreadPlaced
<1>1. call[t].op = "none" /\ call' \in [Threads -> Calls]
  BY <1>0, Types DEF Out
<1>2. CASE /\ lock_count[m] > 1
           /\ lock_count' = [lock_count EXCEPT ![m] = @ - 1]
           /\ UNCHANGED <<schedVars, owner, owner_orig_prio>>
  <2>1. SchedTypeOK' /\ Placed(waitq', pended_on')
    BY <1>2, Types DEF MutexInv, TypeOK, SchedTypeOK, schedVars
  <2>2. ThreadPlaced(t)' /\ \A u \in Threads : Untouched(u)
    BY <1>0, <1>1, <1>2, Types DEF ThreadPlaced, Untouched, schedVars
  <2> QED
    BY <1>0, <1>1, <1>2, <2>1, <2>2, NestedKeeps
<1>3. CASE /\ lock_count[m] = 1
           /\ Release(t, m)
           /\ prio' = Restored(t, m)
           /\ UNCHANGED <<waitq, pended_on, linked, firing, ready, swap_retval>>
  <2>1. SchedTypeOK' /\ Placed(waitq', pended_on')
    BY <1>3, Types, RestoredType DEF SchedTypeOK
  <2>2. ThreadPlaced(t)' /\ \A u \in Threads : Untouched(u)
    BY <1>0, <1>1, <1>3, Types DEF ThreadPlaced, Untouched
  <2> QED
    BY <1>0, <1>1, <1>3, <2>1, <2>2, ReleaseKeeps
<1>4. CASE /\ lock_count[m] = 1
           /\ HandOver(t, m)
           /\ prio' = Restored(t, m)
           /\ UnpendFirst(m)
           /\ swap_retval' = [swap_retval EXCEPT ![Head(waitq[m])] = "0"]
           /\ ready' = Readied(Head(waitq[m]), pended_on', linked')
           /\ UNCHANGED firing
  <2> DEFINE new == Head(waitq[m])
  <2>1. waitq[m] # <<>> /\ waitq' = [waitq EXCEPT ![m] = Tail(@)]
        /\ pended_on' = [pended_on EXCEPT ![new] = NONE]
        /\ linked' = [linked EXCEPT ![new] = FALSE]
    BY <1>4 DEF HandOver, UnpendFirst, Unlinked
  <2>2. /\ new \in Threads /\ pended_on[new] = m
        /\ waitq' \in [WaitQs -> Seq(Threads)] /\ pended_on' \in [Threads -> WaitQs \cup {NONE}]
        /\ Placed(waitq', pended_on')
    <3>1. /\ waitq \in [WaitQs -> Seq(Threads)] /\ pended_on \in [Threads -> WaitQs \cup {NONE}]
          /\ Placed(waitq, pended_on) /\ m \in WaitQs /\ waitq[m] # <<>>
      BY <1>0, <2>1, Types
    <3> DEFINE w2 == [waitq EXCEPT ![m] = Tail(@)]
               po2 == [pended_on EXCEPT ![new] = NONE]
    <3>2. /\ new \in Threads /\ pended_on[new] = m
          /\ w2 \in [WaitQs -> Seq(Threads)] /\ po2 \in [Threads -> WaitQs \cup {NONE}]
          /\ Placed(w2, po2)
      BY <3>1, PlacedTail
    <3>3. waitq' = w2 /\ pended_on' = po2
      BY <2>1
    <3> HIDE DEF w2, po2, new
    <3> QED
      BY <3>2, <3>3
  <2>3. /\ swap_retval' = [swap_retval EXCEPT ![new] = "0"]
        /\ ready' = [ready EXCEPT ![new] = @ \/ (pended_on'[new] = NONE /\ ~linked'[new])]
        /\ firing' = NONE
    BY <1>0, <1>4 DEF Readied
  <2> HIDE DEF new
  <2>4. /\ pended_on'[new] = NONE /\ linked'[new] = FALSE /\ swap_retval'[new] = "0"
        /\ linked' \in [Threads -> BOOLEAN]
        /\ swap_retval' \in [Threads -> {"0", "EAGAIN", "ENOMSG"}]
    BY <2>1, <2>2, <2>3, Types
  <2>5. ready'[new] = TRUE /\ ready' \in [Threads -> BOOLEAN]
    BY <2>2, <2>3, <2>4, Types
  <2>6. \A u \in Threads : u # new => Untouched(u)
    BY <1>0, <2>1, <2>3, Types DEF Untouched
  <2>7. SchedTypeOK'
    BY <1>4, <2>2, <2>3, <2>4, <2>5, RestoredType DEF SchedTypeOK
  <2>8. new # t
    BY <1>0, <2>2, Types
  <2>9. ThreadPlaced(t)'
    <3>1. Untouched(t) /\ call'[t].op = "none"
      BY <1>0, <1>1, <2>6, <2>8
    <3> QED
      BY <1>0, <2>3, <3>1, Types DEF ThreadPlaced, Untouched
  <2>10. lock_count[m] = 1 /\ HandOver(t, m) /\ new = Head(waitq[m])
    BY <1>4 DEF new
  <2>11. /\ \A u \in Threads : u \notin {t, new} => Untouched(u)
         /\ call'[new] = call[new] /\ call'[t].op \notin {"lock", "relock"}
    <3>1. call' = call /\ call[t].op = "none"
      BY <1>0, <1>1
    <3> QED
      BY <2>6, <3>1
  <2>12. /\ call[t] = Out /\ owner[m] = t /\ OneLess(t, m) /\ call' \in [Threads -> Calls]
         /\ firing = NONE /\ firing' = NONE
    BY <1>0, <1>1, <2>3
  <2>13. /\ new \in Threads /\ pended_on[new] = m /\ Placed(waitq', pended_on')
         /\ pended_on'[new] = NONE /\ linked'[new] = FALSE /\ ready'[new] = TRUE
         /\ swap_retval'[new] = "0"
    BY <2>2, <2>4, <2>5
  <2> QED
    BY <2>7, <2>9, <2>10, <2>11, <2>12, <2>13, HandOverKeeps
<1> QED
  BY <1>2, <1>3, <1>4 DEF Unlock

\* k_condvar_wait() up to the wait: whatever k_mutex_unlock() does, and the
\* thread pends on the condition variable.
LEMMA CondWaitInv ==
  ASSUME MutexInv, NEW t \in Threads, NEW m \in Mutexes, NEW cv \in CondVars,
         NEW timed \in BOOLEAN, CondWait(t, cv, m, timed)
  PROVE  MutexInv'
<1> DEFINE w == [op |-> "wait", m |-> m, cv |-> cv]
<1>0. /\ ready[t] /\ firing = NONE /\ firing' = NONE /\ call[t] = Out /\ owner[m] = t
      /\ OneLess(t, m) /\ call' = [call EXCEPT ![t] = w]
      /\ pended_on[t] = NONE /\ m \in WaitQs /\ cv \in WaitQs /\ cv # m /\ cv \notin Mutexes
      /\ cv # NONE
  BY Types DEF CondWait, Running, OneLess, MutexInv, CallsPlaced, ThreadPlaced
<1>1. /\ call' \in [Threads -> Calls] /\ call'[t] = w
      /\ \A u \in Threads : u # t => call'[u] = call[u]
  <2>1. w \in Calls
    BY DEF Calls
  <2> QED
    BY <1>0, <2>1, Types
<1>2. call'[t].op = "wait" /\ call'[t].m = m
  BY <1>1
<1> HIDE DEF w
\* The thread is in place once it is on the queue of cv.
<1>3. ASSUME pended_on'[t] = cv, ready'[t] = FALSE, linked'[t] = timed,
             owner'[m] = t => lock_count'[m] < MaxLocks
      PROVE  ThreadPlaced(t)'
  BY <1>0, <1>2, <1>3, Types DEF ThreadPlaced
\* Pending with the priorities p.
<1>4. ASSUME NEW p \in [Threads -> Int], Pend(t, cv, timed, p), prio' = p
      PROVE  /\ SchedTypeOK' /\ Placed(waitq', pended_on')
             /\ pended_on'[t] = cv /\ ready'[t] = FALSE /\ linked'[t] = timed
             /\ \A u \in Threads : u # t => Untouched(u)
  <2>1. /\ waitq' = [waitq EXCEPT ![cv] = Inserted(@, p, t)]
        /\ pended_on' = [pended_on EXCEPT ![t] = cv] /\ linked' = [linked EXCEPT ![t] = timed]
        /\ ready' = [ready EXCEPT ![t] = FALSE]
        /\ swap_retval' = [swap_retval EXCEPT ![t] = "EAGAIN"]
    BY <1>4 DEF Pend
  <2>2. /\ waitq' \in [WaitQs -> Seq(Threads)] /\ pended_on' \in [Threads -> WaitQs \cup {NONE}]
        /\ Placed(waitq', pended_on')
    <3> DEFINE w2 == [waitq EXCEPT ![cv] = Inserted(@, p, t)]
               po2 == [pended_on EXCEPT ![t] = cv]
    <3>1. /\ waitq \in [WaitQs -> Seq(Threads)] /\ pended_on \in [Threads -> WaitQs \cup {NONE}]
          /\ Placed(waitq, pended_on) /\ pended_on[t] = NONE /\ cv \in WaitQs
      BY <1>0, Types
    <3>2. /\ w2 \in [WaitQs -> Seq(Threads)] /\ po2 \in [Threads -> WaitQs \cup {NONE}]
          /\ Placed(w2, po2)
      BY <3>1, PlacedInsert
    <3>3. waitq' = w2 /\ pended_on' = po2
      BY <2>1
    <3> HIDE DEF w2, po2
    <3> QED
      BY <3>2, <3>3
  <2>3. /\ linked' \in [Threads -> BOOLEAN] /\ ready' \in [Threads -> BOOLEAN]
        /\ swap_retval' \in [Threads -> {"0", "EAGAIN", "ENOMSG"}]
        /\ pended_on'[t] = cv /\ ready'[t] = FALSE /\ linked'[t] = timed
    BY <2>1, Types
  <2>4. \A u \in Threads : u # t => Untouched(u)
    BY <1>0, <1>1, <2>1, Types DEF Untouched
  <2>5. SchedTypeOK'
    BY <1>0, <1>4, <2>2, <2>3 DEF SchedTypeOK
  <2> QED
    BY <2>2, <2>3, <2>4, <2>5
<1>5. CASE /\ lock_count[m] > 1
           /\ lock_count' = [lock_count EXCEPT ![m] = @ - 1]
           /\ Pend(t, cv, timed, prio)
           /\ UNCHANGED <<prio, owner, owner_orig_prio>>
  <2>1. /\ SchedTypeOK' /\ Placed(waitq', pended_on')
        /\ pended_on'[t] = cv /\ ready'[t] = FALSE /\ linked'[t] = timed
        /\ \A u \in Threads : u # t => Untouched(u)
    BY <1>4, <1>5, Types
  <2>2. lock_count'[m] < MaxLocks
    BY <1>5, Types
  <2>3. ThreadPlaced(t)'
    BY <1>3, <2>1, <2>2
  <2> QED
    BY <1>0, <1>1, <1>2, <1>5, <2>1, <2>3, NestedKeeps
<1>6. CASE /\ lock_count[m] = 1
           /\ Release(t, m)
           /\ prio' = Restored(t, m)
           /\ Pend(t, cv, timed, Restored(t, m))
  <2>1. /\ SchedTypeOK' /\ Placed(waitq', pended_on')
        /\ pended_on'[t] = cv /\ ready'[t] = FALSE /\ linked'[t] = timed
        /\ \A u \in Threads : u # t => Untouched(u)
    BY <1>4, <1>6, RestoredType
  <2>2. owner'[m] # t
    BY <1>6, Types DEF Release
  <2>3. ThreadPlaced(t)'
    BY <1>3, <2>1, <2>2
  <2> QED
    BY <1>0, <1>1, <1>2, <1>6, <2>1, <2>3, ReleaseKeeps
<1>7. CASE /\ lock_count[m] = 1
           /\ HandOver(t, m)
           /\ prio' = Restored(t, m)
           /\ waitq' = [waitq EXCEPT ![m] = Tail(@), ![cv] = Inserted(@, Restored(t, m), t)]
           /\ pended_on' = [pended_on EXCEPT ![Head(waitq[m])] = NONE, ![t] = cv]
           /\ linked' = [Unlinked(Head(waitq[m])) EXCEPT ![t] = timed]
           /\ ready' = [Readied(Head(waitq[m]), pended_on', linked') EXCEPT ![t] = FALSE]
           /\ swap_retval' = [swap_retval EXCEPT ![Head(waitq[m])] = "0", ![t] = "EAGAIN"]
  <2> DEFINE new == Head(waitq[m])
             p == Restored(t, m)
             w1 == [waitq EXCEPT ![m] = Tail(@)]
             po1 == [pended_on EXCEPT ![new] = NONE]
             w2 == [w1 EXCEPT ![cv] = Inserted(@, p, t)]
             po2 == [po1 EXCEPT ![t] = cv]
  <2>1. /\ waitq[m] # <<>> /\ owner'[m] = new
    BY <1>7, Types DEF HandOver
  <2>2. /\ new \in Threads /\ pended_on[new] = m
        /\ w1 \in [WaitQs -> Seq(Threads)] /\ po1 \in [Threads -> WaitQs \cup {NONE}]
        /\ Placed(w1, po1)
    BY <1>0, <2>1, Types, PlacedTail
  <2>3. new # t /\ po1[t] = NONE /\ p \in [Threads -> Int]
    BY <1>0, <2>2, Types, RestoredType
  <2>4. waitq' = w2 /\ pended_on' = po2
    BY <1>0, <1>7, Types
  <2>5. /\ linked' = [[linked EXCEPT ![new] = FALSE] EXCEPT ![t] = timed]
        /\ ready' = [[ready EXCEPT ![new] = @ \/ (pended_on'[new] = NONE /\ ~linked'[new])]
                       EXCEPT ![t] = FALSE]
        /\ swap_retval' = [swap_retval EXCEPT ![new] = "0", ![t] = "EAGAIN"]
        /\ prio' = p
    BY <1>7 DEF Unlinked, Readied
  <2>6. pended_on'[new] = NONE /\ pended_on'[t] = cv
        /\ \A u \in Threads : u \notin {t, new} => pended_on'[u] = pended_on[u]
    BY <2>2, <2>3, <2>4, Types
  <2>7. w2 \in [WaitQs -> Seq(Threads)] /\ po2 \in [Threads -> WaitQs \cup {NONE}]
        /\ Placed(w2, po2)
    <3> HIDE DEF w1, po1, p
    <3> QED
      BY <1>0, <2>2, <2>3, PlacedInsert
  <2> HIDE DEF new, p, w1, po1, w2, po2
  <2>8. linked'[new] = FALSE /\ linked'[t] = timed /\ linked' \in [Threads -> BOOLEAN]
        /\ \A u \in Threads : u \notin {t, new} => linked'[u] = linked[u]
    BY <2>2, <2>3, <2>5, Types
  <2>9. ready'[new] = TRUE /\ ready'[t] = FALSE /\ ready' \in [Threads -> BOOLEAN]
        /\ \A u \in Threads : u \notin {t, new} => ready'[u] = ready[u]
    BY <2>2, <2>3, <2>5, <2>6, <2>8, Types
  <2>10. swap_retval'[new] = "0" /\ swap_retval' \in [Threads -> {"0", "EAGAIN", "ENOMSG"}]
         /\ \A u \in Threads : u \notin {t, new} => swap_retval'[u] = swap_retval[u]
    BY <2>2, <2>3, <2>5, Types
  <2>11. /\ \A u \in Threads : u \notin {t, new} => Untouched(u)
         /\ call'[new] = call[new] /\ call'[t].op \notin {"lock", "relock"}
    BY <1>0, <1>1, <1>2, <2>2, <2>3, <2>6, <2>8, <2>9, <2>10 DEF Untouched
  <2>12. SchedTypeOK' /\ Placed(waitq', pended_on')
    BY <1>0, <2>3, <2>4, <2>5, <2>7, <2>8, <2>9, <2>10 DEF SchedTypeOK
  <2>13. ThreadPlaced(t)'
    BY <1>3, <2>1, <2>3, <2>6, <2>8, <2>9
  <2>14. lock_count[m] = 1 /\ HandOver(t, m) /\ new = Head(waitq[m])
    BY <1>7 DEF new
  <2>15. /\ call' \in [Threads -> Calls] /\ new \in Threads /\ pended_on[new] = m
         /\ pended_on'[new] = NONE /\ linked'[new] = FALSE /\ ready'[new] = TRUE
         /\ swap_retval'[new] = "0"
    BY <1>1, <2>2, <2>6, <2>8, <2>9, <2>10
  <2>16. call[t] = Out /\ owner[m] = t /\ OneLess(t, m) /\ firing = NONE /\ firing' = NONE
    BY <1>0
  <2> QED
    BY <2>11, <2>12, <2>13, <2>14, <2>15, <2>16, HandOverKeeps
<1> QED
  BY <1>5, <1>6, <1>7 DEF CondWait

\* The rest of k_condvar_wait(): the mutex is locked again, at once or after
\* a wait that no timeout ends.
LEMMA CondReturnInv ==
  ASSUME MutexInv, NEW t \in Threads, CondReturn(t)
  PROVE  MutexInv'
<1> DEFINE m == call[t].m
<1>0. ready[t] /\ firing = NONE /\ call[t].op = "wait" /\ m \in Mutexes
  BY Types DEF CondReturn, Running, Calls, Out
<1>1. CASE Free(t, m)
  <2>1. LockTake(t, m) /\ call' = [call EXCEPT ![t] = Out] /\ UNCHANGED schedVars
    BY <1>1 DEF CondReturn
  <2>2. lock_count[m] < MaxLocks
    BY <1>0, <1>1, Types DEF Free, MutexInv, CallsPlaced, ThreadPlaced
  <2>3. held[t][m] < MaxLocks
    <3>1. held[t][m] \in {0, lock_count[m]}
      BY <1>0 DEF MutexInv, HeldByOwner
    <3> QED
      BY <2>2, <3>1, Types
  <2> HIDE DEF m
  <2> QED
    BY <1>0, <1>1, <2>1, <2>2, <2>3, TakeKeeps
<1>2. CASE ~Free(t, m)
  <2>1. /\ LockPend(t, m, FALSE) /\ call' = [call EXCEPT ![t] = [op |-> "relock", m |-> m]]
        /\ UNCHANGED <<firing, mutexVars, held>>
    BY <1>2 DEF CondReturn
  <2> HIDE DEF m
  <2> QED
    BY <1>0, <1>2, <2>1, WaitKeeps
<1> QED
  BY <1>1, <1>2

\* A step that leaves the mutexes and the calls alone.
LEMMA MutexesSame ==
  ASSUME MutexInv, UNCHANGED <<mutexVars, call, held>>, SchedTypeOK',
         Placed(waitq', pended_on'), \A u \in Threads : ThreadPlaced(u)',
         \A u \in Threads : ready[u] => ready'[u] /\ swap_retval'[u] = swap_retval[u],
         \A u \in Threads : ready'[u] /\ ~ready[u] /\ call[u].op \in {"lock", "relock"} =>
           swap_retval'[u] # "0" /\ owner[call[u].m] # u
  PROVE  MutexInv'
<1>1. owner' = owner /\ lock_count' = lock_count /\ owner_orig_prio' = owner_orig_prio
      /\ call' = call /\ held' = held
  BY DEF mutexVars
<1>2. \A u \in Threads, n \in Mutexes : Receives(u, n)' <=> Receives(u, n)
  BY <1>1 DEF Receives
<1>3. HeldByOwner'
  BY <1>1, <1>2 DEF MutexInv, HeldByOwner
<1>4. HandOverKnown'
  BY <1>1 DEF MutexInv, HandOverKnown
<1>5. CallsPlaced'
  BY <1>1, <1>2 DEF MutexInv, CallsPlaced
<1> QED
  BY <1>1, <1>3, <1>4, <1>5, Types, MutexInvNext DEF SchedTypeOK

\* k_condvar_signal() readies the first waiter, which then locks the mutex.
LEMMA SignalInv ==
  ASSUME MutexInv, NEW cv \in CondVars, Signal(cv)
  PROVE  MutexInv'
<1> DEFINE t == Head(waitq[cv])
           w2 == [waitq EXCEPT ![cv] = Tail(@)]
           po2 == [pended_on EXCEPT ![t] = NONE]
<1>0. /\ cv \in WaitQs /\ cv \notin Mutexes /\ firing = NONE /\ firing' = NONE /\ prio' = prio
      /\ waitq[cv] # <<>> /\ UNCHANGED <<mutexVars, call, held>>
  BY Types DEF Signal
<1>1. /\ waitq' = w2 /\ pended_on' = po2 /\ linked' = [linked EXCEPT ![t] = FALSE]
      /\ swap_retval' = [swap_retval EXCEPT ![t] = "0"]
      /\ ready' = [ready EXCEPT ![t] = @ \/ (pended_on'[t] = NONE /\ ~linked'[t])]
  BY DEF Signal, UnpendFirst, Unlinked, Readied
<1>2. /\ t \in Threads /\ pended_on[t] = cv
      /\ w2 \in [WaitQs -> Seq(Threads)] /\ po2 \in [Threads -> WaitQs \cup {NONE}]
      /\ Placed(w2, po2)
  BY <1>0, Types, PlacedTail
<1>3. pended_on'[t] = NONE /\ \A u \in Threads : u # t => pended_on'[u] = pended_on[u]
  BY <1>1, <1>2, Types
<1> HIDE DEF t, w2, po2
<1>4. linked'[t] = FALSE /\ linked' \in [Threads -> BOOLEAN]
      /\ \A u \in Threads : u # t => linked'[u] = linked[u]
  BY <1>1, <1>2, Types
<1>5. ready'[t] = TRUE /\ ready' \in [Threads -> BOOLEAN]
      /\ \A u \in Threads : u # t => ready'[u] = ready[u]
  BY <1>1, <1>2, <1>3, <1>4, Types
<1>6. /\ swap_retval' \in [Threads -> {"0", "EAGAIN", "ENOMSG"}]
      /\ \A u \in Threads : u # t => swap_retval'[u] = swap_retval[u]
  BY <1>1, <1>2, Types
<1>7. SchedTypeOK' /\ Placed(waitq', pended_on')
  BY <1>0, <1>1, <1>2, <1>4, <1>5, <1>6, Types DEF SchedTypeOK
<1>8. call[t].op = "wait" /\ ~ready[t]
  BY <1>0, <1>2, Types DEF MutexInv, CallsPlaced, ThreadPlaced
<1>9. ASSUME NEW u \in Threads PROVE ThreadPlaced(u)'
  <2>0. ThreadPlaced(u)
    BY DEF MutexInv, CallsPlaced
  <2>1. CASE u = t
    BY <1>0, <1>3, <1>4, <1>5, <1>8, <2>0, <2>1, Types DEF ThreadPlaced, mutexVars
  <2>2. CASE u # t
    BY <1>0, <1>3, <1>4, <1>5, <1>6, <2>0, <2>2 DEF ThreadPlaced, mutexVars
  <2> QED
    BY <2>1, <2>2
<1>10. /\ \A u \in Threads : ready[u] => ready'[u] /\ swap_retval'[u] = swap_retval[u]
       /\ \A u \in Threads : ready'[u] /\ ~ready[u] => call[u].op = "wait"
  BY <1>5, <1>6, <1>8
<1> QED
  BY <1>0, <1>7, <1>9, <1>10, MutexesSame

\* k_condvar_broadcast() readies all the waiters.
LEMMA BroadcastInv ==
  ASSUME MutexInv, NEW cv \in CondVars, Broadcast(cv)
  PROVE  MutexInv'
<1>0. /\ cv \in WaitQs /\ cv \notin Mutexes /\ cv # NONE /\ firing = NONE /\ firing' = NONE
      /\ prio' = prio /\ UNCHANGED <<mutexVars, call, held>>
  BY Types DEF Broadcast
<1>1. /\ waitq' = [waitq EXCEPT ![cv] = <<>>]
      /\ pended_on' = [u \in Threads |-> IF pended_on[u] = cv THEN NONE ELSE pended_on[u]]
      /\ linked' = [u \in Threads |-> linked[u] /\ pended_on[u] # cv]
      /\ swap_retval' = [u \in Threads |-> IF pended_on[u] = cv THEN "0" ELSE swap_retval[u]]
      /\ ready' = [u \in Threads |-> ready[u] \/ (pended_on[u] = cv /\ ~linked'[u])]
  BY DEF Broadcast, Untimed
<1>2. ASSUME NEW u \in Threads, pended_on[u] = cv
      PROVE  /\ pended_on'[u] = NONE /\ linked'[u] = FALSE /\ ready'[u] = TRUE
             /\ call[u].op = "wait" /\ ~ready[u]
  <2>1. pended_on'[u] = NONE /\ linked'[u] = FALSE
    BY <1>1, <1>2
  <2>2. ready'[u] = TRUE
    BY <1>1, <1>2, <2>1
  <2>3. call[u].op = "wait" /\ ~ready[u]
    BY <1>0, <1>2 DEF MutexInv, CallsPlaced, ThreadPlaced
  <2> QED
    BY <2>1, <2>2, <2>3
<1>3. ASSUME NEW u \in Threads, pended_on[u] # cv
      PROVE  /\ pended_on'[u] = pended_on[u] /\ linked'[u] = linked[u] /\ ready'[u] = ready[u]
             /\ swap_retval'[u] = swap_retval[u]
  BY <1>1, <1>3, Types
<1>4. SchedTypeOK'
  <2>1. waitq' \in [WaitQs -> Seq(Threads)]
    BY <1>0, <1>1, Types
  <2>2. pended_on' \in [Threads -> WaitQs \cup {NONE}]
    BY <1>1, Types
  <2>3. linked' \in [Threads -> BOOLEAN] /\ ready' \in [Threads -> BOOLEAN]
    BY <1>1, Types
  <2>4. swap_retval' \in [Threads -> {"0", "EAGAIN", "ENOMSG"}]
    BY <1>1, Types
  <2> QED
    BY <1>0, <2>1, <2>2, <2>3, <2>4, Types DEF SchedTypeOK
<1>5. Placed(waitq', pended_on')
  <2> SUFFICES ASSUME NEW q \in WaitQs, NEW u \in Threads
               PROVE  (IsIn(waitq'[q], u) <=> pended_on'[u] = q) /\ Once(waitq'[q], u)
    BY DEF Placed
  <2>1. (IsIn(waitq[q], u) <=> pended_on[u] = q) /\ Once(waitq[q], u)
    BY DEF MutexInv, PendedIsQueued
  <2>2. CASE q = cv
    <3>1. waitq'[q] = <<>>
      BY <1>0, <1>1, <2>2, Types
    <3>2. ~IsIn(<<>>, u) /\ Once(<<>>, u)
      BY DEF IsIn, Once
    <3>3. pended_on'[u] # q
      BY <1>0, <1>2, <1>3, <2>2
    <3> QED
      BY <3>1, <3>2, <3>3
  <2>3. CASE q # cv
    <3>1. waitq'[q] = waitq[q]
      BY <1>0, <1>1, <2>3, Types
    <3>2. pended_on'[u] = q <=> pended_on[u] = q
      BY <1>0, <1>2, <1>3, <2>3, Types
    <3> QED
      BY <2>1, <3>1, <3>2
  <2> QED
    BY <2>2, <2>3
<1>6. ASSUME NEW u \in Threads PROVE ThreadPlaced(u)'
  <2>0. ThreadPlaced(u)
    BY DEF MutexInv, CallsPlaced
  <2>1. CASE pended_on[u] = cv
    BY <1>0, <1>2, <2>0, <2>1, Types DEF ThreadPlaced, mutexVars
  <2>2. CASE pended_on[u] # cv
    BY <1>0, <1>3, <2>0, <2>2 DEF ThreadPlaced, mutexVars
  <2> QED
    BY <2>1, <2>2
<1>7. /\ \A u \in Threads : ready[u] => ready'[u] /\ swap_retval'[u] = swap_retval[u]
      /\ \A u \in Threads : ready'[u] /\ ~ready[u] => call[u].op = "wait"
  BY <1>2, <1>3
<1> QED
  BY <1>0, <1>4, <1>5, <1>6, <1>7, MutexesSame

\* A timeout expires: its thread is pended until the callback has run.
LEMMA ExpireInv ==
  ASSUME MutexInv, NEW t \in Threads, Expire(t)
  PROVE  MutexInv'
<1>0. /\ firing = NONE /\ linked[t] /\ linked' = [linked EXCEPT ![t] = FALSE] /\ firing' = t
      /\ prio' = prio /\ waitq' = waitq /\ pended_on' = pended_on /\ ready' = ready
      /\ swap_retval' = swap_retval /\ UNCHANGED <<mutexVars, call, held>>
  BY DEF Expire, TimeoutExpires
<1>1. /\ linked' \in [Threads -> BOOLEAN] /\ linked'[t] = FALSE
      /\ \A u \in Threads : u # t => linked'[u] = linked[u]
  BY <1>0, Types
<1>2. SchedTypeOK' /\ Placed(waitq', pended_on')
  BY <1>0, <1>1, Types DEF SchedTypeOK, MutexInv, PendedIsQueued, Placed
<1>3. ASSUME NEW u \in Threads PROVE ThreadPlaced(u)'
  <2>0. ThreadPlaced(u)
    BY DEF MutexInv, CallsPlaced
  <2>1. CASE u = t
    BY <1>0, <1>1, <2>0, <2>1, Types DEF ThreadPlaced, mutexVars
  <2>2. CASE u # t
    BY <1>0, <1>1, <2>0, <2>2, Types DEF ThreadPlaced, mutexVars
  <2> QED
    BY <2>1, <2>2
<1> QED
  BY <1>0, <1>2, <1>3, MutexesSame

\* Its callback takes the thread off its queue; a thread that gave up on a
\* mutex is told so, and is not the owner.
LEMMA CallbackInv ==
  ASSUME MutexInv, Callback
  PROVE  MutexInv'
<1> DEFINE t == firing
           q == pended_on[t]
           w2 == [waitq EXCEPT ![q] = RemoveItem(@, t)]
           po2 == [pended_on EXCEPT ![t] = NONE]
<1>0. /\ t \in Threads /\ q \in WaitQs /\ ~linked[t] /\ call[t].op # "relock" /\ ~ready[t]
      /\ ThreadPlaced(t)
  BY Types DEF Callback, ThreadTimeout, MutexInv, CallsPlaced, ThreadPlaced
<1>1. /\ waitq' = w2 /\ pended_on' = po2 /\ firing' = NONE
      /\ ready' = [ready EXCEPT ![t] = @ \/ (pended_on'[t] = NONE /\ ~linked[t])]
      /\ prio' = prio /\ linked' = linked /\ swap_retval' = swap_retval
      /\ UNCHANGED <<mutexVars, call, held>>
  BY <1>0, Types DEF Callback, ThreadTimeout, Readied
<1>2. Placed(waitq, pended_on)
  BY DEF MutexInv, PendedIsQueued, Placed
<1>3. /\ w2 \in [WaitQs -> Seq(Threads)] /\ po2 \in [Threads -> WaitQs \cup {NONE}]
      /\ Placed(w2, po2)
  BY <1>0, <1>2, Types, PlacedRemove
<1>4. pended_on'[t] = NONE /\ \A u \in Threads : u # t => pended_on'[u] = pended_on[u]
  BY <1>0, <1>1, Types
<1>5. \A u \in Threads : u # t => firing # u
  OBVIOUS
<1>6. q \in Mutexes => call[t].m = q /\ owner[q] # t /\ swap_retval[t] # "0"
  BY <1>0 DEF ThreadPlaced
<1>7. q \notin Mutexes => call[t].op = "wait"
  BY <1>0, Types DEF ThreadPlaced
<1> HIDE DEF t, q, w2, po2
<1>8. ready'[t] = TRUE /\ ready' \in [Threads -> BOOLEAN]
      /\ \A u \in Threads : u # t => ready'[u] = ready[u]
  BY <1>0, <1>1, <1>4, Types
<1>9. SchedTypeOK' /\ Placed(waitq', pended_on')
  BY <1>1, <1>3, <1>8, Types DEF SchedTypeOK
<1>10. ASSUME NEW u \in Threads PROVE ThreadPlaced(u)'
  <2>0. ThreadPlaced(u)
    BY DEF MutexInv, CallsPlaced
  <2>1. CASE u = t
    BY <1>0, <1>1, <1>4, <1>8, <2>0, <2>1, Types DEF ThreadPlaced, mutexVars
  <2>2. CASE u # t
    BY <1>1, <1>4, <1>5, <1>8, <2>0, <2>2, Types DEF ThreadPlaced, mutexVars
  <2> QED
    BY <2>1, <2>2
<1>11. \A u \in Threads : ready[u] => ready'[u] /\ swap_retval'[u] = swap_retval[u]
  BY <1>0, <1>1, <1>8
<1>12. \A u \in Threads : ready'[u] /\ ~ready[u] /\ call[u].op \in {"lock", "relock"} =>
         swap_retval'[u] # "0" /\ owner[call[u].m] # u
  BY <1>1, <1>6, <1>7, <1>8
<1> QED
  BY <1>1, <1>9, <1>10, <1>11, <1>12, MutexesSame

\* Every step keeps the invariant.
LEMMA NextMutex ==
  ASSUME MutexInv, [Next]_vars
  PROVE  MutexInv'
<1>1. CASE UNCHANGED vars
  BY <1>1 DEF vars, schedVars, mutexVars, MutexInv, TypeOK, SchedTypeOK, PendedIsQueued,
       CallsPlaced, ThreadPlaced, HeldByOwner, HandOverKnown, Receives
<1>2. CASE \E t \in Threads, m \in Mutexes, timed \in BOOLEAN : Lock(t, m, timed)
  BY <1>2, LockInv
<1>3. CASE \E t \in Threads, m \in Mutexes : Unlock(t, m)
  BY <1>3, UnlockInv
<1>4. CASE \E t \in Threads, m \in Mutexes, timed \in BOOLEAN, cv \in CondVars :
             CondWait(t, cv, m, timed)
  BY <1>4, CondWaitInv
<1>5. CASE \E t \in Threads : LockReturn(t) \/ CondReturn(t) \/ Expire(t)
  BY <1>5, LockReturnInv, CondReturnInv, ExpireInv
<1>6. CASE \E cv \in CondVars : Signal(cv) \/ Broadcast(cv)
  BY <1>6, SignalInv, BroadcastInv
<1>7. CASE Callback
  BY <1>7, CallbackInv
<1> QED
  BY <1>1, <1>2, <1>3, <1>4, <1>5, <1>6, <1>7 DEF Next

\* For any number of threads, mutexes and condition variables: the kernel and
\* the threads agree on who holds a mutex and how often, and a thread that
\* waited for one is told that it has it exactly when it is the owner.
THEOREM MutexInvariant == Spec => []MutexInv
<1>1. Init => MutexInv
  BY InitMutex
<1>2. MutexInv /\ [Next]_vars => MutexInv'
  BY NextMutex
<1> QED
  BY <1>1, <1>2, PTL DEF Spec

(***************************************************************************)
(* Priorities, with one mutex                                              *)
(***************************************************************************)
OneMutex == \A m, n \in Mutexes : m = n

\* The ceiling lowers no thread.
NoCeiling == \A t \in Threads : Ceiling <= BasePrio[t]

Owns(t) == \E m \in Mutexes : owner[m] = t

\* A thread that owns nothing has its own priority, the owner's own priority
\* is the saved one; so the priority of a thread that waits for the mutex
\* does not change, and the queue stays in order.
PriosInv ==
  /\ \A m \in Mutexes : Sorted(waitq[m], prio)
  /\ \A t \in Threads : ~Owns(t) => prio[t] = BasePrio[t]
  /\ \A m \in Mutexes : owner[m] # NONE => owner_orig_prio[m] = BasePrio[owner[m]]
  /\ PriorityInherited

\* What every step keeps.
PriosKept == PriosInv' /\ (NoCeiling /\ PriorityJustified => PriorityJustified')

\* A list is in order if it was, and nobody on it has changed priority.
LEMMA SortedSame ==
  ASSUME NEW s \in Seq(Threads), NEW p, NEW p2, Sorted(s, p),
         \A u \in Threads : IsIn(s, u) => p2[u] = p[u]
  PROVE  Sorted(s, p2)
<1>1. \A j \in DOMAIN s : s[j] \in Threads /\ IsIn(s, s[j])
  BY DEF IsIn
<1> QED
  BY <1>1 DEF Sorted

\* The first of a list in order is as urgent as any other.
LEMMA HeadLeast ==
  ASSUME NEW s \in Seq(Threads), NEW p \in [Threads -> Int], Sorted(s, p), s # <<>>,
         NEW u, IsIn(s, u)
  PROVE  p[Head(s)] <= p[u]
<1>1. /\ DOMAIN s = 1..Len(s) /\ Len(s) \in Nat \ {0} /\ Head(s) = s[1]
      /\ \A j \in DOMAIN s : s[j] \in Threads /\ p[s[j]] \in Int
  OBVIOUS
<1>2. PICK j \in DOMAIN s : s[j] = u
  BY DEF IsIn
<1>3. 1 \in DOMAIN s /\ (1 < j \/ j = 1)
  BY <1>1
<1>4. p[s[1]] <= p[s[j]]
  BY <1>1, <1>3 DEF Sorted
<1> QED
  BY <1>1, <1>2, <1>4

\* Who is on the queue of a mutex.
LEMMA WaitersFacts ==
  ASSUME MutexInv, NEW m \in Mutexes
  PROVE  /\ waitq[m] \in Seq(Threads) /\ m \in WaitQs /\ m # NONE
         /\ \A u \in Threads : IsIn(waitq[m], u) <=> pended_on[u] = m
         /\ \A u \in Threads : pended_on[u] = m =>
              /\ owner[m] \in Threads /\ owner[m] # u
              /\ call[u].op \in {"lock", "relock"} /\ call[u].m = m
         /\ owner[m] = NONE <=> lock_count[m] = 0
         /\ owner[m] \in Threads \cup {NONE}
BY Types DEF MutexInv, PendedIsQueued, CallsPlaced, ThreadPlaced

\* A step that changes neither priorities nor owners.
LEMMA SamePrios ==
  ASSUME MutexInv, PriosInv, prio' = prio, owner' = owner, owner_orig_prio' = owner_orig_prio,
         \A n \in Mutexes : Sorted(waitq'[n], prio),
         \A u \in Threads, n \in Mutexes : pended_on'[u] = n => pended_on[u] = n,
         \A u \in Threads : call[u].op \in {"lock", "relock"} =>
           call'[u] = call[u] \/ owner[call[u].m] = u
  PROVE  PriosKept
<1>1. PriosInv'
  BY DEF PriosInv, Owns, PriorityInherited
<1>2. ASSUME PriorityJustified PROVE PriorityJustified'
  <2> SUFFICES ASSUME NEW t \in Threads, prio[t] # BasePrio[t]
               PROVE  /\ prio[t] < BasePrio[t]
                      /\ \E m \in Mutexes, u \in Threads :
                           /\ owner[m] = t /\ u # t
                           /\ call'[u].op \in {"lock", "relock"} /\ call'[u].m = m
                           /\ prio[u] <= prio[t]
    BY DEF PriorityJustified
  <2>1. PICK m \in Mutexes, u \in Threads :
           /\ owner[m] = t /\ u # t
           /\ call[u].op \in {"lock", "relock"} /\ call[u].m = m
           /\ prio[u] <= prio[t]
    BY <1>2 DEF PriorityJustified
  <2>2. call'[u] = call[u]
    BY <2>1
  <2> QED
    BY <1>2, <2>1, <2>2 DEF PriorityJustified
<1> QED
  BY <1>1, <1>2 DEF PriosKept

\* A thread begins to wait for the mutex.
LEMMA BoostPrios ==
  ASSUME OneMutex, MutexInv, PriosInv, NEW t \in Threads, NEW m \in Mutexes,
         NEW timed \in BOOLEAN, ready[t],
         call[t].op \notin {"lock", "relock"}, ~Free(t, m), LockPend(t, m, timed),
         call'[t].op \in {"lock", "relock"}, call'[t].m = m,
         \A u \in Threads : u # t => call'[u] = call[u], UNCHANGED mutexVars
  PROVE  PriosKept
<1> DEFINE o == owner[m]
           r == Inserted(waitq[m], prio, t)
<1>0. /\ prio' = Boosted(t, m) /\ waitq' = [waitq EXCEPT ![m] = Inserted(@, prio, t)]
      /\ pended_on' = [pended_on EXCEPT ![t] = m]
      /\ owner' = owner /\ owner_orig_prio' = owner_orig_prio
  BY DEF LockPend, Pend, mutexVars
<1>1. /\ waitq[m] \in Seq(Threads) /\ m \in WaitQs
      /\ \A u \in Threads : IsIn(waitq[m], u) <=> pended_on[u] = m
      /\ \A u \in Threads : pended_on[u] = m => owner[m] # u
      /\ o \in Threads /\ o # t
  BY WaitersFacts DEF Free
<1>2. prio \in [Threads -> Int] /\ Ceiling \in Int /\ BasePrio \in [Threads -> Int]
  BY Types, MutexAssumption, WaitQAssumption
<1>3. /\ prio' \in [Threads -> Int]
      /\ \A u \in Threads : u # o => prio'[u] = prio[u]
      /\ prio'[o] = LET new == new_prio_for_inheritance(prio[t], prio[o])
                    IN  IF new < prio[o] THEN new ELSE prio[o]
  BY <1>0, <1>1, <1>2 DEF Boosted, new_prio_for_inheritance
<1>4. /\ prio'[o] <= prio[o] /\ prio'[o] <= new_prio_for_inheritance(prio[t], prio[t])
      /\ prio'[o] # prio[o] => prio[t] <= prio'[o]
  BY <1>1, <1>2, <1>3 DEF new_prio_for_inheritance
<1>5. waitq'[m] = r /\ pended_on'[t] = m /\ \A u \in Threads : u # t => pended_on'[u] = pended_on[u]
  BY <1>0, <1>1, Types
<1>6. /\ r \in Seq(Threads) /\ Sorted(r, prio)
      /\ \A y : IsIn(r, y) <=> IsIn(waitq[m], y) \/ y = t
  <2>1. Sorted(waitq[m], prio)
    BY DEF PriosInv
  <2>2. r \in Seq(Threads) /\ \A y : IsIn(r, y) <=> IsIn(waitq[m], y) \/ y = t
    BY <1>1, <1>2, InsertedFacts
  <2> QED
    BY <1>1, <1>2, <2>1, <2>2, InsertedSorted
<1> HIDE DEF r
<1>7. Sorted(waitq'[m], prio')
  <2>1. \A u \in Threads : IsIn(r, u) => prio'[u] = prio[u]
    BY <1>1, <1>3, <1>6
  <2> QED
    BY <1>5, <1>6, <2>1, SortedSame
<1>8. \A n \in Mutexes : n = m
  BY DEF OneMutex
<1>9. \A u \in Threads : ~Owns(u)' => prio'[u] = BasePrio[u]
  BY <1>0, <1>1, <1>3 DEF Owns, PriosInv
<1>10. ASSUME NEW u \in Threads, pended_on'[u] = m
       PROVE  prio'[o] <= new_prio_for_inheritance(prio'[u], prio'[u])
  <2>1. prio'[u] = prio[u]
    BY <1>1, <1>3, <1>5, <1>10
  <2>2. CASE u = t
    BY <1>4, <2>1, <2>2
  <2>3. CASE u # t
    <3>1. prio[o] <= new_prio_for_inheritance(prio[u], prio[u])
      BY <1>5, <1>10, <2>3 DEF PriosInv, PriorityInherited
    <3> QED
      BY <1>1, <1>2, <1>3, <1>4, <2>1, <3>1 DEF new_prio_for_inheritance
  <2> QED
    BY <2>2, <2>3
<1>11. PriosInv'
  <2>1. PriorityInherited'
    BY <1>0, <1>8, <1>10 DEF PriorityInherited
  <2> QED
    BY <1>0, <1>7, <1>8, <1>9, <2>1 DEF PriosInv
<1>12. ASSUME PriorityJustified PROVE PriorityJustified'
  <2> SUFFICES ASSUME NEW x \in Threads, prio'[x] # BasePrio[x]
               PROVE  /\ prio'[x] < BasePrio[x]
                      /\ \E n \in Mutexes, u \in Threads :
                           /\ owner[n] = x /\ u # x
                           /\ call'[u].op \in {"lock", "relock"} /\ call'[u].m = n
                           /\ prio'[u] <= prio'[x]
    BY <1>0 DEF PriorityJustified
  <2>1. x = o
    <3>1. x # o => prio[x] # BasePrio[x]
      BY <1>3
    <3> QED
      BY <1>8, <1>12, <3>1 DEF PriorityJustified
  <2>2. prio[o] <= BasePrio[o]
    <3>1. prio[o] # BasePrio[o] => prio[o] < BasePrio[o]
      BY <1>1, <1>12 DEF PriorityJustified
    <3>2. prio[o] \in Int /\ BasePrio[o] \in Int
      BY <1>1, <1>2
    <3> HIDE DEF o
    <3> QED
      BY <3>1, <3>2
  <2>3. CASE prio'[o] # prio[o]
    BY <1>1, <1>2, <1>3, <1>4, <2>1, <2>2, <2>3
  <2>4. CASE prio'[o] = prio[o]
    <3>1. PICK u \in Threads : /\ u # o /\ prio[u] <= prio[o]
                               /\ call[u].op \in {"lock", "relock"} /\ call[u].m = m
      BY <1>8, <1>12, <2>1, <2>4 DEF PriorityJustified
    <3>2. call'[u] = call[u] /\ prio'[u] = prio[u]
      BY <1>3, <3>1
    <3> QED
      BY <1>1, <1>2, <2>1, <2>2, <2>4, <3>1, <3>2
  <2> QED
    BY <2>3, <2>4
<1> QED
  BY <1>11, <1>12 DEF PriosKept

\* A thread takes the free mutex, or its own once more.
LEMMA TakePrios ==
  ASSUME OneMutex, MutexInv, PriosInv, NEW t \in Threads, NEW m \in Mutexes,
         call[t].op \notin {"lock", "relock"}, Free(t, m), LockTake(t, m),
         \A u \in Threads : u # t => call'[u] = call[u], UNCHANGED schedVars
  PROVE  PriosKept
<1>0. /\ prio' = prio /\ waitq' = waitq /\ pended_on' = pended_on
      /\ owner' = [owner EXCEPT ![m] = t]
      /\ owner_orig_prio' = [owner_orig_prio EXCEPT ![m] = OrigPrio(t, m)]
  BY DEF LockTake, schedVars
<1>1. \A n \in Mutexes : n = m
  BY DEF OneMutex
<1>2. CASE lock_count[m] # 0
  <2>1. owner' = owner
    BY <1>0, <1>2, Types DEF Free
  <2>2. owner_orig_prio' = owner_orig_prio
    BY <1>0, <1>2, Types DEF OrigPrio
  <2>3. \A n \in Mutexes : Sorted(waitq'[n], prio)
    BY <1>0 DEF PriosInv
  <2> QED
    BY <1>0, <2>1, <2>2, <2>3, SamePrios
<1>3. CASE lock_count[m] = 0
  <2>1. owner[m] = NONE /\ \A u \in Threads : pended_on[u] # m
    BY <1>3, WaitersFacts, Types
  <2>2. \A u \in Threads : prio[u] = BasePrio[u]
    BY <1>1, <2>1, Types DEF PriosInv, Owns
  <2>3. owner'[m] = t /\ owner_orig_prio'[m] = BasePrio[t]
    BY <1>0, <1>3, <2>2, Types DEF OrigPrio
  <2>4. PriorityInherited'
    BY <1>0, <1>1, <2>1 DEF PriorityInherited
  <2>5. PriosInv'
    BY <1>0, <1>1, <2>2, <2>3, <2>4 DEF PriosInv
  <2> QED
    BY <1>0, <2>2, <2>5 DEF PriosKept, PriorityJustified
<1> QED
  BY <1>2, <1>3

\* A thread has given up waiting, and the owner's priority is set anew.
LEMMA LowerPrios ==
  ASSUME OneMutex, MutexInv, PriosInv, NEW t \in Threads, NEW m \in Mutexes,
         pended_on[t] # m, owner[m] # t, prio' = Lowered(m),
         \A u \in Threads : u # t => call'[u] = call[u],
         UNCHANGED <<waitq, pended_on, mutexVars>>
  PROVE  PriosKept
<1> DEFINE o == owner[m]
           q == waitq[m]
<1>0. waitq' = waitq /\ pended_on' = pended_on /\ owner' = owner
      /\ owner_orig_prio' = owner_orig_prio
  BY DEF mutexVars
<1>1. \A n \in Mutexes : n = m
  BY DEF OneMutex
<1>2. CASE o = NONE
  <2>1. prio' = prio
    BY <1>2 DEF Lowered
  <2>2. \A u \in Threads : prio[u] = BasePrio[u]
    BY <1>1, <1>2, Types DEF PriosInv, Owns
  <2>3. PriosInv'
    BY <1>0, <2>1 DEF PriosInv, Owns, PriorityInherited
  <2> QED
    BY <2>1, <2>2, <2>3 DEF PriosKept, PriorityJustified
<1>3. CASE o # NONE
  <2>1. /\ q \in Seq(Threads) /\ m \in WaitQs /\ o \in Threads
        /\ \A u \in Threads : IsIn(q, u) <=> pended_on[u] = m
        /\ \A u \in Threads : pended_on[u] = m =>
             owner[m] # u /\ call[u].op \in {"lock", "relock"} /\ call[u].m = m
    BY <1>3, WaitersFacts
  <2>2. prio \in [Threads -> Int] /\ Ceiling \in Int /\ BasePrio \in [Threads -> Int]
    BY Types, MutexAssumption, WaitQAssumption
  <2> DEFINE b == BasePrio[o]
             h == Head(q)
             new == IF q # <<>> THEN new_prio_for_inheritance(prio[h], b) ELSE b
  <2>3. prio' = [prio EXCEPT ![o] = new]
    BY <1>3 DEF Lowered, PriosInv
  <2>4. q # <<>> => h \in Threads /\ IsIn(q, h)
    BY <2>1, TailFacts
  <2>5. b \in Int /\ (q # <<>> => prio[h] \in Int)
    BY <2>1, <2>2, <2>4
  <2>6. new \in Int
    BY <2>2, <2>5 DEF new_prio_for_inheritance
  <2> HIDE DEF new, b, h, q, o
  <2>7. prio' \in [Threads -> Int] /\ prio'[o] = new /\ \A u \in Threads : u # o => prio'[u] = prio[u]
    BY <2>1, <2>2, <2>3, <2>6
  <2>8. Sorted(waitq'[m], prio')
    <3>1. \A u \in Threads : IsIn(q, u) => prio'[u] = prio[u]
      BY <2>1, <2>7 DEF o
    <3>2. Sorted(q, prio)
      BY DEF PriosInv, q
    <3>3. Sorted(q, prio')
      BY <2>1, <3>1, <3>2, SortedSame
    <3> QED
      BY <1>0, <3>3 DEF q
  <2>9. \A u \in Threads : ~Owns(u)' => prio'[u] = BasePrio[u]
    BY <1>0, <2>1, <2>7 DEF Owns, PriosInv, o
  <2>10. ASSUME NEW u \in Threads, pended_on[u] = m
         PROVE  new <= new_prio_for_inheritance(prio'[u], prio'[u])
    <3>1. IsIn(q, u) /\ u # o /\ q # <<>>
      BY <2>1, <2>10 DEF o, IsIn
    <3>2. prio[h] <= prio[u]
      <4>1. Sorted(q, prio)
        BY DEF PriosInv, q
      <4> QED
        BY <2>1, <2>2, <3>1, <4>1, HeadLeast DEF h
    <3>3. prio'[u] = prio[u] /\ prio[u] \in Int
      BY <2>2, <2>7, <3>1
    <3> QED
      BY <2>2, <2>5, <3>1, <3>2, <3>3 DEF new_prio_for_inheritance, new
  <2>11. PriorityInherited'
    BY <1>0, <1>1, <2>7, <2>10 DEF PriorityInherited, o
  <2>12. PriosInv'
    BY <1>0, <1>1, <2>8, <2>9, <2>11 DEF PriosInv
  <2>13. ASSUME NoCeiling, PriorityJustified PROVE PriorityJustified'
    <3>0. Ceiling <= b
      BY <2>1, <2>13 DEF NoCeiling, b
    <3> SUFFICES ASSUME NEW x \in Threads, prio'[x] # BasePrio[x]
                 PROVE  /\ prio'[x] < BasePrio[x]
                        /\ \E n \in Mutexes, u \in Threads :
                             /\ owner[n] = x /\ u # x
                             /\ call'[u].op \in {"lock", "relock"} /\ call'[u].m = n
                             /\ prio'[u] <= prio'[x]
      BY <1>0 DEF PriorityJustified
    <3>1. x = o
      <4>1. x # o => prio[x] # BasePrio[x]
        BY <2>7
      <4> QED
        BY <1>1, <2>13, <4>1 DEF PriorityJustified, o
    <3>2. new # b
      BY <2>7, <3>1 DEF b
    <3>3. q # <<>>
      BY <3>2 DEF new
    <3>4. new < b /\ prio[h] <= new
      BY <2>2, <2>5, <3>0, <3>2, <3>3 DEF new, new_prio_for_inheritance
    <3>5. h \in Threads /\ pended_on[h] = m
      BY <2>1, <2>4, <3>3
    <3>6. h # o /\ h # t /\ call[h].op \in {"lock", "relock"} /\ call[h].m = m
      BY <2>1, <3>5 DEF o
    <3>7. call'[h] = call[h] /\ prio'[h] = prio[h]
      BY <2>7, <3>5, <3>6
    <3> QED
      BY <2>7, <3>1, <3>4, <3>5, <3>6, <3>7 DEF b, o
  <2> QED
    BY <2>12, <2>13 DEF PriosKept
<1> QED
  BY <1>2, <1>3

\* The owner that unlocks the mutex gets its own priority back; then all have
\* theirs.
LEMMA RestoredAll ==
  ASSUME OneMutex, MutexInv, PriosInv, NEW t \in Threads, NEW m \in Mutexes, owner[m] = t,
         prio' = Restored(t, m)
  PROVE  \A u \in Threads : prio'[u] = BasePrio[u]
<1>1. \A n \in Mutexes : n = m
  BY DEF OneMutex
<1>2. owner_orig_prio[m] = BasePrio[t]
  BY Types DEF PriosInv
<1>3. \A u \in Threads : u # t => prio[u] = BasePrio[u]
  BY <1>1 DEF PriosInv, Owns
<1> QED
  BY <1>2, <1>3, Types DEF Restored

\* k_mutex_unlock() of a mutex that nobody waits for.
LEMMA ReleasePrios ==
  ASSUME OneMutex, MutexInv, PriosInv, NEW t \in Threads, NEW m \in Mutexes, owner[m] = t,
         Release(t, m), prio' = Restored(t, m), waitq'[m] = waitq[m],
         \A u \in Threads : pended_on'[u] = m => pended_on[u] = m
  PROVE  PriosKept
<1>0. /\ waitq[m] = <<>> /\ owner'[m] = NONE /\ \A n \in Mutexes : n = m
  BY Types DEF Release, OneMutex
<1>1. \A u \in Threads : prio'[u] = BasePrio[u]
  BY RestoredAll
<1>2. Sorted(<<>>, prio') /\ \A u \in Threads : ~IsIn(<<>>, u)
  BY DEF Sorted, IsIn
<1>3. \A u \in Threads : pended_on'[u] # m
  BY <1>0, <1>2, WaitersFacts
<1>4. PriorityInherited'
  BY <1>0, <1>3 DEF PriorityInherited
<1>5. PriosInv'
  BY <1>0, <1>1, <1>2, <1>4 DEF PriosInv
<1> QED
  BY <1>1, <1>5 DEF PriosKept, PriorityJustified

\* k_mutex_unlock() that hands the mutex to the first waiter.
LEMMA HandOverPrios ==
  ASSUME OneMutex, MutexInv, PriosInv, NEW t \in Threads, NEW m \in Mutexes, owner[m] = t,
         HandOver(t, m), prio' = Restored(t, m), waitq'[m] = Tail(waitq[m]),
         \A u \in Threads : pended_on'[u] = m => pended_on[u] = m
  PROVE  PriosKept
<1> DEFINE q == waitq[m]
           h == Head(q)
<1>0. \A n \in Mutexes : n = m
  BY DEF OneMutex
<1>1. /\ q \in Seq(Threads) /\ q # <<>>
      /\ \A u \in Threads : IsIn(q, u) <=> pended_on[u] = m
  BY WaitersFacts DEF HandOver
<1>2. h \in Threads /\ IsIn(q, h)
  BY <1>1, TailFacts
<1>3. \A u \in Threads : prio'[u] = BasePrio[u]
  BY RestoredAll
<1>4. owner'[m] = h /\ owner_orig_prio'[m] = BasePrio[h]
  <2>1. Restored(t, m)[h] = BasePrio[h]
    BY <1>2, <1>3
  <2> QED
    BY <2>1, Types DEF HandOver
<1>5. prio \in [Threads -> Int] /\ BasePrio \in [Threads -> Int] /\ Ceiling \in Int
  BY Types, WaitQAssumption, MutexAssumption
<1>6. \A u \in Threads : IsIn(q, u) => prio'[u] = prio[u]
  <2>1. \A u \in Threads : IsIn(q, u) => ~Owns(u)
    BY <1>0, <1>1, WaitersFacts DEF Owns
  <2> QED
    BY <1>3, <2>1 DEF PriosInv
<1>7. prio' \in [Threads -> Int]
  BY <1>5, Types DEF Restored
<1>8. Sorted(q, prio')
  <2>1. Sorted(q, prio)
    BY DEF PriosInv
  <2> HIDE DEF q
  <2> QED
    BY <1>1, <1>6, <2>1, SortedSame
<1>9. Sorted(waitq'[m], prio')
  BY <1>1, <1>7, <1>8, TailSorted
<1>10. \A u \in Threads : pended_on'[u] = m => prio'[h] <= prio'[u]
  <2> HIDE DEF q
  <2> QED
    BY <1>1, <1>7, <1>8, HeadLeast
<1> HIDE DEF q, h
<1>11. PriorityInherited'
  <2> SUFFICES ASSUME NEW u \in Threads, pended_on'[u] = m
               PROVE  prio'[h] <= new_prio_for_inheritance(prio'[u], prio'[u])
    BY <1>0, <1>4 DEF PriorityInherited
  <2>1. prio'[h] <= prio'[u] /\ prio'[h] \in Int /\ prio'[u] \in Int
    BY <1>2, <1>7, <1>10
  <2> QED
    BY <1>5, <2>1 DEF new_prio_for_inheritance
<1>12. PriosInv'
  BY <1>0, <1>3, <1>4, <1>9, <1>11 DEF PriosInv
<1> QED
  BY <1>3, <1>12 DEF PriosKept, PriorityJustified

\* Every step keeps the priorities as they should be.
LEMMA NextPrios ==
  ASSUME OneMutex, MutexInv, PriosInv, [Next]_vars
  PROVE  PriosKept
<1>0. \A n \in Mutexes : Sorted(waitq[n], prio)
  BY DEF PriosInv
<1>1. CASE UNCHANGED vars
  BY <1>0, <1>1, SamePrios DEF vars, schedVars, mutexVars
<1>2. ASSUME NEW t \in Threads, NEW m \in Mutexes, NEW timed \in BOOLEAN, Lock(t, m, timed)
      PROVE  PriosKept
  <2>1. ready[t] /\ call[t].op \notin {"lock", "relock"}
    BY <1>2 DEF Lock, Running, Out
  <2>2. CASE Free(t, m)
    <3>1. LockTake(t, m) /\ UNCHANGED schedVars /\ call' = call
      BY <1>2, <2>2 DEF Lock
    <3> QED
      BY <2>1, <2>2, <3>1, TakePrios
  <2>3. CASE ~Free(t, m)
    <3>1. LockPend(t, m, timed) /\ UNCHANGED mutexVars
          /\ call' = [call EXCEPT ![t] = [op |-> "lock", m |-> m]]
      BY <1>2, <2>3 DEF Lock
    <3>2. /\ call'[t].op \in {"lock", "relock"} /\ call'[t].m = m
          /\ \A u \in Threads : u # t => call'[u] = call[u]
      BY <3>1, Types
    <3> QED
      BY <2>1, <2>3, <3>1, <3>2, BoostPrios
  <2> QED
    BY <2>2, <2>3
<1>3. ASSUME NEW t \in Threads, CondReturn(t)
      PROVE  PriosKept
  <2> DEFINE m == call[t].m
  <2>1. ready[t] /\ call[t].op \notin {"lock", "relock"} /\ m \in Mutexes
    BY <1>3, Types DEF CondReturn, Running, Calls, Out
  <2>2. CASE Free(t, m)
    <3>1. LockTake(t, m) /\ UNCHANGED schedVars /\ \A u \in Threads : u # t => call'[u] = call[u]
      BY <1>3, <2>2, Types DEF CondReturn
    <3> HIDE DEF m
    <3> QED
      BY <2>1, <2>2, <3>1, TakePrios
  <2>3. CASE ~Free(t, m)
    <3>1. LockPend(t, m, FALSE) /\ UNCHANGED mutexVars
          /\ call' = [call EXCEPT ![t] = [op |-> "relock", m |-> m]]
      BY <1>3, <2>3 DEF CondReturn
    <3> HIDE DEF m
    <3>2. /\ call'[t].op \in {"lock", "relock"} /\ call'[t].m = m
          /\ \A u \in Threads : u # t => call'[u] = call[u]
      BY <3>1, Types
    <3> QED
      BY <2>1, <2>3, <3>1, <3>2, BoostPrios
  <2> QED
    BY <2>2, <2>3
<1>4. ASSUME NEW t \in Threads, LockReturn(t)
      PROVE  PriosKept
  <2> DEFINE m == call[t].m
  <2>1. /\ ready[t] /\ call[t].op \in {"lock", "relock"} /\ m \in Mutexes
        /\ UNCHANGED <<waitq, pended_on, mutexVars>>
        /\ \A u \in Threads : u # t => call'[u] = call[u]
    BY <1>4, Types DEF LockReturn, Running, Calls, Out
  <2>2. owner[m] = t <=> swap_retval[t] = "0"
    BY <2>1 DEF MutexInv, HandOverKnown
  <2>3. pended_on[t] # m
    BY <2>1, Types DEF MutexInv, PendedIsQueued
  <2>4. CASE swap_retval[t] = "0"
    <3>1. prio' = prio
      BY <1>4, <2>4 DEF LockReturn
    <3>2. owner' = owner /\ owner_orig_prio' = owner_orig_prio
      BY <2>1 DEF mutexVars
    <3> QED
      BY <1>0, <2>1, <2>2, <2>4, <3>1, <3>2, SamePrios
  <2>5. CASE swap_retval[t] # "0"
    <3>1. prio' = Lowered(m)
      BY <1>4, <2>5 DEF LockReturn
    <3> HIDE DEF m
    <3> QED
      BY <2>1, <2>2, <2>3, <2>5, <3>1, LowerPrios
  <2> QED
    BY <2>4, <2>5
<1>5. ASSUME NEW t \in Threads, NEW m \in Mutexes, Unlock(t, m)
      PROVE  PriosKept
  <2>1. owner[m] = t /\ call' = call /\ waitq[m] \in Seq(Threads) /\ m \in WaitQs
    BY <1>5, WaitersFacts DEF Unlock
  <2>2. CASE lock_count[m] > 1 /\ UNCHANGED <<schedVars, owner, owner_orig_prio>>
    BY <1>0, <2>1, <2>2, SamePrios DEF schedVars
  <2>3. CASE /\ Release(t, m) /\ prio' = Restored(t, m) /\ waitq' = waitq
             /\ pended_on' = pended_on
    BY <2>1, <2>3, ReleasePrios
  <2>4. CASE HandOver(t, m) /\ prio' = Restored(t, m) /\ UnpendFirst(m)
    <3>1. waitq'[m] = Tail(waitq[m]) /\ pended_on' = [pended_on EXCEPT ![Head(waitq[m])] = NONE]
      BY <2>1, <2>4, Types DEF UnpendFirst
    <3>2. \A u \in Threads : pended_on'[u] = m => pended_on[u] = m
      BY <2>1, <3>1, Types
    <3> QED
      BY <2>1, <2>4, <3>1, <3>2, HandOverPrios
  <2> QED
    BY <1>5, <2>2, <2>3, <2>4 DEF Unlock
<1>6. ASSUME NEW t \in Threads, NEW m \in Mutexes, NEW cv \in CondVars,
             NEW timed \in BOOLEAN, CondWait(t, cv, m, timed)
      PROVE  PriosKept
  <2>1. /\ owner[m] = t /\ call[t] = Out /\ waitq[m] \in Seq(Threads) /\ m \in WaitQs
        /\ cv \in WaitQs /\ cv # m /\ cv \notin Mutexes
        /\ \A u \in Threads : u # t => call'[u] = call[u]
    BY <1>6, WaitersFacts, Types DEF CondWait
  <2>2. ASSUME NEW p, Pend(t, cv, timed, p)
        PROVE  /\ \A n \in Mutexes : waitq'[n] = waitq[n]
               /\ \A u \in Threads, n \in Mutexes : pended_on'[u] = n => pended_on[u] = n
    BY <2>1, <2>2, Types DEF Pend
  <2>3. CASE lock_count[m] > 1 /\ Pend(t, cv, timed, prio) /\ UNCHANGED <<prio, owner, owner_orig_prio>>
    BY <1>0, <2>1, <2>2, <2>3, SamePrios DEF Out
  <2>4. CASE Release(t, m) /\ prio' = Restored(t, m) /\ Pend(t, cv, timed, Restored(t, m))
    BY <2>1, <2>2, <2>4, ReleasePrios
  <2>5. CASE /\ HandOver(t, m) /\ prio' = Restored(t, m)
             /\ waitq' = [waitq EXCEPT ![m] = Tail(@), ![cv] = Inserted(@, Restored(t, m), t)]
             /\ pended_on' = [pended_on EXCEPT ![Head(waitq[m])] = NONE, ![t] = cv]
    <3>1. waitq'[m] = Tail(waitq[m])
      BY <2>1, <2>5, Types
    <3>2. \A u \in Threads : pended_on'[u] = m => pended_on[u] = m
      BY <2>1, <2>5, Types
    <3> QED
      BY <2>1, <2>5, <3>1, <3>2, HandOverPrios
  <2> QED
    BY <1>6, <2>3, <2>4, <2>5 DEF CondWait
<1>7. ASSUME NEW cv \in CondVars, Signal(cv) \/ Broadcast(cv)
      PROVE  PriosKept
  <2>1. /\ prio' = prio /\ owner' = owner /\ owner_orig_prio' = owner_orig_prio /\ call' = call
    BY <1>7 DEF Signal, Broadcast, mutexVars
  <2>2. /\ \A n \in Mutexes : waitq'[n] = waitq[n]
        /\ \A u \in Threads, n \in Mutexes : pended_on'[u] = n => pended_on[u] = n
    <3>1. /\ \A n \in Mutexes : n # cv /\ n \in WaitQs /\ n # NONE
          /\ cv \in WaitQs
      BY Types
    <3>2. CASE Signal(cv)
      BY <3>1, <3>2, Types DEF Signal, UnpendFirst
    <3>3. CASE Broadcast(cv)
      BY <3>1, <3>3, Types DEF Broadcast
    <3> QED
      BY <1>7, <3>2, <3>3
  <2> QED
    BY <1>0, <2>1, <2>2, SamePrios
<1>8. ASSUME NEW t \in Threads, Expire(t)
      PROVE  PriosKept
  BY <1>0, <1>8, SamePrios DEF Expire, TimeoutExpires, mutexVars
<1>9. CASE Callback
  <2> DEFINE t == firing
             q == pended_on[t]
  <2>1. /\ prio' = prio /\ owner' = owner /\ owner_orig_prio' = owner_orig_prio /\ call' = call
        /\ t \in Threads /\ q \in WaitQs
        /\ waitq' = [waitq EXCEPT ![q] = RemoveItem(@, t)]
        /\ pended_on' = [pended_on EXCEPT ![t] = NONE]
    BY <1>9, Types
       DEF Callback, ThreadTimeout, mutexVars, MutexInv, CallsPlaced, ThreadPlaced
  <2>2. IsIn(waitq[q], t) /\ waitq[q] \in Seq(Threads) /\ prio \in [Threads -> Int]
    BY <2>1, Types DEF MutexInv, PendedIsQueued
  <2> HIDE DEF t, q
  <2>3. \A u \in Threads, n \in Mutexes : pended_on'[u] = n => pended_on[u] = n
    BY <2>1, Types
  <2>4. ASSUME NEW n \in Mutexes PROVE Sorted(waitq'[n], prio)
    <3>1. CASE n = q
      <4>1. waitq'[n] = RemoveItem(waitq[q], t)
        BY <2>1, <3>1, Types
      <4> QED
        BY <1>0, <2>2, <3>1, <4>1, RemoveSorted
    <3>2. CASE n # q
      BY <1>0, <2>1, <3>2, Types
    <3> QED
      BY <3>1, <3>2
  <2> QED
    BY <2>1, <2>3, <2>4, SamePrios
<1> QED
  BY <1>1, <1>2, <1>3, <1>4, <1>5, <1>6, <1>7, <1>8, <1>9 DEF Next

\* What one mutex keeps in every state.
LEMMA OneMutexInvariant ==
  ASSUME OneMutex
  PROVE  Spec => [](MutexInv /\ PriosInv)
<1>1. Init => MutexInv /\ PriosInv
  <2>1. ASSUME Init PROVE PriosInv
    <3>1. /\ prio = BasePrio /\ \A m \in Mutexes : owner[m] = NONE /\ waitq[m] = <<>>
          /\ \A t \in Threads : pended_on[t] = NONE
      BY <2>1, MutexAssumption DEF Init, SchedInit
    <3>2. Sorted(<<>>, prio)
      BY DEF Sorted
    <3>3. PriorityInherited
      BY <3>1, WaitQAssumption, MutexAssumption DEF PriorityInherited
    <3> QED
      BY <3>1, <3>2, <3>3 DEF PriosInv
  <2> QED
    BY <2>1, InitMutex
<1>2. MutexInv /\ PriosInv /\ [Next]_vars => (MutexInv /\ PriosInv)'
  BY NextMutex, NextPrios DEF PriosKept
<1> QED
  BY <1>1, <1>2, PTL DEF Spec

\* With one mutex its owner is at any time as urgent as every thread that
\* waits for it, up to the ceiling: no wait, timeout, hand-over or condition
\* variable leaves a priority inversion behind.
THEOREM OwnerInherits ==
  ASSUME OneMutex
  PROVE  Spec => []PriorityInherited
<1>1. MutexInv /\ PriosInv => PriorityInherited
  BY DEF PriosInv
<1> QED
  BY <1>1, OneMutexInvariant, PTL

\* With one mutex, and a ceiling that lowers no thread, a priority is raised
\* only while and because a thread as urgent waits for the mutex its bearer
\* owns.
THEOREM RaisedForAWaiter ==
  ASSUME OneMutex, NoCeiling
  PROVE  Spec => []PriorityJustified
<1>1. Init => PriorityJustified
  BY DEF Init, SchedInit, PriorityJustified
<1>2. (MutexInv /\ PriosInv) /\ PriorityJustified /\ [Next]_vars => PriorityJustified'
  BY NextPrios DEF PriosKept
<1> QED
  BY <1>1, <1>2, OneMutexInvariant, PTL DEF Spec
=============================================================================
