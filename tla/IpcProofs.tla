----------------------------- MODULE IpcProofs -----------------------------
(***************************************************************************)
(* Theorems about Ipc, for every number of threads with any priorities,    *)
(* of items and of events, and objects of any size.                        *)
(***************************************************************************)
EXTENDS Ipc, ListFacts, FiniteSetTheorems, TLAPS

(***************************************************************************)
(* The inductive invariant                                                 *)
(***************************************************************************)
Pended(t) == pended_on[t] # NONE
InCall(t) == call[t] # NONE

\* What may be in a thread's swap_data.
Data == Items \cup (SUBSET Bits) \cup {NONE}

\* The threads and their calls, whatever the object: a thread is ready unless
\* it is pended; a pended thread is in a call that nobody has served; one that
\* is in no call has no result left over; a timeout belongs to a pended thread.
ThreadOK(t) ==
  /\ ready[t] <=> ~Pended(t)
  /\ Pended(t) => InCall(t)
  /\ Pended(t) \/ ~InCall(t) => swap_data[t] = NONE /\ swap_retval[t] = "EAGAIN"
  /\ linked[t] => Pended(t)
  /\ firing = t => ~linked[t]

CallsInv ==
  /\ call \in [Threads -> Calls \cup {NONE}]
  /\ swap_data \in [Threads -> Data]
  /\ \A t \in Threads : ThreadOK(t)

\* The wait queue holds the pended threads, once each, the most urgent first.
OneQueue ==
  /\ \A t \in Threads : (IsIn(Waiters, t) <=> Pended(t)) /\ Once(Waiters, t)
  /\ Sorted(Waiters, prio)

BaseInv == SchedTypeOK /\ OneQueue /\ CallsInv

\* A call returns success if and only if it has been served.
Truthful(t) == swap_retval[t] = "0" <=> WasServed(t)

\* The ring buffer m: its pointers are used_msgs apart.
Ring(m) ==
  /\ m \in [kind : {"msgq"}, buffer : [0..(max_msgs - 1) -> Items \cup {NONE}],
            read_ptr : 0..(max_msgs - 1), write_ptr : 0..(max_msgs - 1),
            used_msgs : 0..max_msgs]
  /\ m.write_ptr - m.read_ptr \in {m.used_msgs, m.used_msgs - max_msgs}

RingContents(m) == [k \in 1..m.used_msgs |-> PeekAt(m, k - 1)]

\* A message that waits to be written is nowhere else.
OwnMessage(t) ==
  /\ ~IsIn(RingContents(obj), call[t].arg)
  /\ \A u \in Threads :
       /\ swap_data[u] # call[t].arg
       /\ u # t /\ InCall(u) => call[u].arg # call[t].arg

MsgqCall(t) ==
  /\ call[t].op \in {"put", "get"} /\ call[t].arg \in Items \cup {NONE}
  /\ call[t].op = "get" => call[t].arg = NONE
  /\ Truthful(t)
  /\ Pended(t) => obj.used_msgs = IF call[t].op = "put" THEN max_msgs ELSE 0
  /\ call[t].arg # NONE => OwnMessage(t)

MsgqOK ==
  /\ Ring(obj) /\ RingContents(obj) \in Seq(Items)
  /\ \A t \in Threads : swap_data[t] \in Items \cup {NONE} /\ (InCall(t) => MsgqCall(t))

QueueOK ==
  /\ obj \in [kind : {"queue"}, data_q : Seq(Items)]
  /\ \A t \in Threads :
       /\ swap_data[t] \in Items \cup {NONE}
       /\ InCall(t) => call[t].op = "get" /\ (swap_data[t] # NONE => swap_retval[t] = "0")
       /\ Pended(t) => obj.data_q = <<>>

StackOK ==
  /\ obj \in [kind : {"stack"}, entries : Seq(Items)] /\ Len(obj.entries) <= max_entries
  /\ \A t \in Threads :
       /\ swap_data[t] \in Items \cup {NONE}
       /\ InCall(t) => call[t].op = "pop" /\ Truthful(t)
       /\ Pended(t) => obj.entries = <<>>

SlabOK ==
  /\ obj \in [kind : {"slab"}, free_list : Seq(Items), num_used : Int]
  /\ obj.num_used = Cardinality(Items) - Len(obj.free_list)
  /\ \A t \in Threads :
       /\ swap_data[t] \in Items \cup {NONE}
       /\ InCall(t) => call[t].op = "alloc" /\ Truthful(t)
       /\ Pended(t) => obj.free_list = <<>>

\* The search could fail, with the blocks or without some of them.
Full(blocks, n) == \E new \in SUBSET blocks : CanFail(blocks \ new, n)

\* A thread woken by k_heap_free() has not gone back to waiting.
HeapOK ==
  /\ obj \in [kind : {"heap"}, blocks : SUBSET [at : 1..heap_units, n : Requests],
              woken : SUBSET Threads]
  /\ \A t \in Threads :
       /\ swap_data[t] = NONE /\ swap_retval[t] # "0"
       /\ InCall(t) => call[t].op = "alloc" /\ call[t].arg \in [n : Requests, timed : BOOLEAN]
       /\ Pended(t) => Full(obj.blocks, call[t].arg.n)
       /\ t \in obj.woken => InCall(t) /\ ~Pended(t)

EventOK ==
  /\ obj \in [kind : {"event"}, events : SUBSET Bits]
  /\ \A t \in Threads :
       /\ swap_data[t] \in (SUBSET Bits) \cup {NONE}
       /\ InCall(t) =>
            /\ call[t].op = "wait" /\ call[t].arg \in Waits
            /\ Truthful(t)
            /\ swap_data[t] # NONE => are_wait_conditions_met(call[t].arg, swap_data[t])
       /\ Pended(t) => ~are_wait_conditions_met(call[t].arg, obj.events)

TimerObj ==
  [kind : {"timer"}, linked : BOOLEAN, periodic : BOOLEAN, status : Nat,
   isr : {"none", "dequeued", "expiry", "ready"},
   calls : [TimerCallers -> {"none", "period", "status", "add", "unpend", "ready"}],
   unpended : Threads \cup {NONE}]

\* The timer o, or one that works on it, will see to the threads that wait.
WillWake(o) ==
  /\ o.isr # "ready"
  /\ \/ o.linked \/ o.isr # "none"
     \/ \E c \in TimerCallers : o.calls[c] \in {"period", "status", "add", "unpend"}

\* The thread that is off the wait queue will be readied.
WillReady(o) ==
  o.unpended # NONE => o.isr = "ready" \/ \E c \in TimerCallers : o.calls[c] = "ready"

\* The timer has one user.
TimerOK ==
  /\ obj \in TimerObj /\ WillReady(obj)
  /\ \A t \in Threads :
       /\ swap_data[t] = NONE
       /\ InCall(t) => call[t].op = "sync" /\ \A u \in Threads : InCall(u) => u = t
       /\ Pended(t) => WillWake(obj)

\* A thread pends on the futex only in one place, and comes out of it with the
\* result of a wait that has not begun.
SysSemOK ==
  /\ obj \in [kind : {"sys_sem"}, val : SYS_SEM_CONTENDED..sem_limit, waking : Nat, units : Nat]
  /\ obj.units = IF obj.val > 0 THEN obj.val ELSE 0
  /\ \A t \in Threads :
       /\ swap_data[t] = NONE
       /\ InCall(t) =>
            /\ call[t].op \in {"test", "pend", "dec", "wait"}
            /\ call[t].arg \in BOOLEAN
            /\ call[t].op \in {"test", "pend", "dec"} => swap_retval[t] = "EAGAIN"
       /\ Pended(t) => call[t].op = "wait"

ObjectOK ==
  \/ MsgqOK \/ QueueOK \/ StackOK \/ SlabOK \/ HeapOK \/ EventOK \/ TimerOK \/ SysSemOK

IInv == BaseInv /\ ObjectOK

(***************************************************************************)
(* The wait queue                                                          *)
(***************************************************************************)
\* What the invariant says about the queue and the threads on it.
LEMMA BaseFacts ==
  ASSUME BaseInv
  PROVE  /\ wait_q \in WaitQs /\ wait_q # NONE /\ Waiters \in Seq(Threads)
         /\ \A t \in Threads : /\ pended_on[t] \in {wait_q, NONE}
                               /\ IsIn(Waiters, t) <=> Pended(t)
                               /\ ThreadOK(t)
         /\ Waiters = <<>> <=> \A t \in Threads : ~Pended(t)
         /\ Waiters # <<>> => First \in Threads /\ Pended(First)
<1>1. wait_q \in WaitQs /\ wait_q # NONE
  BY BlockingAssumption, WaitQAssumption
<1>2. Waiters \in Seq(Threads)
  BY <1>1 DEF BaseInv, SchedTypeOK, Waiters
<1>3. \A t \in Threads : pended_on[t] \in {wait_q, NONE}
  BY BlockingAssumption DEF BaseInv, SchedTypeOK
<1>4. \A t \in Threads : (IsIn(Waiters, t) <=> Pended(t)) /\ ThreadOK(t)
  BY DEF BaseInv, OneQueue, CallsInv
<1>5. ASSUME Waiters # <<>> PROVE First \in Threads /\ IsIn(Waiters, First)
  BY <1>2, <1>5, TailFacts DEF First
<1>6. ASSUME Waiters = <<>>, NEW t \in Threads PROVE ~Pended(t)
  BY <1>4, <1>6 DEF IsIn
<1> QED BY <1>1, <1>2, <1>3, <1>4, <1>5, <1>6

\* The invariant about all wait queues: there is one.
LEMMA BaseQueueInv ==
  ASSUME BaseInv
  PROVE  QueueInv
<1>1. WaitQs = {wait_q}
  BY BlockingAssumption
<1>2. \A t \in Threads : (IsIn(waitq[wait_q], t) <=> pended_on[t] = wait_q) /\ Once(waitq[wait_q], t)
  <2> TAKE t \in Threads
  <2>1. Pended(t) <=> pended_on[t] = wait_q
    BY BaseFacts DEF Pended
  <2> QED BY <2>1 DEF BaseInv, OneQueue, Waiters
<1>3. PendedIsQueued
  BY <1>1, <1>2, BaseFacts DEF PendedIsQueued, ThreadOK, Pended
<1>4. WaitqSorted
  BY <1>1 DEF WaitqSorted, BaseInv, OneQueue, Sorted, Waiters
<1> QED BY <1>3, <1>4 DEF QueueInv, BaseInv

\* Pending: a thread that is not pended goes to its place on the queue.
LEMMA PendQueue ==
  ASSUME SchedTypeOK, OneQueue, NEW t \in Threads, ~Pended(t), NEW timed \in BOOLEAN,
         Pend(t, wait_q, timed, prio), UNCHANGED <<prio, firing>>
  PROVE  SchedTypeOK' /\ OneQueue'
<1>1. wait_q \in WaitQs /\ wait_q # NONE
  BY BlockingAssumption, WaitQAssumption
<1> DEFINE r == Inserted(Waiters, prio, t)
<1>2. Waiters \in Seq(Threads) /\ prio \in [Threads -> Int] /\ Sorted(Waiters, prio)
  BY <1>1 DEF SchedTypeOK, Waiters, OneQueue
<1>3. ~IsIn(Waiters, t)
  BY DEF OneQueue
<1>4. /\ r \in Seq(Threads) /\ Sorted(r, prio)
      /\ \A y : IsIn(r, y) <=> IsIn(Waiters, y) \/ y = t
      /\ \A y : Once(Waiters, y) /\ (y # t \/ ~IsIn(Waiters, t)) => Once(r, y)
  BY <1>2, InsertedFacts, InsertedSorted
<1>5. /\ waitq' = [waitq EXCEPT ![wait_q] = r] /\ pended_on' = [pended_on EXCEPT ![t] = wait_q]
      /\ prio' = prio
  BY DEF Pend, Waiters
<1> HIDE DEF r
<1>6. SchedTypeOK'
  BY <1>1, <1>4, <1>5 DEF SchedTypeOK, Pend
<1>7. Waiters' = r
  BY <1>1, <1>5 DEF SchedTypeOK, Waiters
<1>8. \A u \in Threads : Pended(u)' <=> Pended(u) \/ u = t
  BY <1>1, <1>5 DEF SchedTypeOK, Pended
<1>9. \A u \in Threads : (IsIn(Waiters', u) <=> Pended(u)') /\ Once(Waiters', u)
  BY <1>3, <1>4, <1>7, <1>8 DEF OneQueue
<1> QED BY <1>4, <1>5, <1>6, <1>7, <1>9 DEF OneQueue

\* Serving: the threads of S are off the queue.
LEMMA ServeQueue ==
  ASSUME SchedTypeOK, OneQueue, NEW S, NEW retval \in {"0", "EAGAIN", "ENOMSG"}, NEW data,
         Serve(S, retval, data)
  PROVE  SchedTypeOK' /\ OneQueue'
<1>1. wait_q \in WaitQs
  BY BlockingAssumption
<1> DEFINE r == Without(Waiters, S)
<1>2. Waiters \in Seq(Threads) /\ prio \in [Threads -> Int] /\ Sorted(Waiters, prio)
  BY <1>1 DEF SchedTypeOK, Waiters, OneQueue
<1>3. /\ r \in Seq(Threads) /\ Sorted(r, prio)
      /\ \A y : IsIn(r, y) <=> IsIn(Waiters, y) /\ y \notin S
      /\ \A y : Once(Waiters, y) => Once(r, y)
  BY <1>2, WithoutFacts
<1>4. /\ waitq' = [waitq EXCEPT ![wait_q] = r]
      /\ pended_on' = [t \in Threads |-> IF t \in S THEN NONE ELSE pended_on[t]]
      /\ prio' = prio
  BY DEF Serve, Waiters
<1> HIDE DEF r
<1>5. SchedTypeOK'
  BY <1>1, <1>3, <1>4 DEF SchedTypeOK, Serve
<1>6. Waiters' = r
  BY <1>1, <1>4 DEF SchedTypeOK, Waiters
<1>7. \A u \in Threads : Pended(u)' <=> Pended(u) /\ u \notin S
  BY <1>4 DEF Pended
<1>8. \A u \in Threads : (IsIn(Waiters', u) <=> Pended(u)') /\ Once(Waiters', u)
  BY <1>3, <1>6, <1>7 DEF OneQueue
<1> QED BY <1>3, <1>4, <1>5, <1>6, <1>8 DEF OneQueue

\* The timeout: the thread is off the queue, if it was on it.
LEMMA TimeoutQueue ==
  ASSUME SchedTypeOK, OneQueue, ThreadTimeout
  PROVE  SchedTypeOK' /\ OneQueue'
<1>1. WaitQs = {wait_q} /\ wait_q # NONE
  BY BlockingAssumption, WaitQAssumption
<1> DEFINE t == firing
           r == RemoveItem(Waiters, t)
<1>2. t \in Threads /\ pended_on[t] \in {wait_q, NONE}
  BY <1>1 DEF ThreadTimeout, SchedTypeOK
<1>3. Waiters \in Seq(Threads) /\ prio \in [Threads -> Int] /\ Sorted(Waiters, prio)
  BY <1>1 DEF SchedTypeOK, Waiters, OneQueue
<1>4. /\ waitq' = IF Pended(t) THEN [waitq EXCEPT ![wait_q] = r] ELSE waitq
      /\ pended_on' = [pended_on EXCEPT ![t] = NONE]
      /\ ready' = [ready EXCEPT ![t] = ready[t] \/ (pended_on'[t] = NONE /\ ~linked[t])]
      /\ firing' = NONE /\ prio' = prio /\ linked' = linked /\ swap_retval' = swap_retval
  BY <1>2 DEF ThreadTimeout, Readied, SchedTypeOK, Pended, Waiters
<1> HIDE DEF t
<1>5. \A u \in Threads : Pended(u)' <=> Pended(u) /\ u # t
  BY <1>2, <1>4 DEF SchedTypeOK, Pended
<1>6. /\ Waiters' \in Seq(Threads) /\ Sorted(Waiters', prio)
      /\ \A u \in Threads : (IsIn(Waiters', u) <=> IsIn(Waiters, u) /\ u # t) /\ Once(Waiters', u)
      /\ waitq' \in [WaitQs -> Seq(Threads)]
  <2>1. CASE Pended(t)
    <3>1. IsIn(Waiters, t) /\ Once(Waiters, t) /\ \A u \in Threads : Once(Waiters, u)
      BY <1>2, <2>1 DEF OneQueue
    <3>2. /\ r \in Seq(Threads) /\ ~IsIn(r, t)
          /\ \A y : y # t => (IsIn(r, y) <=> IsIn(Waiters, y))
          /\ \A y : Once(Waiters, y) => Once(r, y)
      BY <1>3, <3>1, RemoveFacts
    <3>3. Sorted(r, prio)
      BY <1>3, <3>1, RemoveSorted
    <3> HIDE DEF r
    <3>4. Waiters' = r /\ waitq' \in [WaitQs -> Seq(Threads)]
      BY <1>1, <1>4, <2>1, <3>2 DEF SchedTypeOK, Waiters
    <3> QED BY <3>1, <3>2, <3>3, <3>4
  <2>2. CASE ~Pended(t)
    <3>1. Waiters' = Waiters /\ waitq' = waitq
      BY <1>4, <2>2 DEF Waiters
    <3> QED BY <1>2, <1>3, <2>2, <3>1 DEF OneQueue, SchedTypeOK
  <2> QED BY <2>1, <2>2
<1>7. SchedTypeOK'
  BY <1>2, <1>4, <1>6 DEF SchedTypeOK
<1>8. OneQueue'
  BY <1>4, <1>5, <1>6 DEF OneQueue
<1> QED BY <1>7, <1>8

(***************************************************************************)
(* The steps of the threads                                                *)
(***************************************************************************)
\* A call waits.
LEMMA WaitKeeps ==
  ASSUME BaseInv, NEW t \in Threads, NEW op, NEW arg, NEW timed \in BOOLEAN,
         [op |-> op, arg |-> arg] \in Calls, Wait(t, op, arg, timed)
  PROVE  /\ BaseInv'
         /\ ~InCall(t) /\ ~Pended(t) /\ InCall(t)' /\ swap_data[t] = NONE /\ swap_retval[t] = "EAGAIN"
         /\ call'[t] = [op |-> op, arg |-> arg]
         /\ \A u \in Threads : u # t => call'[u] = call[u]
         /\ \A u \in Threads : Pended(u)' <=> Pended(u) \/ u = t
         /\ swap_data' = swap_data /\ swap_retval' = swap_retval
<1> DEFINE c == [op |-> op, arg |-> arg]
<1>1. /\ ~InTimerInterrupt /\ ready[t] /\ call[t] = NONE /\ Pend(t, wait_q, timed, prio)
      /\ call' = [call EXCEPT ![t] = c] /\ swap_data' = [swap_data EXCEPT ![t] = NONE]
      /\ prio' = prio /\ firing' = firing
  BY DEF Wait, Running
<1>2. SchedTypeOK /\ OneQueue /\ ThreadOK(t) /\ firing = NONE
      /\ call \in [Threads -> Calls \cup {NONE}] /\ swap_data \in [Threads -> Data]
      /\ \A u \in Threads : ThreadOK(u)
  BY <1>1 DEF BaseInv, CallsInv, InTimerInterrupt
<1>3. ~InCall(t) /\ ~Pended(t) /\ swap_data[t] = NONE /\ swap_retval[t] = "EAGAIN"
  BY <1>1, <1>2 DEF ThreadOK, InCall
<1>4. SchedTypeOK' /\ OneQueue'
  BY <1>1, <1>2, <1>3, PendQueue
<1>5. /\ pended_on' = [pended_on EXCEPT ![t] = wait_q] /\ linked' = [linked EXCEPT ![t] = timed]
      /\ ready' = [ready EXCEPT ![t] = FALSE] /\ swap_retval' = [swap_retval EXCEPT ![t] = "EAGAIN"]
  BY <1>1 DEF Pend
<1>6. swap_data' = swap_data /\ swap_retval' = swap_retval
  BY <1>1, <1>2, <1>3, <1>5 DEF SchedTypeOK
<1>7. wait_q # NONE /\ NONE \notin Calls
  BY BaseFacts, IpcAssumption
<1> HIDE DEF c
<1>8. /\ call'[t] = c /\ \A u \in Threads : u # t => call'[u] = call[u]
      /\ call' \in [Threads -> Calls \cup {NONE}]
  BY <1>1, <1>2 DEF c
<1>9. \A u \in Threads : Pended(u)' <=> Pended(u) \/ u = t
  BY <1>2, <1>5, <1>7 DEF SchedTypeOK, Pended
<1>10. InCall(t)'
  BY <1>7, <1>8 DEF InCall, c
<1>11. ASSUME NEW u \in Threads PROVE ThreadOK(u)'
  <2>1. CASE u = t
    <3>1. ~ready'[t] /\ firing' # t
      BY <1>1, <1>2, <1>5, WaitQAssumption DEF SchedTypeOK
    <3> QED BY <1>3, <1>6, <1>9, <1>10, <2>1, <3>1 DEF ThreadOK
  <2>2. CASE u # t
    <3>1. /\ ready'[u] = ready[u] /\ linked'[u] = linked[u] /\ call'[u] = call[u]
          /\ firing' = firing
      BY <1>1, <1>2, <1>5, <1>8, <2>2 DEF SchedTypeOK
    <3>2. (Pended(u)' <=> Pended(u)) /\ (InCall(u)' <=> InCall(u))
      BY <1>9, <2>2, <3>1 DEF InCall
    <3> QED BY <1>2, <1>6, <3>1, <3>2 DEF ThreadOK
  <2> QED BY <2>1, <2>2
<1> QED BY <1>2, <1>3, <1>4, <1>6, <1>8, <1>9, <1>10, <1>11 DEF BaseInv, CallsInv, c

\* A call that has been woken goes back to waiting.
LEMMA PendKeeps ==
  ASSUME BaseInv, NEW t \in Threads, NEW timed \in BOOLEAN,
         firing = NONE, InCall(t), ~Pended(t), swap_data[t] = NONE,
         Pend(t, wait_q, timed, prio), UNCHANGED <<prio, firing, swap_data>>,
         call' \in [Threads -> Calls \cup {NONE}],
         \A u \in Threads : InCall(u)' <=> InCall(u)
  PROVE  /\ BaseInv'
         /\ \A u \in Threads : Pended(u)' <=> Pended(u) \/ u = t
         /\ swap_retval'[t] = "EAGAIN"
         /\ \A u \in Threads : u # t => swap_retval'[u] = swap_retval[u]
<1>1. /\ SchedTypeOK /\ OneQueue /\ swap_data \in [Threads -> Data]
      /\ \A u \in Threads : ThreadOK(u)
  BY DEF BaseInv, CallsInv
<1>2. SchedTypeOK' /\ OneQueue'
  BY <1>1, PendQueue
<1>3. /\ pended_on' = [pended_on EXCEPT ![t] = wait_q] /\ linked' = [linked EXCEPT ![t] = timed]
      /\ ready' = [ready EXCEPT ![t] = FALSE] /\ swap_retval' = [swap_retval EXCEPT ![t] = "EAGAIN"]
  BY DEF Pend
<1>4. /\ swap_retval'[t] = "EAGAIN"
      /\ \A u \in Threads : u # t => swap_retval'[u] = swap_retval[u]
  BY <1>1, <1>3 DEF SchedTypeOK
<1>5. \A u \in Threads : Pended(u)' <=> Pended(u) \/ u = t
  BY <1>1, <1>3, BaseFacts DEF SchedTypeOK, Pended
<1>6. ASSUME NEW u \in Threads PROVE ThreadOK(u)'
  <2>1. CASE u = t
    <3>1. ~ready'[t] /\ firing' # t
      BY <1>1, <1>3, WaitQAssumption DEF SchedTypeOK
    <3> QED BY <1>4, <1>5, <2>1, <3>1 DEF ThreadOK
  <2>2. CASE u # t
    <3>1. ready'[u] = ready[u] /\ linked'[u] = linked[u] /\ firing' = firing
      BY <1>1, <1>3, <2>2 DEF SchedTypeOK
    <3> QED BY <1>1, <1>4, <1>5, <2>2, <3>1 DEF ThreadOK
  <2> QED BY <2>1, <2>2
<1> QED BY <1>1, <1>2, <1>4, <1>5, <1>6 DEF BaseInv, CallsInv

\* Threads that are pended are served.
LEMMA ServeKeeps ==
  ASSUME BaseInv, NEW S, \A t \in S : t \in Threads /\ Pended(t),
         NEW retval, retval \in {"0", "EAGAIN", "ENOMSG"}, NEW data, \A t \in S : data[t] \in Data,
         Serve(S, retval, data),
         call' \in [Threads -> Calls \cup {NONE}],
         \A u \in Threads : InCall(u)' <=> InCall(u)
  PROVE  /\ BaseInv'
         /\ \A u \in Threads :
              /\ Pended(u)' <=> Pended(u) /\ u \notin S
              /\ swap_data'[u] = IF u \in S THEN data[u] ELSE swap_data[u]
              /\ swap_retval'[u] = IF u \in S THEN retval ELSE swap_retval[u]
<1>1. /\ SchedTypeOK /\ OneQueue /\ swap_data \in [Threads -> Data]
      /\ \A u \in Threads : ThreadOK(u)
  BY DEF BaseInv, CallsInv
<1>2. SchedTypeOK' /\ OneQueue'
  BY <1>1, ServeQueue
<1>3. \A u \in Threads :
        /\ pended_on'[u] = IF u \in S THEN NONE ELSE pended_on[u]
        /\ linked'[u] = (linked[u] /\ u \notin S)
        /\ swap_retval'[u] = IF u \in S THEN retval ELSE swap_retval[u]
        /\ swap_data'[u] = IF u \in S THEN data[u] ELSE swap_data[u]
        /\ ready'[u] = (ready[u] \/ u \in S)
  BY DEF Serve
<1>4. swap_data' \in [Threads -> Data]
  <2>1. swap_data' = [u \in Threads |-> IF u \in S THEN data[u] ELSE swap_data[u]]
    BY DEF Serve
  <2> QED BY <1>1, <2>1
<1>5. \A u \in Threads : Pended(u)' <=> Pended(u) /\ u \notin S
  BY <1>3 DEF Pended
<1>6. ASSUME NEW u \in Threads PROVE ThreadOK(u)'
  <2>1. firing' = firing
    BY DEF Serve
  <2>2. CASE u \in S
    <3>1. ~Pended(u)' /\ ready'[u] /\ ~linked'[u] /\ InCall(u)'
      BY <1>1, <1>3, <1>5, <2>2 DEF ThreadOK
    <3> QED BY <3>1 DEF ThreadOK
  <2>3. CASE u \notin S
    <3>1. /\ ready'[u] = ready[u] /\ linked'[u] = linked[u] /\ (Pended(u)' <=> Pended(u))
          /\ swap_retval'[u] = swap_retval[u] /\ swap_data'[u] = swap_data[u]
      BY <1>1, <1>3, <1>5, <2>3 DEF SchedTypeOK
    <3> QED BY <1>1, <2>1, <3>1 DEF ThreadOK
  <2> QED BY <2>2, <2>3
<1> QED BY <1>2, <1>3, <1>4, <1>5, <1>6 DEF BaseInv, CallsInv

\* The first that waits is handed x.
LEMMA ServeFirstKeeps ==
  ASSUME BaseInv, NEW x \in Data, ServeFirst(x),
         call' \in [Threads -> Calls \cup {NONE}],
         \A u \in Threads : InCall(u)' <=> InCall(u)
  PROVE  /\ BaseInv' /\ Waiters # <<>> /\ First \in Threads /\ Pended(First)
         /\ \A u \in Threads :
              /\ Pended(u)' <=> Pended(u) /\ u # First
              /\ swap_data'[u] = IF u = First THEN x ELSE swap_data[u]
              /\ swap_retval'[u] = IF u = First THEN "0" ELSE swap_retval[u]
<1> DEFINE S == {First}
           data == [t \in {First} |-> x]
<1>1. Waiters # <<>> /\ Serve(S, "0", data)
  BY DEF ServeFirst
<1>2. First \in Threads /\ Pended(First)
  BY <1>1, BaseFacts
<1>3. \A t \in S : t \in Threads /\ Pended(t) /\ data[t] = x
  BY <1>2
<1> HIDE DEF S, data
<1>4. (\A t \in S : t \in Threads /\ Pended(t)) /\ \A t \in S : data[t] \in Data
  BY <1>3
<1>5. "0" \in {"0", "EAGAIN", "ENOMSG"} /\ Serve(S, "0", data)
  BY <1>1
<1>6. /\ BaseInv'
      /\ \A u \in Threads :
              /\ Pended(u)' <=> Pended(u) /\ u \notin S
              /\ swap_data'[u] = IF u \in S THEN data[u] ELSE swap_data[u]
              /\ swap_retval'[u] = IF u \in S THEN "0" ELSE swap_retval[u]
  BY <1>4, <1>5, ServeKeeps
<1> QED BY <1>1, <1>2, <1>3, <1>6 DEF S

\* A call returns.
LEMMA ResumesKeeps ==
  ASSUME BaseInv, NEW t \in Threads, Resumes(t)
  PROVE  /\ BaseInv' /\ InCall(t) /\ ~Pended(t) /\ ~InCall(t)'
         /\ call'[t] = NONE /\ swap_data'[t] = NONE /\ swap_retval'[t] = "EAGAIN"
         /\ \A u \in Threads : Pended(u)' <=> Pended(u)
         /\ \A u \in Threads : u # t => /\ call'[u] = call[u] /\ (InCall(u)' <=> InCall(u))
                                        /\ swap_data'[u] = swap_data[u]
                                        /\ swap_retval'[u] = swap_retval[u]
<1>1. /\ SchedTypeOK /\ OneQueue /\ swap_data \in [Threads -> Data]
      /\ call \in [Threads -> Calls \cup {NONE}]
      /\ \A u \in Threads : ThreadOK(u)
  BY DEF BaseInv, CallsInv
<1>2. /\ call[t] # NONE /\ ready[t]
      /\ call' = [call EXCEPT ![t] = NONE]
      /\ swap_data' = [swap_data EXCEPT ![t] = NONE]
      /\ swap_retval' = [swap_retval EXCEPT ![t] = "EAGAIN"]
      /\ UNCHANGED <<prio, waitq, pended_on, linked, firing, ready>>
  BY DEF Resumes
<1>3. /\ call'[t] = NONE /\ swap_data'[t] = NONE /\ swap_retval'[t] = "EAGAIN"
      /\ \A u \in Threads : u # t => /\ call'[u] = call[u] /\ swap_data'[u] = swap_data[u]
                                     /\ swap_retval'[u] = swap_retval[u]
  BY <1>1, <1>2 DEF SchedTypeOK
<1>4. \A u \in Threads : Pended(u)' <=> Pended(u)
  BY <1>2 DEF Pended
<1>5. InCall(t) /\ ~InCall(t)' /\ \A u \in Threads : u # t => (InCall(u)' <=> InCall(u))
  BY <1>2, <1>3 DEF InCall
<1>6. ~Pended(t)
  BY <1>1, <1>2 DEF ThreadOK
<1>7. SchedTypeOK' /\ call' \in [Threads -> Calls \cup {NONE}] /\ swap_data' \in [Threads -> Data]
  BY <1>1, <1>2 DEF SchedTypeOK, Data
<1>8. OneQueue'
  BY <1>1, <1>2 DEF OneQueue, Waiters, Pended
<1>9. ASSUME NEW u \in Threads PROVE ThreadOK(u)'
  <2>1. CASE u = t
    BY <1>1, <1>2, <1>3, <1>4, <1>5, <1>6, <2>1 DEF ThreadOK
  <2>2. CASE u # t
    BY <1>1, <1>2, <1>3, <1>4, <1>5, <2>2 DEF ThreadOK
  <2> QED BY <2>1, <2>2
<1> QED BY <1>3, <1>4, <1>5, <1>6, <1>7, <1>8, <1>9 DEF BaseInv, CallsInv

\* The timeout of a thread is dequeued ...
LEMMA ExpireKeeps ==
  ASSUME BaseInv, NEW t \in Threads, Expire(t)
  PROVE  BaseInv' /\ UNCHANGED <<pended_on, call, swap_data, swap_retval, obj>>
<1>1. /\ SchedTypeOK /\ OneQueue /\ swap_data \in [Threads -> Data]
      /\ call \in [Threads -> Calls \cup {NONE}]
      /\ \A u \in Threads : ThreadOK(u)
  BY DEF BaseInv, CallsInv
<1>2. /\ linked[t] /\ linked' = [linked EXCEPT ![t] = FALSE] /\ firing' = t
      /\ UNCHANGED <<prio, waitq, pended_on, ready, swap_retval, obj, call, swap_data>>
  BY DEF Expire, TimeoutExpires, objVars
<1>3. SchedTypeOK'
  BY <1>1, <1>2 DEF SchedTypeOK
<1>4. OneQueue'
  BY <1>1, <1>2 DEF OneQueue, Waiters, Pended
<1>5. ASSUME NEW u \in Threads PROVE ThreadOK(u)'
  <2>1. /\ linked'[t] = FALSE /\ (linked'[u] => linked[u])
    BY <1>1, <1>2 DEF SchedTypeOK
  <2> QED BY <1>1, <1>2, <2>1 DEF ThreadOK, Pended, InCall
<1> QED BY <1>1, <1>2, <1>3, <1>4, <1>5 DEF BaseInv, CallsInv

\* ... and wakes it, unless somebody was faster.
LEMMA CallbackKeeps ==
  ASSUME BaseInv, Callback
  PROVE  /\ BaseInv' /\ UNCHANGED <<call, swap_data, swap_retval, obj>>
         /\ \A u \in Threads : Pended(u)' => Pended(u)
<1> DEFINE t == firing
<1>1. /\ SchedTypeOK /\ OneQueue /\ swap_data \in [Threads -> Data]
      /\ call \in [Threads -> Calls \cup {NONE}]
      /\ \A u \in Threads : ThreadOK(u)
  BY DEF BaseInv, CallsInv
<1>2. SchedTypeOK' /\ OneQueue'
  BY <1>1, TimeoutQueue DEF Callback
<1>3. /\ t \in Threads /\ firing' = NONE
      /\ pended_on' = [pended_on EXCEPT ![t] = NONE]
      /\ ready' = [ready EXCEPT ![t] = ready[t] \/ (pended_on'[t] = NONE /\ ~linked[t])]
      /\ UNCHANGED <<linked, swap_retval, obj, call, swap_data>>
  BY <1>1 DEF Callback, ThreadTimeout, Readied, SchedTypeOK, objVars
<1> HIDE DEF t
<1>4. \A u \in Threads : Pended(u)' <=> Pended(u) /\ u # t
  BY <1>1, <1>3 DEF SchedTypeOK, Pended
<1>5. ~linked[t] /\ ready'[t] /\ \A u \in Threads : u # t => ready'[u] = ready[u]
  BY <1>1, <1>3 DEF ThreadOK, SchedTypeOK, t
<1>6. ASSUME NEW u \in Threads PROVE ThreadOK(u)'
  <2>1. CASE u = t
    BY <1>1, <1>3, <1>4, <1>5, <2>1, WaitQAssumption DEF ThreadOK, InCall
  <2>2. CASE u # t
    BY <1>1, <1>3, <1>4, <1>5, <2>2, WaitQAssumption DEF ThreadOK, InCall
  <2> QED BY <2>1, <2>2
<1> QED BY <1>1, <1>2, <1>3, <1>4, <1>6 DEF BaseInv, CallsInv

\* The threads are left alone, but for the calls of some that are not pended.
LEMMA SameKeeps ==
  ASSUME BaseInv, UNCHANGED <<schedVars, swap_data>>,
         call' \in [Threads -> Calls \cup {NONE}],
         \A u \in Threads : Pended(u) => InCall(u)',
         \A u \in Threads : ~InCall(u)' => swap_data[u] = NONE /\ swap_retval[u] = "EAGAIN"
  PROVE  BaseInv' /\ UNCHANGED <<pended_on, swap_data, swap_retval>>
<1>1. UNCHANGED <<prio, waitq, pended_on, linked, firing, ready, swap_retval, swap_data>>
  BY DEF schedVars
<1>2. /\ SchedTypeOK /\ OneQueue /\ swap_data \in [Threads -> Data]
      /\ \A u \in Threads : ThreadOK(u)
  BY DEF BaseInv, CallsInv
<1>3. SchedTypeOK'
  BY <1>1, <1>2 DEF SchedTypeOK
<1>4. OneQueue'
  BY <1>1, <1>2 DEF OneQueue, Waiters, Pended
<1>5. \A u \in Threads : ThreadOK(u)'
  BY <1>1, <1>2 DEF ThreadOK, Pended
<1> QED BY <1>1, <1>2, <1>3, <1>4, <1>5 DEF BaseInv, CallsInv

\* The threads are left alone.
LEMMA IdleKeeps ==
  ASSUME BaseInv, UNCHANGED <<schedVars, call, swap_data>>
  PROVE  BaseInv' /\ UNCHANGED <<pended_on, call, swap_data, swap_retval>>
<1>1. call \in [Threads -> Calls \cup {NONE}] /\ \A u \in Threads : ThreadOK(u)
  BY DEF BaseInv, CallsInv
<1>2. \A u \in Threads : InCall(u)' <=> InCall(u)
  BY DEF InCall
<1> QED BY <1>1, <1>2, SameKeeps DEF ThreadOK

(***************************************************************************)
(* The objects: each keeps its part of the invariant                       *)
(***************************************************************************)
\* The kind of the object says which part.
LEMMA Kinds ==
  ASSUME ObjectOK
  PROVE  /\ obj.kind \in {"msgq", "queue", "stack", "slab", "heap", "event", "timer", "sys_sem"}
         /\ obj.kind = "msgq" => MsgqOK
         /\ obj.kind = "queue" => QueueOK
         /\ obj.kind = "stack" => StackOK
         /\ obj.kind = "slab" => SlabOK
         /\ obj.kind = "heap" => HeapOK
         /\ obj.kind = "event" => EventOK
         /\ obj.kind = "timer" => TimerOK
         /\ obj.kind = "sys_sem" => SysSemOK
<1>1. /\ MsgqOK => obj.kind = "msgq"
      /\ QueueOK => obj.kind = "queue"
      /\ StackOK => obj.kind = "stack"
      /\ SlabOK => obj.kind = "slab"
      /\ HeapOK => obj.kind = "heap"
      /\ EventOK => obj.kind = "event"
      /\ TimerOK => obj.kind = "timer"
      /\ SysSemOK => obj.kind = "sys_sem"
  BY DEF MsgqOK, Ring, QueueOK, StackOK, SlabOK, HeapOK, EventOK, TimerOK, TimerObj, SysSemOK
<1> QED BY <1>1 DEF ObjectOK

\* Calls that are left alone.
LEMMA SameCalls ==
  ASSUME BaseInv, UNCHANGED call
  PROVE  /\ call' \in [Threads -> Calls \cup {NONE}]
         /\ \A u \in Threads : InCall(u)' <=> InCall(u)
BY DEF BaseInv, CallsInv, InCall

\* The calls of the operations that wait.
LEMMA CallTypes ==
  /\ \A x \in Items \cup {NONE} : \A op \in {"put", "get", "pop", "alloc", "sync"} :
       [op |-> op, arg |-> x] \in Calls
  /\ \A w \in Waits : [op |-> "wait", arg |-> w] \in Calls
  /\ \A b \in BOOLEAN : \A op \in {"test", "pend", "dec", "wait"} :
       [op |-> op, arg |-> b] \in Calls
  /\ \A a \in [n : Requests, timed : BOOLEAN] : [op |-> "alloc", arg |-> a] \in Calls
BY DEF Calls, CallsWith

\* What the items handed out are.
LEMMA OutsideItems ==
  ASSUME NEW c, NEW x \in Outside(c)
  PROVE  /\ x \in Items /\ x # NONE /\ x \in Data
         /\ \A k \in DOMAIN c : c[k] # x
         /\ \A t \in Threads : swap_data[t] # x /\ (InCall(t) => call[t].arg # x)
BY BlockingAssumption DEF Outside, Data, InCall

(***************************************************************************)
(* Queues                                                                  *)
(***************************************************************************)
LEMMA InsertedAtSeq ==
  ASSUME NEW T, NEW s \in Seq(T), NEW k \in 0..Len(s), NEW x \in T
  PROVE  InsertedAt(s, k, x) \in Seq(T)
<1>1. SubSeq(s, k + 1, Len(s)) \in Seq(T)
  BY RestFacts
<1>2. SubSeq(s, 1, k) \in Seq(T) /\ <<x>> \in Seq(T)
  OBVIOUS
<1> QED BY <1>1, <1>2 DEF InsertedAt

\* The item goes to the first that waits, when the object is empty, or to the
\* object when nobody waits.
LEMMA QueueInsertKeeps ==
  ASSUME BaseInv, QueueOK, NEW x \in Items, NEW k \in 0..Len(obj.data_q), QueueInsert(x, k)
  PROVE  BaseInv' /\ QueueOK'
<1>1. /\ call' = call /\ x \in Data /\ obj \in [kind : {"queue"}, data_q : Seq(Items)]
      /\ call' \in [Threads -> Calls \cup {NONE}]
      /\ \A u \in Threads : InCall(u)' <=> InCall(u)
  BY SameCalls DEF QueueInsert, Data, QueueOK
<1>2. CASE ServeFirst(x) /\ UNCHANGED obj
  <2>1. /\ BaseInv'
        /\ \A u \in Threads :
              /\ Pended(u)' <=> Pended(u) /\ u # First
              /\ swap_data'[u] = IF u = First THEN x ELSE swap_data[u]
              /\ swap_retval'[u] = IF u = First THEN "0" ELSE swap_retval[u]
    BY <1>1, <1>2, ServeFirstKeeps
  <2> QED BY <1>1, <1>2, <2>1 DEF QueueOK
<1>3. CASE /\ Waiters = <<>> /\ obj' = [obj EXCEPT !.data_q = InsertedAt(@, k, x)]
           /\ UNCHANGED <<schedVars, swap_data>>
  <2>1. InsertedAt(obj.data_q, k, x) \in Seq(Items)
    BY <1>1, InsertedAtSeq
  <2>2. obj' \in [kind : {"queue"}, data_q : Seq(Items)]
    BY <1>1, <1>3, <2>1
  <2>3. BaseInv' /\ UNCHANGED <<pended_on, call, swap_data, swap_retval>>
    BY <1>1, <1>3, IdleKeeps
  <2>4. \A u \in Threads : ~Pended(u)'
    BY <1>3, <2>3, BaseFacts DEF Pended
  <2> QED BY <1>1, <2>2, <2>3, <2>4 DEF QueueOK
<1> QED BY <1>2, <1>3 DEF QueueInsert

\* The first two threads that wait get the items of a list.
LEMMA QueueAppendListFacts ==
  ASSUME BaseInv, QueueOK, NEW x \in Items, NEW y \in Items, QueueAppendList(x, y)
  PROVE  LET n == Len(Waiters)
             S == {Waiters[k] : k \in 1..n \cap 1..2}
         IN  /\ BaseInv' /\ call' = call /\ n \in Nat
             /\ \A t \in S : t \in Threads /\ Pended(t)
             /\ \A u \in Threads :
                  /\ Pended(u)' <=> Pended(u) /\ u \notin S
                  /\ swap_data'[u] = IF u \in S THEN (IF u = First THEN x ELSE y) ELSE swap_data[u]
                  /\ swap_retval'[u] = IF u \in S THEN "0" ELSE swap_retval[u]
             /\ obj' = [obj EXCEPT !.data_q = @ \o SubSeq(<<x, y>>, n + 1, 2)]
<1> DEFINE n == Len(Waiters)
           S == {Waiters[k] : k \in 1..n \cap 1..2}
           data == [t \in S |-> IF t = First THEN x ELSE y]
<1>1. /\ Serve(S, "0", data) /\ call' = call
      /\ obj' = [obj EXCEPT !.data_q = @ \o SubSeq(<<x, y>>, n + 1, 2)]
  BY DEF QueueAppendList
<1>2. Waiters \in Seq(Threads) /\ n \in Nat
  BY BaseFacts
<1>3. \A t \in S : t \in Threads /\ Pended(t)
  <2> TAKE t \in S
  <2>1. PICK k \in 1..n : Waiters[k] = t
    OBVIOUS
  <2>2. t \in Threads /\ IsIn(Waiters, t)
    BY <1>2, <2>1 DEF IsIn
  <2> QED BY <2>2, BaseFacts
<1>4. \A t \in S : data[t] = (IF t = First THEN x ELSE y) /\ data[t] \in Data
  BY DEF Data
<1>5. /\ call' \in [Threads -> Calls \cup {NONE}]
      /\ \A u \in Threads : InCall(u)' <=> InCall(u)
  BY <1>1, SameCalls
<1>6. "0" \in {"0", "EAGAIN", "ENOMSG"}
  OBVIOUS
<1> HIDE DEF S, data
<1>7. /\ BaseInv'
      /\ \A u \in Threads :
              /\ Pended(u)' <=> Pended(u) /\ u \notin S
              /\ swap_data'[u] = IF u \in S THEN data[u] ELSE swap_data[u]
              /\ swap_retval'[u] = IF u \in S THEN "0" ELSE swap_retval[u]
  <2>1. (\A t \in S : t \in Threads /\ Pended(t)) /\ \A t \in S : data[t] \in Data
    BY <1>3, <1>4
  <2> QED BY <1>1, <1>5, <1>6, <2>1, ServeKeeps
<1> HIDE DEF n
<1>8. \A u \in Threads :
        swap_data'[u] = IF u \in S THEN (IF u = First THEN x ELSE y) ELSE swap_data[u]
  BY <1>4, <1>7
<1> QED BY <1>1, <1>2, <1>3, <1>7, <1>8 DEF n, S

\* What is left of the list when more threads wait than it has items.
LEMMA ListRest ==
  ASSUME NEW x \in Items, NEW y \in Items, NEW n \in Nat
  PROVE  /\ SubSeq(<<x, y>>, n + 1, 2) \in Seq(Items)
         /\ n = 0 => SubSeq(<<x, y>>, n + 1, 2) = <<x, y>>
         /\ n = 1 => SubSeq(<<x, y>>, n + 1, 2) = <<y>>
         /\ n > 1 => SubSeq(<<x, y>>, n + 1, 2) = <<>>
<1> DEFINE s == <<x, y>>
<1>1. s \in Seq(Items) /\ Len(s) = 2 /\ s[1] = x /\ s[2] = y
  OBVIOUS
<1> HIDE DEF s
<1>2. CASE n = 0
  <2>1. SubSeq(s, 1, 2) \in Seq(Items) /\ SubSeq(s, 1, 2) = s
    BY <1>1
  <2> QED BY <1>2, <2>1 DEF s
<1>3. CASE n = 1
  <2>1. Tail(s) = SubSeq(s, 2, Len(s)) /\ Tail(s) = <<y>>
    <3>1. s # <<>> /\ Tail(s) = <<y>>
      BY <1>1 DEF s
    <3> QED BY <1>1, <3>1, TailIsSubSeq
  <2>2. n + 1 = 2 /\ Len(s) = 2 /\ <<y>> \in Seq(Items) /\ n # 0 /\ ~(n > 1)
    BY <1>1, <1>3
  <2>3. SubSeq(s, n + 1, 2) = <<y>>
    BY <2>1, <2>2, Zenon
  <2> QED BY <2>2, <2>3 DEF s
<1>4. CASE n > 1
  <2>1. SubSeq(s, n + 1, 2) = <<>>
    BY <1>1, <1>4
  <2> QED BY <1>4, <2>1 DEF s
<1> QED BY <1>2, <1>3, <1>4

LEMMA QueueAppendListKeeps ==
  ASSUME BaseInv, QueueOK, NEW x \in Items, NEW y \in Items, QueueAppendList(x, y)
  PROVE  BaseInv' /\ QueueOK'
<1> DEFINE n == Len(Waiters)
           S == {Waiters[k] : k \in 1..n \cap 1..2}
           rest == SubSeq(<<x, y>>, n + 1, 2)
<1>1. /\ BaseInv' /\ call' = call /\ n \in Nat
      /\ \A t \in S : t \in Threads /\ Pended(t)
      /\ \A u \in Threads :
           /\ Pended(u)' <=> Pended(u) /\ u \notin S
           /\ swap_data'[u] = IF u \in S THEN (IF u = First THEN x ELSE y) ELSE swap_data[u]
           /\ swap_retval'[u] = IF u \in S THEN "0" ELSE swap_retval[u]
      /\ obj' = [obj EXCEPT !.data_q = @ \o rest]
  BY QueueAppendListFacts
<1>2. obj \in [kind : {"queue"}, data_q : Seq(Items)]
  BY DEF QueueOK
<1>3. rest \in Seq(Items) /\ (n > 1 => rest = <<>>)
  <2> HIDE DEF n
  <2> QED BY <1>1, ListRest
<1>4. \A u \in Threads : Pended(u)' => n > 1
  <2> SUFFICES ASSUME NEW u \in Threads, Pended(u)', ~(n > 1) PROVE FALSE
    OBVIOUS
  <2>1. IsIn(Waiters, u) /\ Waiters \in Seq(Threads)
    BY <1>1, BaseFacts
  <2>2. PICK k \in 1..n : Waiters[k] = u
    BY <2>1 DEF IsIn
  <2>3. k \in 1..n \cap 1..2
    BY <1>1, <2>2
  <2>4. u \in S
    BY <2>2, <2>3
  <2> QED BY <1>1, <2>4
<1> HIDE DEF S, n, rest
<1>5. /\ obj' \in [kind : {"queue"}, data_q : Seq(Items)] /\ obj'.data_q = obj.data_q \o rest
  <2>1. obj.data_q \o rest \in Seq(Items)
    BY <1>2, <1>3, ConcatProperties
  <2> QED BY <1>1, <1>2, <2>1
<1>6. \A u \in Threads : Pended(u)' => obj'.data_q = <<>>
  <2> SUFFICES ASSUME NEW u \in Threads, Pended(u)' PROVE obj'.data_q = <<>>
    OBVIOUS
  <2>1. obj.data_q = <<>> /\ rest = <<>>
    BY <1>1, <1>3, <1>4 DEF QueueOK
  <2> QED BY <1>5, <2>1
<1>7. \A u \in Threads :
        /\ swap_data'[u] \in Items \cup {NONE}
        /\ InCall(u)' => call'[u].op = "get" /\ (swap_data'[u] # NONE => swap_retval'[u] = "0")
  BY <1>1 DEF QueueOK, InCall
<1> QED BY <1>1, <1>5, <1>6, <1>7 DEF QueueOK

LEMMA QueueStep ==
  ASSUME BaseInv, QueueOK, QueueNext
  PROVE  BaseInv' /\ QueueOK'
<1>1. obj \in [kind : {"queue"}, data_q : Seq(Items)]
  BY DEF QueueOK
<1>2. CASE \E x \in Items : \E k \in 0..Len(obj.data_q) : QueueInsert(x, k)
  BY <1>2, QueueInsertKeeps
<1>3. CASE \E x, y \in Items : QueueAppendList(x, y)
  BY <1>3, QueueAppendListKeeps
<1>4. CASE QueueGet
  <2>1. BaseInv' /\ UNCHANGED <<pended_on, call, swap_data, swap_retval>>
    BY <1>4, IdleKeeps DEF QueueGet
  <2>2. obj' \in [kind : {"queue"}, data_q : Seq(Items)] /\ \A u \in Threads : ~Pended(u)
    BY <1>1, <1>4 DEF QueueGet, QueueOK
  <2> QED BY <2>1, <2>2 DEF QueueOK, Pended, InCall
<1>5. CASE QueueCancelWait
  <2>1. ServeFirst(NONE) /\ call' = call /\ obj' = obj /\ NONE \in Data
    BY <1>5 DEF QueueCancelWait, Data
  <2>2. /\ call' \in [Threads -> Calls \cup {NONE}]
        /\ \A u \in Threads : InCall(u)' <=> InCall(u)
    BY <2>1, SameCalls
  <2>3. /\ BaseInv'
        /\ \A u \in Threads :
              /\ Pended(u)' <=> Pended(u) /\ u # First
              /\ swap_data'[u] = IF u = First THEN NONE ELSE swap_data[u]
              /\ swap_retval'[u] = IF u = First THEN "0" ELSE swap_retval[u]
    BY <2>1, <2>2, ServeFirstKeeps
  <2> QED BY <1>1, <2>1, <2>2, <2>3 DEF QueueOK
<1>6. CASE \E t \in Threads, timed \in BOOLEAN : QueueGetWait(t, timed)
  <2>1. PICK t \in Threads, timed \in BOOLEAN : QueueGetWait(t, timed)
    BY <1>6
  <2>2. Wait(t, "get", NONE, timed) /\ obj' = obj /\ obj.data_q = <<>>
    BY <2>1 DEF QueueGetWait
  <2>3. [op |-> "get", arg |-> NONE] \in Calls
    BY CallTypes
  <2>4. /\ BaseInv' /\ swap_data[t] = NONE
        /\ call'[t] = [op |-> "get", arg |-> NONE]
        /\ \A u \in Threads : u # t => call'[u] = call[u]
        /\ swap_data' = swap_data /\ swap_retval' = swap_retval
    BY <2>2, <2>3, WaitKeeps
  <2> QED BY <1>1, <2>2, <2>4 DEF QueueOK, InCall
<1> QED BY <1>2, <1>3, <1>4, <1>5, <1>6 DEF QueueNext

(***************************************************************************)
(* Stacks and memory slabs                                                 *)
(***************************************************************************)
\* A list without its last element.
LEMMA FrontFacts ==
  ASSUME NEW T, NEW s \in Seq(T), s # <<>>
  PROVE  /\ Len(s) \in Nat \ {0}
         /\ SubSeq(s, 1, Len(s) - 1) \in Seq(T) /\ Len(SubSeq(s, 1, Len(s) - 1)) = Len(s) - 1
         /\ \A i \in 1..(Len(s) - 1) : SubSeq(s, 1, Len(s) - 1)[i] = s[i]
<1> DEFINE n == Len(s) - 1
           r == SubSeq(s, 1, n)
<1>1. Len(s) \in Nat \ {0} /\ n \in Nat /\ \A i \in 1..n : s[i] \in T
  OBVIOUS
<1> HIDE DEF n
<1>2. /\ r \in Seq(T) /\ Len(r) = (IF 1 <= n THEN n - 1 + 1 ELSE 0)
      /\ \A i \in 1..(n - 1 + 1) : r[i] = s[1 + i - 1]
  <2>1. 1 \in Int /\ n \in Int
    BY <1>1
  <2> QED BY <1>1, <2>1, SubSeqProperties
<1> HIDE DEF r
<1>3. Len(r) = n /\ \A i \in 1..n : r[i] = s[i]
  BY <1>1, <1>2
<1> QED BY <1>1, <1>2, <1>3 DEF n, r

LEMMA StackPushKeeps ==
  ASSUME BaseInv, StackOK, NEW x \in Items, StackPush(x)
  PROVE  BaseInv' /\ StackOK'
<1>1. /\ call' = call /\ x \in Data /\ x # NONE
      /\ obj \in [kind : {"stack"}, entries : Seq(Items)]
      /\ call' \in [Threads -> Calls \cup {NONE}]
      /\ \A u \in Threads : InCall(u)' <=> InCall(u)
  BY SameCalls, BlockingAssumption DEF StackPush, Data, StackOK
<1>2. CASE ServeFirst(x) /\ UNCHANGED obj
  <2>1. /\ BaseInv'
        /\ \A u \in Threads :
              /\ Pended(u)' <=> Pended(u) /\ u # First
              /\ swap_data'[u] = IF u = First THEN x ELSE swap_data[u]
              /\ swap_retval'[u] = IF u = First THEN "0" ELSE swap_retval[u]
    BY <1>1, <1>2, ServeFirstKeeps
  <2> QED BY <1>1, <1>2, <2>1 DEF StackOK, Truthful, WasServed
<1>3. CASE /\ Waiters = <<>> /\ obj' = [obj EXCEPT !.entries = Append(@, x)]
           /\ UNCHANGED <<schedVars, swap_data>>
  <2>1. /\ Append(obj.entries, x) \in Seq(Items)
        /\ Len(Append(obj.entries, x)) = Len(obj.entries) + 1 /\ Len(obj.entries) \in Nat
    BY <1>1
  <2>2. /\ obj' \in [kind : {"stack"}, entries : Seq(Items)] /\ Len(obj'.entries) <= max_entries
    <3> DEFINE r == Append(obj.entries, x)
    <3>1. obj' = [obj EXCEPT !.entries = r] /\ r \in Seq(Items)
      BY <1>1, <1>3, <2>1
    <3>2. Len(r) = Len(obj.entries) + 1 /\ Len(obj.entries) < max_entries
      BY <2>1 DEF StackPush
    <3> HIDE DEF r
    <3>3. obj' \in [kind : {"stack"}, entries : Seq(Items)] /\ obj'.entries = r
      BY <1>1, <3>1
    <3>4. Len(r) <= max_entries
      BY <2>1, <3>2, PoolsAssumption
    <3> QED BY <3>3, <3>4
  <2>3. BaseInv' /\ UNCHANGED <<pended_on, call, swap_data, swap_retval>>
    BY <1>1, <1>3, IdleKeeps
  <2>4. \A u \in Threads : ~Pended(u)'
    BY <1>3, <2>3, BaseFacts DEF Pended
  <2> QED BY <1>1, <2>2, <2>3, <2>4 DEF StackOK, Truthful, WasServed
<1> QED BY <1>2, <1>3 DEF StackPush

LEMMA StackStep ==
  ASSUME BaseInv, StackOK, StackNext
  PROVE  BaseInv' /\ StackOK'
<1>1. obj \in [kind : {"stack"}, entries : Seq(Items)] /\ Len(obj.entries) <= max_entries
  BY DEF StackOK
<1>2. CASE \E x \in Items : StackPush(x)
  BY <1>2, StackPushKeeps
<1>3. CASE StackPop
  <2> DEFINE s == obj.entries
             r == SubSeq(s, 1, Len(s) - 1)
  <2>1. BaseInv' /\ UNCHANGED <<pended_on, call, swap_data, swap_retval>>
    BY <1>3, IdleKeeps DEF StackPop
  <2>2. s # <<>> /\ s \in Seq(Items) /\ obj' = [obj EXCEPT !.entries = r]
    BY <1>1, <1>3 DEF StackPop
  <2>3. r \in Seq(Items) /\ Len(r) = Len(s) - 1 /\ Len(s) \in Nat
    <3> HIDE DEF s
    <3> QED BY <2>2, FrontFacts
  <2> HIDE DEF r
  <2>4. /\ obj' \in [kind : {"stack"}, entries : Seq(Items)] /\ obj'.entries = r
        /\ \A u \in Threads : ~Pended(u)
    BY <1>1, <2>2, <2>3 DEF StackOK
  <2>5. Len(obj'.entries) <= max_entries
    BY <1>1, <2>3, <2>4, PoolsAssumption
  <2> QED BY <2>1, <2>4, <2>5 DEF StackOK, Pended, InCall, Truthful, WasServed
<1>4. CASE \E t \in Threads, timed \in BOOLEAN : StackPopWait(t, timed)
  <2>1. PICK t \in Threads, timed \in BOOLEAN : StackPopWait(t, timed)
    BY <1>4
  <2>2. Wait(t, "pop", NONE, timed) /\ obj' = obj /\ obj.entries = <<>>
    BY <2>1 DEF StackPopWait
  <2>3. [op |-> "pop", arg |-> NONE] \in Calls
    BY CallTypes
  <2>4. /\ BaseInv' /\ swap_data[t] = NONE /\ swap_retval[t] = "EAGAIN"
        /\ call'[t] = [op |-> "pop", arg |-> NONE]
        /\ \A u \in Threads : u # t => call'[u] = call[u]
        /\ swap_data' = swap_data /\ swap_retval' = swap_retval
    BY <2>2, <2>3, WaitKeeps
  <2> QED BY <1>1, <2>2, <2>4 DEF StackOK, InCall, Truthful, WasServed
<1> QED BY <1>2, <1>3, <1>4 DEF StackNext

LEMMA SlabFreeKeeps ==
  ASSUME BaseInv, SlabOK, NEW x \in Items, SlabFree(x)
  PROVE  BaseInv' /\ SlabOK'
<1> DEFINE N == Cardinality(Items)
<1>1. /\ call' = call /\ x \in Data /\ x # NONE
      /\ obj \in [kind : {"slab"}, free_list : Seq(Items), num_used : Int]
      /\ call' \in [Threads -> Calls \cup {NONE}]
      /\ \A u \in Threads : InCall(u)' <=> InCall(u)
  BY SameCalls, BlockingAssumption DEF SlabFree, Data, SlabOK
<1>2. CASE ServeFirst(x) /\ UNCHANGED obj
  <2>1. /\ BaseInv'
        /\ \A u \in Threads :
              /\ Pended(u)' <=> Pended(u) /\ u # First
              /\ swap_data'[u] = IF u = First THEN x ELSE swap_data[u]
              /\ swap_retval'[u] = IF u = First THEN "0" ELSE swap_retval[u]
    BY <1>1, <1>2, ServeFirstKeeps
  <2> QED BY <1>1, <1>2, <2>1 DEF SlabOK, Truthful, WasServed
<1>3. CASE /\ obj.free_list # <<>> \/ Waiters = <<>>
           /\ obj' = [obj EXCEPT !.free_list = <<x>> \o @, !.num_used = @ - 1]
           /\ UNCHANGED <<schedVars, swap_data>>
  <2> DEFINE s == <<x>> \o obj.free_list
  <2>1. s \in Seq(Items) /\ Len(s) = Len(obj.free_list) + 1 /\ Len(obj.free_list) \in Nat
    BY <1>1
  <2> HIDE DEF s
  <2>2. obj' = [obj EXCEPT !.free_list = s, !.num_used = obj.num_used - 1]
    BY <1>1, <1>3 DEF s
  <2>3. N \in Nat /\ obj.num_used = N - Len(obj.free_list)
    BY PoolsAssumption, FS_CardinalityType DEF SlabOK
  <2> HIDE DEF N
  <2>4. /\ obj' \in [kind : {"slab"}, free_list : Seq(Items), num_used : Int]
        /\ obj'.free_list = s /\ obj'.num_used = obj.num_used - 1
    <3> DEFINE m == obj.num_used - 1
    <3>1. m \in Int /\ obj' = [obj EXCEPT !.free_list = s, !.num_used = m]
      BY <1>1, <2>2
    <3> HIDE DEF m
    <3>2. obj' \in [kind : {"slab"}, free_list : Seq(Items), num_used : Int]
          /\ obj'.free_list = s /\ obj'.num_used = m
      BY <1>1, <2>1, <3>1
    <3> QED BY <3>2 DEF m
  <2>5. obj'.num_used = N - Len(obj'.free_list)
    <3> DEFINE a == obj.num_used
               b == Len(obj.free_list)
    <3>1. b \in Int /\ N \in Int /\ a = N - b /\ Len(s) = b + 1
      BY <2>1, <2>3
    <3>2. obj'.num_used = a - 1 /\ Len(obj'.free_list) = b + 1
      BY <2>4, <3>1
    <3> HIDE DEF a, b
    <3>3. a - 1 = N - (b + 1)
      BY <3>1
    <3> QED BY <3>2, <3>3
  <2>6. BaseInv' /\ UNCHANGED <<pended_on, call, swap_data, swap_retval>>
    BY <1>1, <1>3, IdleKeeps
  <2>7. \A u \in Threads : ~Pended(u)'
    BY <1>3, <2>6, BaseFacts DEF Pended, SlabOK
  <2> QED BY <1>1, <2>4, <2>5, <2>6, <2>7 DEF SlabOK, Truthful, WasServed, N
<1> QED BY <1>2, <1>3 DEF SlabFree

LEMMA SlabStep ==
  ASSUME BaseInv, SlabOK, SlabNext
  PROVE  BaseInv' /\ SlabOK'
<1> DEFINE N == Cardinality(Items)
<1>1. obj \in [kind : {"slab"}, free_list : Seq(Items), num_used : Int]
  BY DEF SlabOK
<1>2. CASE \E x \in Items : SlabFree(x)
  BY <1>2, SlabFreeKeeps
<1>3. CASE SlabAlloc
  <2> DEFINE s == obj.free_list
  <2>1. BaseInv' /\ UNCHANGED <<pended_on, call, swap_data, swap_retval>>
    BY <1>3, IdleKeeps DEF SlabAlloc
  <2>2. s # <<>> /\ s \in Seq(Items)
        /\ obj' = [obj EXCEPT !.free_list = Tail(s), !.num_used = obj.num_used + 1]
    BY <1>1, <1>3 DEF SlabAlloc
  <2>3. Tail(s) \in Seq(Items) /\ Len(Tail(s)) = Len(s) - 1 /\ Len(s) \in Nat
    <3> HIDE DEF s
    <3> QED BY <2>2
  <2>4. N \in Nat /\ obj.num_used = N - Len(s)
    BY PoolsAssumption, FS_CardinalityType DEF SlabOK
  <2> HIDE DEF N
  <2>5. /\ obj' \in [kind : {"slab"}, free_list : Seq(Items), num_used : Int]
        /\ obj'.free_list = Tail(s) /\ obj'.num_used = obj.num_used + 1
    <3> DEFINE m == obj.num_used + 1
               r == Tail(s)
    <3>1. m \in Int /\ r \in Seq(Items) /\ obj' = [obj EXCEPT !.free_list = r, !.num_used = m]
      BY <1>1, <2>2, <2>3
    <3> HIDE DEF m, r
    <3>2. obj' \in [kind : {"slab"}, free_list : Seq(Items), num_used : Int]
          /\ obj'.free_list = r /\ obj'.num_used = m
      BY <1>1, <3>1
    <3> QED BY <3>2 DEF m, r
  <2>6. obj'.num_used = N - Len(obj'.free_list)
    <3> HIDE DEF s
    <3> QED BY <1>1, <2>3, <2>4, <2>5
  <2>7. \A u \in Threads : ~Pended(u)
    BY <2>2 DEF SlabOK
  <2> HIDE DEF s
  <2> QED BY <2>1, <2>5, <2>6, <2>7 DEF SlabOK, Pended, InCall, Truthful, WasServed, N
<1>4. CASE \E t \in Threads, timed \in BOOLEAN : SlabAllocWait(t, timed)
  <2>1. PICK t \in Threads, timed \in BOOLEAN : SlabAllocWait(t, timed)
    BY <1>4
  <2>2. Wait(t, "alloc", NONE, timed) /\ obj' = obj /\ obj.free_list = <<>>
    BY <2>1 DEF SlabAllocWait
  <2>3. [op |-> "alloc", arg |-> NONE] \in Calls
    BY CallTypes
  <2>4. /\ BaseInv' /\ swap_data[t] = NONE /\ swap_retval[t] = "EAGAIN"
        /\ call'[t] = [op |-> "alloc", arg |-> NONE]
        /\ \A u \in Threads : u # t => call'[u] = call[u]
        /\ swap_data' = swap_data /\ swap_retval' = swap_retval
    BY <2>2, <2>3, WaitKeeps
  <2> QED BY <1>1, <2>2, <2>4 DEF SlabOK, InCall, Truthful, WasServed
<1> QED BY <1>2, <1>3, <1>4 DEF SlabNext

(***************************************************************************)
(* Heaps                                                                   *)
(***************************************************************************)
\* Allocations do not take back what a failure has shown.
LEMMA FullFacts ==
  /\ \A n : CanFail(obj.blocks, n) => Full(obj.blocks, n)
  /\ \A B, C, n : B \subseteq C /\ Full(B, n) => Full(C, n)
<1>1. ASSUME NEW n, CanFail(obj.blocks, n) PROVE Full(obj.blocks, n)
  <2>1. obj.blocks \ {} = obj.blocks /\ {} \in SUBSET obj.blocks
    OBVIOUS
  <2> QED BY <1>1, <2>1 DEF Full
<1>2. ASSUME NEW B, NEW C, NEW n, B \subseteq C, Full(B, n) PROVE Full(C, n)
  <2>1. PICK new \in SUBSET B : CanFail(B \ new, n)
    BY <1>2 DEF Full
  <2> DEFINE D == C \ (B \ new)
  <2>2. C \ D = B \ new /\ D \in SUBSET C
    BY <1>2, <2>1
  <2> QED BY <2>1, <2>2 DEF Full
<1> QED BY <1>1, <1>2

\* An allocation adds a block of the heap.
LEMMA AllocatedFacts ==
  ASSUME HeapOK, NEW n \in Requests, NEW p \in Allocated(n)
  PROVE  /\ p \in [kind : {"heap"}, blocks : SUBSET [at : 1..heap_units, n : Requests],
                   woken : SUBSET Threads]
         /\ obj.blocks \subseteq p.blocks /\ p.woken = obj.woken
<1>1. PICK c \in alloc_chunk(obj.blocks, n) :
        p = [obj EXCEPT !.blocks = @ \cup {[at |-> c.at, n |-> n]}]
  BY DEF Allocated
<1>2. c \in Chunk
  BY <1>1 DEF alloc_chunk, Bucket, Larger, FreeChunks
<1> DEFINE b == [at |-> c.at, n |-> n]
<1>3. b \in [at : 1..heap_units, n : Requests]
  BY <1>2 DEF Chunk
<1> HIDE DEF b
<1>4. p = [obj EXCEPT !.blocks = obj.blocks \cup {b}]
  BY <1>1 DEF b, HeapOK
<1> QED BY <1>3, <1>4 DEF HeapOK

LEMMA HeapFreeKeeps ==
  ASSUME BaseInv, HeapOK, NEW b \in obj.blocks, HeapFree(b)
  PROVE  BaseInv' /\ HeapOK'
<1> DEFINE S == {t \in Threads : IsIn(Waiters, t)}
           data == [t \in S |-> NONE]
<1>1. /\ obj' = [obj EXCEPT !.blocks = @ \ {b}, !.woken = @ \cup S]
      /\ Serve(S, "EAGAIN", data) /\ call' = call
  BY DEF HeapFree, Freed
<1>2. /\ call' \in [Threads -> Calls \cup {NONE}]
      /\ \A u \in Threads : InCall(u)' <=> InCall(u)
  BY <1>1, SameCalls
<1>3. (\A t \in S : t \in Threads /\ Pended(t)) /\ \A t \in S : data[t] \in Data
  BY BaseFacts DEF Data
<1>4. /\ \A t \in S : data[t] = NONE /\ S \subseteq Threads
      /\ \A t \in Threads : t \in S <=> Pended(t)
  BY BaseFacts
<1>5. "EAGAIN" \in {"0", "EAGAIN", "ENOMSG"}
  OBVIOUS
<1> HIDE DEF S, data
<1>6. /\ BaseInv'
      /\ \A u \in Threads :
              /\ Pended(u)' <=> Pended(u) /\ u \notin S
              /\ swap_data'[u] = IF u \in S THEN data[u] ELSE swap_data[u]
              /\ swap_retval'[u] = IF u \in S THEN "EAGAIN" ELSE swap_retval[u]
  BY <1>1, <1>2, <1>3, <1>5, ServeKeeps
<1>7. \A u \in Threads : ~Pended(u)' /\ swap_data'[u] = NONE /\ swap_retval'[u] # "0"
  BY <1>4, <1>6 DEF HeapOK
<1>8. S \subseteq Threads
  BY <1>3
<1>9. /\ obj' \in [kind : {"heap"}, blocks : SUBSET [at : 1..heap_units, n : Requests],
                   woken : SUBSET Threads]
      /\ obj'.woken = obj.woken \cup S
  BY <1>1, <1>8 DEF HeapOK
<1>10. \A u \in Threads : u \in obj'.woken => InCall(u)'
  BY <1>2, <1>4, <1>9, BaseFacts DEF HeapOK, ThreadOK
<1> QED BY <1>1, <1>2, <1>6, <1>7, <1>9, <1>10 DEF HeapOK

LEMMA HeapRetryKeeps ==
  ASSUME BaseInv, HeapOK, NEW t \in Threads, HeapRetry(t)
  PROVE  BaseInv' /\ HeapOK'
<1> DEFINE n == call[t].arg.n
           timed == call[t].arg.timed
           W == obj.woken \ {t}
           o == [obj EXCEPT !.woken = W]
           Obj == [kind : {"heap"}, blocks : SUBSET [at : 1..heap_units, n : Requests],
                   woken : SUBSET Threads]
<1>1. /\ InCall(t) /\ call[t].arg \in [n : Requests, timed : BOOLEAN]
      /\ n \in Requests /\ timed \in BOOLEAN
  BY DEF HeapRetry, HeapOK, InCall
<1>2. obj \in Obj /\ \A u \in Threads :
        /\ swap_data[u] = NONE /\ swap_retval[u] # "0"
        /\ InCall(u) => call[u].op = "alloc" /\ call[u].arg \in [n : Requests, timed : BOOLEAN]
        /\ Pended(u) => Full(obj.blocks, call[u].arg.n)
        /\ u \in obj.woken => InCall(u) /\ ~Pended(u)
  BY DEF HeapOK
<1>3. o \in Obj /\ o.blocks = obj.blocks /\ o.woken = W /\ W \subseteq obj.woken /\ t \notin W
  BY <1>2
<1>4. CASE Resumes(t) /\ obj' \in Obj /\ obj.blocks \subseteq obj'.blocks /\ obj'.woken = W
  <2>1. /\ BaseInv' /\ ~Pended(t)
        /\ call'[t] = NONE /\ swap_data'[t] = NONE /\ swap_retval'[t] = "EAGAIN"
        /\ \A u \in Threads : Pended(u)' <=> Pended(u)
        /\ \A u \in Threads : u # t => /\ call'[u] = call[u] /\ (InCall(u)' <=> InCall(u))
                                       /\ swap_data'[u] = swap_data[u]
                                       /\ swap_retval'[u] = swap_retval[u]
    BY <1>4, ResumesKeeps
  <2> HIDE DEF W
  <2>2. ASSUME NEW u \in Threads
        PROVE  /\ swap_data'[u] = NONE /\ swap_retval'[u] # "0"
               /\ InCall(u)' => /\ call'[u].op = "alloc"
                                /\ call'[u].arg \in [n : Requests, timed : BOOLEAN]
               /\ Pended(u)' => Full(obj'.blocks, call'[u].arg.n)
               /\ u \in obj'.woken => InCall(u)' /\ ~Pended(u)'
    <3>1. CASE u = t
      <4>1. ~InCall(u)' /\ ~Pended(u)' /\ u \notin obj'.woken
        BY <1>3, <1>4, <2>1, <3>1 DEF InCall
      <4> QED BY <2>1, <3>1, <4>1
    <3>2. CASE u # t
      <4>1. Pended(u) => Full(obj'.blocks, call[u].arg.n)
        BY <1>2, <1>4, FullFacts
      <4>2. u \in obj'.woken => u \in obj.woken
        BY <1>3, <1>4
      <4> QED BY <1>2, <2>1, <3>2, <4>1, <4>2
    <3> QED BY <3>1, <3>2
  <2> QED BY <1>4, <2>1, <2>2 DEF HeapOK
<1>5. CASE /\ Resumes(t)
           /\ \E p \in Allocated(n) : obj' = [p EXCEPT !.woken = o.woken]
  <2>1. PICK p \in Allocated(n) : obj' = [p EXCEPT !.woken = W]
    BY <1>3, <1>5
  <2>2. p \in Obj /\ obj.blocks \subseteq p.blocks
    <3> HIDE DEF n
    <3> QED BY <1>1, <2>1, AllocatedFacts
  <2>3. obj' \in Obj /\ obj'.blocks = p.blocks /\ obj'.woken = W
    BY <1>2, <2>1, <2>2
  <2> HIDE DEF W, Obj
  <2> QED BY <1>4, <1>5, <2>2, <2>3
<1>6. CASE Resumes(t) /\ obj' = o
  <2> HIDE DEF W, Obj, o
  <2> QED BY <1>3, <1>4, <1>6
<1>7. CASE /\ CanFail(obj.blocks, n) /\ t \in obj.woken
           /\ ~InTimerInterrupt
           /\ Pend(t, wait_q, timed, prio)
           /\ obj' = o
           /\ UNCHANGED <<prio, firing, call, swap_data>>
  <2>1. ~Pended(t) /\ swap_data[t] = NONE /\ firing = NONE
    BY <1>2, <1>7 DEF InTimerInterrupt
  <2>2. /\ call' \in [Threads -> Calls \cup {NONE}]
        /\ \A u \in Threads : InCall(u)' <=> InCall(u)
    BY <1>7, SameCalls
  <2>3. /\ BaseInv'
        /\ \A u \in Threads : Pended(u)' <=> Pended(u) \/ u = t
        /\ swap_retval'[t] = "EAGAIN"
        /\ \A u \in Threads : u # t => swap_retval'[u] = swap_retval[u]
    <3> HIDE DEF timed
    <3> QED BY <1>1, <1>7, <2>1, <2>2, PendKeeps
  <2> HIDE DEF W, o
  <2>4. obj' \in Obj /\ obj.blocks \subseteq obj'.blocks /\ obj'.woken = W
    BY <1>3, <1>7
  <2>5. ASSUME NEW u \in Threads
        PROVE  /\ swap_data'[u] = NONE /\ swap_retval'[u] # "0"
               /\ InCall(u)' => /\ call'[u].op = "alloc"
                                /\ call'[u].arg \in [n : Requests, timed : BOOLEAN]
               /\ Pended(u)' => Full(obj'.blocks, call'[u].arg.n)
               /\ u \in obj'.woken => InCall(u)' /\ ~Pended(u)'
    <3>1. Pended(u)' => Full(obj.blocks, call[u].arg.n)
      BY <1>2, <1>7, <2>3, FullFacts
    <3>2. Pended(u)' => Full(obj'.blocks, call[u].arg.n)
      BY <2>4, <3>1, FullFacts
    <3>3. u \in obj'.woken => u \in obj.woken /\ u # t
      BY <1>3, <2>4
    <3> QED BY <1>2, <1>7, <2>2, <2>3, <3>2, <3>3
  <2> QED BY <2>3, <2>4, <2>5 DEF HeapOK
<1> QED BY <1>5, <1>6, <1>7 DEF HeapRetry

LEMMA HeapStep ==
  ASSUME BaseInv, HeapOK, HeapNext
  PROVE  BaseInv' /\ HeapOK'
<1>1. CASE \E n \in Requests : HeapAlloc(n)
  <2>1. PICK n \in Requests : HeapAlloc(n)
    BY <1>1
  <2>2. BaseInv' /\ UNCHANGED <<pended_on, call, swap_data, swap_retval>>
    BY <2>1, IdleKeeps DEF HeapAlloc
  <2>3. /\ obj' \in [kind : {"heap"}, blocks : SUBSET [at : 1..heap_units, n : Requests],
                     woken : SUBSET Threads]
        /\ obj.blocks \subseteq obj'.blocks /\ obj'.woken = obj.woken
    BY <2>1, AllocatedFacts DEF HeapAlloc
  <2>4. \A u \in Threads : Pended(u) => Full(obj'.blocks, call[u].arg.n)
    BY <2>3, FullFacts DEF HeapOK
  <2> QED BY <2>2, <2>3, <2>4 DEF HeapOK, Pended, InCall
<1>2. CASE \E t \in Threads, n \in Requests, timed \in BOOLEAN : HeapAllocWait(t, n, timed)
  <2>1. PICK t \in Threads, n \in Requests, timed \in BOOLEAN : HeapAllocWait(t, n, timed)
    BY <1>2
  <2> DEFINE a == [n |-> n, timed |-> timed]
  <2>2. Wait(t, "alloc", a, timed) /\ obj' = obj /\ CanFail(obj.blocks, n)
    BY <2>1 DEF HeapAllocWait
  <2>3. a \in [n : Requests, timed : BOOLEAN] /\ a.n = n
    OBVIOUS
  <2> HIDE DEF a
  <2>4. [op |-> "alloc", arg |-> a] \in Calls
    BY <2>3, CallTypes
  <2>5. /\ BaseInv' /\ ~InCall(t) /\ InCall(t)'
        /\ call'[t] = [op |-> "alloc", arg |-> a]
        /\ \A u \in Threads : u # t => call'[u] = call[u]
        /\ \A u \in Threads : Pended(u)' <=> Pended(u) \/ u = t
        /\ swap_data' = swap_data /\ swap_retval' = swap_retval
    BY <2>2, <2>4, WaitKeeps
  <2>6. call'[t].op = "alloc" /\ call'[t].arg = a
    BY <2>5
  <2>7. Full(obj.blocks, n)
    BY <2>2, FullFacts
  <2>8. ASSUME NEW u \in Threads
        PROVE  /\ InCall(u)' => /\ call'[u].op = "alloc"
                                /\ call'[u].arg \in [n : Requests, timed : BOOLEAN]
               /\ Pended(u)' => Full(obj'.blocks, call'[u].arg.n)
               /\ u \in obj'.woken => InCall(u)' /\ ~Pended(u)'
    <3>1. CASE u = t
      BY <2>2, <2>3, <2>5, <2>6, <2>7, <3>1 DEF HeapOK
    <3>2. CASE u # t
      BY <2>2, <2>5, <2>7, <3>2 DEF HeapOK, InCall
    <3> QED BY <3>1, <3>2
  <2> QED BY <2>2, <2>5, <2>8 DEF HeapOK
<1>3. CASE \E t \in Threads : HeapRetry(t)
  BY <1>3, HeapRetryKeeps
<1>4. CASE \E b \in obj.blocks : HeapFree(b)
  BY <1>4, HeapFreeKeeps
<1> QED BY <1>1, <1>2, <1>3, <1>4 DEF HeapNext

(***************************************************************************)
(* Events                                                                  *)
(***************************************************************************)
\* Nobody waits for nothing.
LEMMA NotMetByNone ==
  ASSUME NEW w \in Waits
  PROVE  ~are_wait_conditions_met(w, {})
<1>1. w.events # {} /\ w.all \in BOOLEAN
  BY EventAssumption
<1> QED BY <1>1 DEF are_wait_conditions_met

LEMMA EventPostKeeps ==
  ASSUME BaseInv, EventOK, NEW events \in SUBSET Bits, NEW mask \in SUBSET Bits,
         EventPost(events, mask)
  PROVE  BaseInv' /\ EventOK'
<1> DEFINE now == (obj.events \ mask) \cup (events \cap mask)
           S == {t \in Threads : IsIn(Waiters, t) /\ are_wait_conditions_met(call[t].arg, now)}
           data == [t \in S |-> now]
<1>1. obj' = [obj EXCEPT !.events = now] /\ Serve(S, "0", data) /\ call' = call
  BY DEF EventPost
<1>2. obj \in [kind : {"event"}, events : SUBSET Bits] /\ now \in SUBSET Bits
  BY DEF EventOK
<1>3. now # NONE /\ now \in Data
  BY <1>2, EventAssumption DEF Data
<1> HIDE DEF now
<1>4. /\ call' \in [Threads -> Calls \cup {NONE}]
      /\ \A u \in Threads : InCall(u)' <=> InCall(u)
  BY <1>1, SameCalls
<1>5. /\ \A t \in S : t \in Threads /\ Pended(t)
      /\ \A t \in S : data[t] \in Data
      /\ \A t \in S : data[t] = now
      /\ \A t \in Threads : t \in S <=> Pended(t) /\ are_wait_conditions_met(call[t].arg, now)
  BY <1>3, BaseFacts
<1>6. "0" \in {"0", "EAGAIN", "ENOMSG"}
  OBVIOUS
<1> HIDE DEF S, data
<1>7. /\ BaseInv'
      /\ \A u \in Threads :
              /\ Pended(u)' <=> Pended(u) /\ u \notin S
              /\ swap_data'[u] = IF u \in S THEN data[u] ELSE swap_data[u]
              /\ swap_retval'[u] = IF u \in S THEN "0" ELSE swap_retval[u]
  BY <1>1, <1>4, <1>5, <1>6, ServeKeeps
<1>8. obj' \in [kind : {"event"}, events : SUBSET Bits] /\ obj'.events = now
  BY <1>1, <1>2
<1>9. ASSUME NEW u \in Threads
      PROVE  /\ swap_data'[u] \in (SUBSET Bits) \cup {NONE}
             /\ InCall(u)' =>
                  /\ call'[u].op = "wait" /\ call'[u].arg \in Waits
                  /\ Truthful(u)'
                  /\ swap_data'[u] # NONE => are_wait_conditions_met(call'[u].arg, swap_data'[u])
             /\ Pended(u)' => ~are_wait_conditions_met(call'[u].arg, obj'.events)
  <2>1. CASE u \in S
    <3>1. swap_data'[u] = now /\ swap_retval'[u] = "0" /\ ~Pended(u)'
      BY <1>5, <1>7, <2>1
    <3> QED BY <1>1, <1>2, <1>3, <1>4, <1>5, <2>1, <3>1 DEF EventOK, Truthful, WasServed
  <2>2. CASE u \notin S
    <3>1. swap_data'[u] = swap_data[u] /\ swap_retval'[u] = swap_retval[u] /\ (Pended(u)' <=> Pended(u))
      BY <1>7, <2>2
    <3> QED BY <1>1, <1>4, <1>5, <1>8, <2>2, <3>1 DEF EventOK, Truthful, WasServed
  <2> QED BY <2>1, <2>2
<1> QED BY <1>7, <1>8, <1>9 DEF EventOK

LEMMA EventWaitKeeps ==
  ASSUME BaseInv, EventOK, NEW t \in Threads, NEW w \in Waits,
         NEW reset \in BOOLEAN, NEW timed \in BOOLEAN, EventWait(t, w, reset, timed)
  PROVE  BaseInv' /\ EventOK'
<1> DEFINE now == IF reset THEN {} ELSE obj.events
<1>1. obj \in [kind : {"event"}, events : SUBSET Bits] /\ obj' = [obj EXCEPT !.events = now]
  BY DEF EventOK, EventWait
<1>2. obj' \in [kind : {"event"}, events : SUBSET Bits] /\ obj'.events = now
  BY <1>1
<1>3. \A u \in Threads : Pended(u) => ~are_wait_conditions_met(call[u].arg, now)
  <2> TAKE u \in Threads
  <2>1. Pended(u) => call[u].arg \in Waits
    BY BaseFacts DEF EventOK, ThreadOK
  <2> QED BY <2>1, NotMetByNone DEF EventOK
<1>4. CASE UNCHANGED <<schedVars, call, swap_data>>
  <2> HIDE DEF now
  <2>1. BaseInv' /\ UNCHANGED <<pended_on, call, swap_data, swap_retval>>
    BY <1>4, IdleKeeps
  <2> QED BY <1>2, <1>3, <2>1 DEF EventOK, Pended, InCall, Truthful, WasServed
<1>5. CASE ~are_wait_conditions_met(w, now) /\ Wait(t, "wait", w, timed)
  <2>1. [op |-> "wait", arg |-> w] \in Calls
    BY CallTypes
  <2>2. /\ BaseInv' /\ swap_data[t] = NONE /\ swap_retval[t] = "EAGAIN"
        /\ call'[t] = [op |-> "wait", arg |-> w]
        /\ \A u \in Threads : u # t => call'[u] = call[u]
        /\ \A u \in Threads : Pended(u)' <=> Pended(u) \/ u = t
        /\ swap_data' = swap_data /\ swap_retval' = swap_retval
    BY <1>5, <2>1, WaitKeeps
  <2> HIDE DEF now
  <2>3. ASSUME NEW u \in Threads
        PROVE  /\ swap_data'[u] \in (SUBSET Bits) \cup {NONE}
               /\ InCall(u)' =>
                    /\ call'[u].op = "wait" /\ call'[u].arg \in Waits
                    /\ Truthful(u)'
                    /\ swap_data'[u] # NONE => are_wait_conditions_met(call'[u].arg, swap_data'[u])
               /\ Pended(u)' => ~are_wait_conditions_met(call'[u].arg, obj'.events)
    <3>1. CASE u = t
      BY <1>2, <1>5, <2>2, <3>1 DEF EventOK, Truthful, WasServed
    <3>2. CASE u # t
      BY <1>2, <1>3, <2>2, <3>2 DEF EventOK, Truthful, WasServed, InCall
    <3> QED BY <3>1, <3>2
  <2> QED BY <1>2, <2>2, <2>3 DEF EventOK
<1> QED BY <1>4, <1>5 DEF EventWait

LEMMA EventStep ==
  ASSUME BaseInv, EventOK, EventNext
  PROVE  BaseInv' /\ EventOK'
<1>1. CASE \E events, mask \in SUBSET Bits : EventPost(events, mask)
  BY <1>1, EventPostKeeps
<1>2. CASE \E t \in Threads, w \in Waits, reset, timed \in BOOLEAN : EventWait(t, w, reset, timed)
  BY <1>2, EventWaitKeeps
<1> QED BY <1>1, <1>2 DEF EventNext

(***************************************************************************)
(* Timers                                                                  *)
(***************************************************************************)
\* The one user of the timer is served, and then nobody waits.
LEMMA TimerServe ==
  ASSUME BaseInv, TimerOK, Waiters # <<>>, NEW retval \in {"0", "EAGAIN", "ENOMSG"},
         Serve({First}, retval, [t \in {First} |-> NONE]), UNCHANGED call
  PROVE  /\ BaseInv' /\ \A u \in Threads : InCall(u)' <=> InCall(u)
         /\ \A u \in Threads : ~Pended(u)' /\ swap_data'[u] = NONE
<1> DEFINE S == {First}
           data == [t \in {First} |-> NONE]
<1>1. Serve(S, retval, data)
  OBVIOUS
<1>2. /\ call' \in [Threads -> Calls \cup {NONE}]
      /\ \A u \in Threads : InCall(u)' <=> InCall(u)
  BY SameCalls
<1>3. First \in Threads /\ Pended(First) /\ \A u \in Threads : Pended(u) => InCall(u)
  BY BaseFacts DEF ThreadOK
<1>4. \A t \in S : data[t] = NONE
  OBVIOUS
<1>5. (\A t \in S : t \in Threads /\ Pended(t)) /\ \A t \in S : data[t] \in Data
  BY <1>3, <1>4 DEF Data
<1>6. \A u \in Threads : Pended(u) => u \in S
  BY <1>3 DEF TimerOK
<1> HIDE DEF S, data
<1>7. /\ BaseInv'
      /\ \A u \in Threads :
              /\ Pended(u)' <=> Pended(u) /\ u \notin S
              /\ swap_data'[u] = IF u \in S THEN data[u] ELSE swap_data[u]
              /\ swap_retval'[u] = IF u \in S THEN retval ELSE swap_retval[u]
  BY <1>1, <1>2, <1>5, ServeKeeps
<1> QED BY <1>2, <1>4, <1>6, <1>7 DEF TimerOK

\* The timer and the calls that work on it change, while its user stays where it is.
LEMMA TimerObjKeeps ==
  ASSUME BaseInv, TimerOK, UNCHANGED <<schedVars, call, swap_data>>,
         obj' \in TimerObj, WillReady(obj'),
         (\E u \in Threads : Pended(u)) => WillWake(obj')
  PROVE  BaseInv' /\ TimerOK'
<1>1. BaseInv' /\ UNCHANGED <<pended_on, call, swap_data, swap_retval>>
  BY IdleKeeps
<1> QED BY <1>1 DEF TimerOK, Pended, InCall, TimerObj, WillReady, WillWake

\* The user is taken off the wait queue.
LEMMA TimerUnpendedKeeps ==
  ASSUME BaseInv, TimerOK, Waiters # <<>>, NEW retval \in {"0", "EAGAIN", "ENOMSG"}, NEW o \in TimerObj,
         Unpended(retval, o), o.isr = "ready" \/ \E c \in TimerCallers : o.calls[c] = "ready"
  PROVE  BaseInv' /\ TimerOK'
<1>1. /\ Serve({First}, retval, [t \in {First} |-> NONE]) /\ call' = call
      /\ obj' = [o EXCEPT !.unpended = First]
  BY DEF Unpended
<1>2. First \in Threads
  BY BaseFacts
<1>3. obj' \in TimerObj /\ obj'.isr = o.isr /\ obj'.calls = o.calls
  BY <1>1, <1>2 DEF TimerObj
<1>4. /\ BaseInv' /\ \A u \in Threads : InCall(u)' <=> InCall(u)
      /\ \A u \in Threads : ~Pended(u)' /\ swap_data'[u] = NONE
  BY <1>1, TimerServe
<1>5. WillReady(obj')
  BY <1>3 DEF WillReady
<1> QED BY <1>1, <1>3, <1>4, <1>5 DEF TimerOK, TimerObj, WillReady, WillWake

\* A call goes on.
LEMMA TimerCallFacts ==
  ASSUME TimerOK, NEW c \in TimerCallers, NEW from, NEW o \in TimerObj,
         NEW to \in {"none", "period", "status", "add", "unpend", "ready"},
         o.calls = obj.calls, TimerCall(c, from, to, o)
  PROVE  /\ obj' \in TimerObj /\ obj'.calls[c] = to /\ obj.calls[c] = from
         /\ \A d \in TimerCallers : d # c => obj'.calls[d] = obj.calls[d]
         /\ obj'.linked = o.linked /\ obj'.isr = o.isr /\ obj'.unpended = o.unpended
         /\ UNCHANGED <<schedVars, call, swap_data>>
BY DEF TimerCall, TimerObj

LEMMA TimerCallsKeep ==
  ASSUME BaseInv, TimerOK, NEW c \in TimerCallers,
         \/ TimerStart(c) \/ TimerSetStatus(c) \/ TimerAdd(c)
         \/ \E periodic \in BOOLEAN : TimerSetPeriod(c, periodic)
         \/ TimerStop(c) \/ TimerUnpend(c) \/ CallerReadies(c)
  PROVE  BaseInv' /\ TimerOK'
<1>1. /\ obj \in TimerObj /\ WillReady(obj)
      /\ (\E u \in Threads : Pended(u)) => WillWake(obj)
  BY DEF TimerOK
<1>2. CASE TimerStart(c)
  <2> DEFINE o == [obj EXCEPT !.linked = FALSE]
  <2>1. o \in TimerObj /\ o.calls = obj.calls /\ o.isr = obj.isr /\ o.unpended = obj.unpended
    BY <1>1 DEF TimerObj
  <2>2. TimerCall(c, "none", "period", o)
    BY <1>2 DEF TimerStart
  <2> HIDE DEF o
  <2>3. /\ obj' \in TimerObj /\ obj'.calls[c] = "period" /\ obj.calls[c] = "none"
        /\ \A d \in TimerCallers : d # c => obj'.calls[d] = obj.calls[d]
        /\ obj'.isr = obj.isr /\ obj'.unpended = obj.unpended
        /\ UNCHANGED <<schedVars, call, swap_data>>
    BY <2>1, <2>2, TimerCallFacts
  <2>4. WillReady(obj') /\ (WillWake(obj) => WillWake(obj'))
    BY <1>1, <2>3 DEF WillReady, WillWake
  <2> QED BY <1>1, <2>3, <2>4, TimerObjKeeps
<1>3. CASE TimerSetStatus(c)
  <2> DEFINE o == [obj EXCEPT !.status = 0]
  <2>1. o \in TimerObj /\ o.calls = obj.calls /\ o.isr = obj.isr /\ o.unpended = obj.unpended
    BY <1>1 DEF TimerObj
  <2>2. TimerCall(c, "status", "add", o)
    BY <1>3 DEF TimerSetStatus
  <2> HIDE DEF o
  <2>3. /\ obj' \in TimerObj /\ obj'.calls[c] = "add" /\ obj.calls[c] = "status"
        /\ \A d \in TimerCallers : d # c => obj'.calls[d] = obj.calls[d]
        /\ obj'.isr = obj.isr /\ obj'.unpended = obj.unpended
        /\ UNCHANGED <<schedVars, call, swap_data>>
    BY <2>1, <2>2, TimerCallFacts
  <2>4. WillReady(obj') /\ (WillWake(obj) => WillWake(obj'))
    BY <1>1, <2>3 DEF WillReady, WillWake
  <2> QED BY <1>1, <2>3, <2>4, TimerObjKeeps
<1>4. CASE TimerAdd(c)
  <2> DEFINE o == [obj EXCEPT !.linked = TRUE]
  <2>1. /\ o \in TimerObj /\ o.calls = obj.calls /\ o.isr = obj.isr /\ o.unpended = obj.unpended
        /\ o.linked
    BY <1>1 DEF TimerObj
  <2>2. TimerCall(c, "add", "none", o)
    BY <1>4 DEF TimerAdd
  <2> HIDE DEF o
  <2>3. /\ obj' \in TimerObj /\ obj'.linked /\ obj.calls[c] = "add"
        /\ \A d \in TimerCallers : d # c => obj'.calls[d] = obj.calls[d]
        /\ obj'.isr = obj.isr /\ obj'.unpended = obj.unpended
        /\ UNCHANGED <<schedVars, call, swap_data>>
    BY <2>1, <2>2, TimerCallFacts
  <2>4. WillReady(obj') /\ (WillWake(obj) => WillWake(obj'))
    BY <1>1, <2>3 DEF WillReady, WillWake
  <2> QED BY <1>1, <2>3, <2>4, TimerObjKeeps
<1>5. ASSUME NEW periodic \in BOOLEAN, TimerSetPeriod(c, periodic) PROVE BaseInv' /\ TimerOK'
  <2> DEFINE o == [obj EXCEPT !.periodic = periodic]
  <2>1. o \in TimerObj /\ o.calls = obj.calls /\ o.isr = obj.isr /\ o.unpended = obj.unpended
    BY <1>1 DEF TimerObj
  <2>2. TimerCall(c, "period", "status", o)
    BY <1>5 DEF TimerSetPeriod
  <2> HIDE DEF o
  <2>3. /\ obj' \in TimerObj /\ obj'.calls[c] = "status" /\ obj.calls[c] = "period"
        /\ \A d \in TimerCallers : d # c => obj'.calls[d] = obj.calls[d]
        /\ obj'.isr = obj.isr /\ obj'.unpended = obj.unpended
        /\ UNCHANGED <<schedVars, call, swap_data>>
    BY <2>1, <2>2, TimerCallFacts
  <2>4. WillReady(obj') /\ (WillWake(obj) => WillWake(obj'))
    BY <1>1, <2>3 DEF WillReady, WillWake
  <2> QED BY <1>1, <2>3, <2>4, TimerObjKeeps
<1>6. CASE TimerStop(c)
  <2> DEFINE o == [obj EXCEPT !.linked = FALSE]
  <2>1. o \in TimerObj /\ o.calls = obj.calls /\ o.isr = obj.isr /\ o.unpended = obj.unpended
    BY <1>1 DEF TimerObj
  <2>2. TimerCall(c, "none", "unpend", o)
    BY <1>6 DEF TimerStop
  <2> HIDE DEF o
  <2>3. /\ obj' \in TimerObj /\ obj'.calls[c] = "unpend" /\ obj.calls[c] = "none"
        /\ \A d \in TimerCallers : d # c => obj'.calls[d] = obj.calls[d]
        /\ obj'.isr = obj.isr /\ obj'.unpended = obj.unpended
        /\ UNCHANGED <<schedVars, call, swap_data>>
    BY <2>1, <2>2, TimerCallFacts
  <2>4. WillReady(obj') /\ (WillWake(obj) => WillWake(obj'))
    BY <1>1, <2>3 DEF WillReady, WillWake
  <2> QED BY <1>1, <2>3, <2>4, TimerObjKeeps
<1>7. CASE Waiters = <<>> /\ TimerCall(c, "unpend", "none", obj)
  <2>1. /\ obj' \in TimerObj /\ obj.calls[c] = "unpend"
        /\ \A d \in TimerCallers : d # c => obj'.calls[d] = obj.calls[d]
        /\ obj'.isr = obj.isr /\ obj'.unpended = obj.unpended
        /\ UNCHANGED <<schedVars, call, swap_data>>
    BY <1>1, <1>7, TimerCallFacts
  <2>2. ~\E u \in Threads : Pended(u)
    BY <1>7, BaseFacts
  <2>3. WillReady(obj')
    BY <1>1, <2>1 DEF WillReady
  <2> QED BY <2>1, <2>2, <2>3, TimerObjKeeps
<1>8. CASE /\ Waiters # <<>> /\ obj.calls[c] = "unpend"
           /\ Unpended(swap_retval[First], [obj EXCEPT !.calls[c] = "ready"])
  <2> DEFINE o == [obj EXCEPT !.calls[c] = "ready"]
  <2>1. o \in TimerObj /\ o.calls[c] = "ready"
    BY <1>1 DEF TimerObj
  <2>2. First \in Threads /\ swap_retval[First] \in {"0", "EAGAIN", "ENOMSG"}
    BY <1>8, BaseFacts DEF BaseInv, SchedTypeOK
  <2>3. Unpended(swap_retval[First], o)
    BY <1>8
  <2> HIDE DEF o
  <2> QED BY <1>8, <2>1, <2>2, <2>3, TimerUnpendedKeeps
<1>9. CASE CallerReadies(c)
  <2> DEFINE o == [obj EXCEPT !.unpended = NONE]
  <2>1. o \in TimerObj /\ o.calls = obj.calls /\ o.isr = obj.isr /\ o.linked = obj.linked /\ o.unpended = NONE
    BY <1>1 DEF TimerObj
  <2>2. TimerCall(c, "ready", "none", o)
    BY <1>9 DEF CallerReadies, TimerReady
  <2> HIDE DEF o
  <2>3. /\ obj' \in TimerObj /\ obj.calls[c] = "ready"
        /\ \A d \in TimerCallers : d # c => obj'.calls[d] = obj.calls[d]
        /\ obj'.isr = obj.isr /\ obj'.unpended = NONE /\ obj'.linked = obj.linked
        /\ UNCHANGED <<schedVars, call, swap_data>>
    BY <2>1, <2>2, TimerCallFacts
  <2>4. WillReady(obj') /\ (WillWake(obj) => WillWake(obj'))
    BY <1>1, <2>3 DEF WillReady, WillWake
  <2> QED BY <1>1, <2>3, <2>4, TimerObjKeeps
<1> QED BY <1>2, <1>3, <1>4, <1>5, <1>6, <1>7, <1>8, <1>9 DEF TimerUnpend

LEMMA TimerStep ==
  ASSUME BaseInv, TimerOK, TimerNext
  PROVE  BaseInv' /\ TimerOK'
<1>1. /\ obj \in TimerObj /\ WillReady(obj)
      /\ (\E u \in Threads : Pended(u)) => WillWake(obj)
  BY DEF TimerOK
<1>2. CASE \E c \in TimerCallers :
             \/ TimerStart(c) \/ TimerSetStatus(c) \/ TimerAdd(c)
             \/ \E periodic \in BOOLEAN : TimerSetPeriod(c, periodic)
             \/ TimerStop(c) \/ TimerUnpend(c) \/ CallerReadies(c)
  BY <1>2, TimerCallsKeep
<1>3. CASE TimerExpires
  <2>1. /\ obj' \in TimerObj /\ obj'.isr = "dequeued" /\ obj'.calls = obj.calls
        /\ obj'.unpended = obj.unpended /\ obj.isr = "none"
    BY <1>1, <1>3 DEF TimerExpires, TimerObj
  <2>2. WillReady(obj') /\ WillWake(obj')
    BY <1>1, <2>1 DEF WillReady, WillWake
  <2> QED BY <1>3, <2>1, <2>2, TimerObjKeeps DEF TimerExpires
<1>4. CASE TimerHandler
  <2>1. obj.isr = "dequeued" /\ UNCHANGED <<schedVars, call, swap_data>>
    BY <1>4 DEF TimerHandler
  <2>2. /\ obj' \in TimerObj /\ obj'.calls = obj.calls /\ obj'.unpended = obj.unpended
        /\ obj'.isr # "ready" /\ (obj'.linked \/ obj'.isr # "none")
    <3>1. CASE obj.linked
      <4>1. obj' = [obj EXCEPT !.isr = "none"]
        BY <1>4, <3>1 DEF TimerHandler
      <4> QED BY <1>1, <3>1, <4>1 DEF TimerObj
    <3>2. CASE ~obj.linked
      <4> DEFINE n == obj.status + 1
                 p == obj.periodic
      <4>1. obj' = [obj EXCEPT !.isr = "expiry", !.status = n, !.linked = p]
        BY <1>1, <1>4, <3>2 DEF TimerHandler, TimerObj
      <4>2. n \in Nat /\ p \in BOOLEAN
        BY <1>1 DEF TimerObj
      <4> HIDE DEF n, p
      <4> QED BY <1>1, <4>1, <4>2 DEF TimerObj
    <3> QED BY <3>1, <3>2
  <2>3. WillReady(obj') /\ WillWake(obj')
    BY <1>1, <2>1, <2>2 DEF WillReady, WillWake
  <2> QED BY <2>1, <2>2, <2>3, TimerObjKeeps
<1>5. CASE TimerWake
  <2>1. obj.isr = "expiry"
    BY <1>5 DEF TimerWake
  <2>2. CASE Waiters = <<>> /\ obj' = [obj EXCEPT !.isr = "none"] /\ UNCHANGED <<schedVars, call, swap_data>>
    <3>1. ~\E u \in Threads : Pended(u)
      BY <2>2, BaseFacts
    <3>2. obj' \in TimerObj /\ obj'.calls = obj.calls /\ obj'.unpended = obj.unpended
      BY <1>1, <2>2 DEF TimerObj
    <3>3. WillReady(obj')
      BY <1>1, <2>1, <3>2 DEF WillReady
    <3> QED BY <2>2, <3>1, <3>2, <3>3, TimerObjKeeps
  <2>3. CASE Waiters # <<>> /\ Unpended("0", [obj EXCEPT !.isr = "ready"])
    <3> DEFINE o == [obj EXCEPT !.isr = "ready"]
    <3>1. o \in TimerObj /\ o.isr = "ready" /\ "0" \in {"0", "EAGAIN", "ENOMSG"}
      BY <1>1 DEF TimerObj
    <3>2. Unpended("0", o)
      BY <2>3
    <3> HIDE DEF o
    <3> QED BY <2>3, <3>1, <3>2, TimerUnpendedKeeps
  <2> QED BY <1>5, <2>2, <2>3 DEF TimerWake
<1>6. CASE TimerWakeReady
  <2>1. obj.isr = "ready" /\ UNCHANGED <<schedVars, call, swap_data>>
    BY <1>6 DEF TimerWakeReady
  <2>2. ~\E u \in Threads : Pended(u)
    BY <1>1, <2>1 DEF WillWake
  <2>3. obj' \in TimerObj /\ obj'.unpended = NONE
    BY <1>1, <1>6 DEF TimerWakeReady, TimerObj
  <2> QED BY <2>1, <2>2, <2>3, TimerObjKeeps DEF WillReady
<1>7. CASE TimerStatusGet
  <2>1. /\ obj' \in TimerObj /\ obj'.linked = obj.linked /\ obj'.isr = obj.isr
        /\ obj'.calls = obj.calls /\ obj'.unpended = obj.unpended
    BY <1>1, <1>7 DEF TimerStatusGet, TimerObj
  <2>2. WillReady(obj') /\ (WillWake(obj) => WillWake(obj'))
    BY <1>1, <2>1 DEF WillReady, WillWake
  <2> QED BY <1>1, <1>7, <2>1, <2>2, TimerObjKeeps DEF TimerStatusGet
<1>8. ASSUME NEW t \in Threads, TimerStatusSync(t) PROVE BaseInv' /\ TimerOK'
  <2>1. CASE obj.status = 0 /\ obj.linked /\ Wait(t, "sync", NONE, FALSE) /\ UNCHANGED obj
    <3>1. [op |-> "sync", arg |-> NONE] \in Calls /\ FALSE \in BOOLEAN
      BY CallTypes
    <3>2. /\ BaseInv'
          /\ call'[t] = [op |-> "sync", arg |-> NONE]
          /\ \A u \in Threads : u # t => call'[u] = call[u]
          /\ \A u \in Threads : Pended(u)' <=> Pended(u) \/ u = t
          /\ swap_data' = swap_data /\ swap_retval' = swap_retval
      BY <2>1, <3>1, WaitKeeps
    <3>3. \A u \in Threads : InCall(u)' => u = t
      BY <1>8, <3>2 DEF TimerStatusSync, InCall
    <3>4. obj.kind = "timer" /\ ~InTimerInterrupt
      BY <1>1, <2>1 DEF Wait, Running, TimerObj
    <3>5. WillWake(obj)
      BY <2>1, <3>4 DEF WillWake, InTimerInterrupt
    <3> QED BY <1>1, <2>1, <3>2, <3>3, <3>5 DEF TimerOK
  <2>2. CASE TimerStatusGet
    BY <1>7, <2>2
  <2> QED BY <1>8, <2>1, <2>2 DEF TimerStatusSync
<1>9. ASSUME NEW t \in Threads, TimerSyncReturn(t) PROVE BaseInv' /\ TimerOK'
  <2>1. /\ BaseInv' /\ ~Pended(t) /\ ~InCall(t)'
        /\ swap_data'[t] = NONE
        /\ \A u \in Threads : Pended(u)' <=> Pended(u)
        /\ \A u \in Threads : u # t => /\ call'[u] = call[u] /\ (InCall(u)' <=> InCall(u))
                                       /\ swap_data'[u] = swap_data[u]
                                       /\ swap_retval'[u] = swap_retval[u]
    BY <1>9, ResumesKeeps DEF TimerSyncReturn
  <2>2. /\ obj' \in TimerObj /\ obj'.linked = obj.linked /\ obj'.isr = obj.isr
        /\ obj'.calls = obj.calls /\ obj'.unpended = obj.unpended
    BY <1>1, <1>9 DEF TimerSyncReturn, TimerObj
  <2>3. WillReady(obj') /\ (WillWake(obj) => WillWake(obj'))
    BY <1>1, <2>2 DEF WillReady, WillWake
  <2>4. ASSUME NEW u \in Threads
        PROVE  /\ swap_data'[u] = NONE
               /\ InCall(u)' => call'[u].op = "sync" /\ \A v \in Threads : InCall(v)' => v = u
               /\ Pended(u)' => WillWake(obj')
    BY <1>1, <2>1, <2>3 DEF TimerOK
  <2> QED BY <2>1, <2>2, <2>3, <2>4 DEF TimerOK, TimerObj, WillReady, WillWake
<1> QED
  BY <1>2, <1>3, <1>4, <1>5, <1>6, <1>7, <1>8, <1>9 DEF TimerNext, TimerInterrupt

(***************************************************************************)
(* User-space semaphores                                                   *)
(***************************************************************************)
SysSemObj ==
  [kind : {"sys_sem"}, val : SYS_SEM_CONTENDED..sem_limit, waking : Nat, units : Nat]

\* What SysSemOK says about a thread.
SysSemThread(t) ==
  /\ swap_data[t] = NONE
  /\ InCall(t) =>
       /\ call[t].op \in {"test", "pend", "dec", "wait"}
       /\ call[t].arg \in BOOLEAN
       /\ call[t].op \in {"test", "pend", "dec"} => swap_retval[t] = "EAGAIN"
  /\ Pended(t) => call[t].op = "wait"

LEMMA SysSemParts ==
  SysSemOK <=> /\ obj \in SysSemObj
               /\ obj.units = IF obj.val > 0 THEN obj.val ELSE 0
               /\ \A t \in Threads : SysSemThread(t)
BY DEF SysSemOK, SysSemObj, SysSemThread

\* Only the object changes, and the threads have nothing to complain of.
LEMMA SysSemObjKeeps ==
  ASSUME BaseInv, SysSemOK, UNCHANGED <<schedVars, call, swap_data>>,
         obj' \in SysSemObj, obj'.units = IF obj'.val > 0 THEN obj'.val ELSE 0
  PROVE  BaseInv' /\ SysSemOK'
<1>1. BaseInv' /\ UNCHANGED <<pended_on, call, swap_data, swap_retval>>
  BY IdleKeeps
<1>2. \A t \in Threads : SysSemThread(t)
  BY SysSemParts
<1>3. \A t \in Threads : SysSemThread(t)'
  BY <1>1, <1>2 DEF SysSemThread, InCall, Pended
<1> QED BY <1>1, <1>3 DEF SysSemOK, SysSemObj, SysSemThread

\* The call of one thread that is not pended changes, and so may the object.
LEMMA SysSemCallKeeps ==
  ASSUME BaseInv, SysSemOK, NEW t \in Threads, ~Pended(t), UNCHANGED <<schedVars, swap_data>>,
         swap_retval[t] = "EAGAIN",
         NEW c, c = NONE \/ (c \in Calls /\ c.op \in {"test", "pend", "dec"} /\ c.arg \in BOOLEAN),
         call' = [call EXCEPT ![t] = c],
         obj' \in SysSemObj, obj'.units = IF obj'.val > 0 THEN obj'.val ELSE 0
  PROVE  BaseInv' /\ SysSemOK'
<1>1. /\ \A u \in Threads : SysSemThread(u) /\ ThreadOK(u)
      /\ call \in [Threads -> Calls \cup {NONE}]
  BY SysSemParts, BaseFacts DEF BaseInv, CallsInv
<1>2. /\ call' \in [Threads -> Calls \cup {NONE}] /\ call'[t] = c
      /\ \A u \in Threads : u # t => call'[u] = call[u]
  BY <1>1
<1>3. \A u \in Threads : u # t => (InCall(u)' <=> InCall(u))
  BY <1>2 DEF InCall
<1>4. BaseInv' /\ UNCHANGED <<pended_on, swap_data, swap_retval>>
  <2>1. \A u \in Threads : Pended(u) => InCall(u)'
    BY <1>1, <1>3 DEF ThreadOK
  <2>2. \A u \in Threads : ~InCall(u)' => swap_data[u] = NONE /\ swap_retval[u] = "EAGAIN"
    BY <1>1, <1>3 DEF ThreadOK, SysSemThread
  <2> QED BY <1>2, <2>1, <2>2, SameKeeps
<1>5. ASSUME NEW u \in Threads PROVE SysSemThread(u)'
  <2>1. Pended(u)' <=> Pended(u)
    BY <1>4 DEF Pended
  <2>2. CASE u = t
    BY <1>1, <1>2, <1>4, <2>1, <2>2 DEF SysSemThread, InCall
  <2>3. CASE u # t
    BY <1>1, <1>2, <1>3, <1>4, <2>1, <2>3 DEF SysSemThread
  <2> QED BY <2>2, <2>3
<1> QED BY <1>4, <1>5 DEF SysSemOK, SysSemObj, SysSemThread

\* The count of a semaphore goes down by one, or to -1 and stays there.
LEMMA DecTypes ==
  ASSUME obj \in SysSemObj
  PROVE  /\ obj.val \in Int /\ sem_limit \in Nat /\ sem_limit > 0 /\ obj.val <= sem_limit
         /\ obj.val >= -1 /\ SYS_SEM_CONTENDED = -1 /\ obj.waking \in Nat /\ obj.units \in Nat
<1>1. sem_limit \in Nat /\ sem_limit > 0
  BY SysSemAssumption
<1> QED BY <1>1 DEF SysSemObj, SYS_SEM_CONTENDED

LEMMA TakeStepKeeps ==
  ASSUME BaseInv, SysSemOK, NEW t \in Threads, NEW timed \in BOOLEAN, ~Pended(t),
         swap_retval[t] = "EAGAIN", TakeStep(t, timed)
  PROVE  BaseInv' /\ SysSemOK'
<1>1. /\ obj \in SysSemObj /\ obj.units = IF obj.val > 0 THEN obj.val ELSE 0
  BY SysSemParts
<1>2. /\ obj.val \in Int /\ sem_limit \in Nat /\ sem_limit > 0 /\ obj.val <= sem_limit
      /\ obj.val >= -1 /\ SYS_SEM_CONTENDED = -1 /\ obj.waking \in Nat /\ obj.units \in Nat
  BY <1>1, DecTypes
<1>3. UNCHANGED <<schedVars, swap_data>>
  BY DEF TakeStep
<1>4. CASE /\ obj.val > 0
           /\ obj' = [obj EXCEPT !.val = @ - 1, !.units = @ - 1]
           /\ call' = [call EXCEPT ![t] = NONE]
  <2> DEFINE v == obj.val - 1
             n == obj.units - 1
  <2>1. v \in SYS_SEM_CONTENDED..sem_limit /\ n \in Nat /\ n = (IF v > 0 THEN v ELSE 0)
    BY <1>1, <1>2, <1>4
  <2>2. obj' = [obj EXCEPT !.val = v, !.units = n]
    BY <1>1, <1>4 DEF SysSemObj
  <2> HIDE DEF v, n
  <2>3. obj' \in SysSemObj /\ obj'.val = v /\ obj'.units = n
    BY <1>1, <2>1, <2>2 DEF SysSemObj
  <2> QED BY <1>3, <1>4, <2>1, <2>3, SysSemCallKeeps
<1>5. CASE /\ obj.val <= 0
           /\ obj' = [obj EXCEPT !.val = bounded_dec(@)]
           /\ call' = [call EXCEPT ![t] = [op |-> "test", arg |-> timed]]
  <2> DEFINE v == bounded_dec(obj.val)
             c == [op |-> "test", arg |-> timed]
  <2>1. v = -1
    BY <1>2, <1>5 DEF bounded_dec
  <2>2. obj' = [obj EXCEPT !.val = v]
    BY <1>1, <1>5 DEF SysSemObj
  <2> HIDE DEF v
  <2>3. obj' \in SysSemObj /\ obj'.val = -1 /\ obj'.units = obj.units /\ obj.units = 0
    BY <1>1, <1>2, <1>5, <2>1, <2>2 DEF SysSemObj
  <2>4. c \in Calls /\ c.op = "test" /\ c.arg = timed /\ call' = [call EXCEPT ![t] = c]
    BY <1>5, CallTypes
  <2> HIDE DEF c
  <2>5. obj'.units = (IF obj'.val > 0 THEN obj'.val ELSE 0)
    BY <1>2, <2>3
  <2> QED BY <1>3, <2>3, <2>4, <2>5, SysSemCallKeeps
<1> QED BY <1>4, <1>5 DEF TakeStep

LEMMA FutexWakeKeeps ==
  ASSUME BaseInv, SysSemOK, FutexWake
  PROVE  BaseInv' /\ SysSemOK'
<1> DEFINE S == {u \in Threads : IsIn(Waiters, u)}
           data == [u \in S |-> NONE]
<1>1. /\ obj.waking > 0 /\ obj' = [obj EXCEPT !.waking = @ - 1]
      /\ Serve(S, "0", data) /\ call' = call
  BY DEF FutexWake
<1>2. /\ call' \in [Threads -> Calls \cup {NONE}]
      /\ \A u \in Threads : InCall(u)' <=> InCall(u)
  BY <1>1, SameCalls
<1>3. \A u \in Threads : u \in S <=> Pended(u)
  BY BaseFacts
<1>4. \A u \in S : data[u] = NONE
  OBVIOUS
<1>5. (\A u \in S : u \in Threads /\ Pended(u)) /\ \A u \in S : data[u] \in Data
  BY <1>3, <1>4 DEF Data
<1>6. "0" \in {"0", "EAGAIN", "ENOMSG"}
  OBVIOUS
<1> HIDE DEF S, data
<1>7. /\ BaseInv'
      /\ \A u \in Threads :
              /\ Pended(u)' <=> Pended(u) /\ u \notin S
              /\ swap_data'[u] = IF u \in S THEN data[u] ELSE swap_data[u]
              /\ swap_retval'[u] = IF u \in S THEN "0" ELSE swap_retval[u]
  BY <1>1, <1>2, <1>5, <1>6, ServeKeeps
<1>8. /\ obj \in SysSemObj /\ obj.units = (IF obj.val > 0 THEN obj.val ELSE 0)
      /\ \A u \in Threads : SysSemThread(u)
  BY SysSemParts
<1>9. ASSUME NEW u \in Threads PROVE SysSemThread(u)'
  <2>1. ~Pended(u)' /\ swap_data'[u] = NONE /\ (~Pended(u) => swap_retval'[u] = swap_retval[u])
    BY <1>3, <1>4, <1>7, <1>8 DEF SysSemThread
  <2>2. CASE Pended(u)
    BY <1>1, <1>2, <1>8, <2>1, <2>2 DEF SysSemThread
  <2>3. CASE ~Pended(u)
    BY <1>1, <1>2, <1>8, <2>1, <2>3 DEF SysSemThread
  <2> QED BY <2>2, <2>3
<1>10. obj' \in SysSemObj /\ obj'.units = obj.units /\ obj'.val = obj.val
  <2> DEFINE w == obj.waking - 1
  <2>1. w \in Nat /\ obj' = [obj EXCEPT !.waking = w]
    BY <1>1, <1>8 DEF SysSemObj
  <2> HIDE DEF w
  <2> QED BY <1>8, <2>1 DEF SysSemObj
<1>11. obj'.units = (IF obj'.val > 0 THEN obj'.val ELSE 0)
  BY <1>8, <1>10
<1> QED BY <1>7, <1>9, <1>10, <1>11 DEF SysSemOK, SysSemObj, SysSemThread

LEMMA SysGiveKeeps ==
  ASSUME BaseInv, SysSemOK, SysGive
  PROVE  BaseInv' /\ SysSemOK'
<1>1. /\ obj \in SysSemObj /\ obj.units = IF obj.val > 0 THEN obj.val ELSE 0
  BY SysSemParts
<1>2. /\ obj.val \in Int /\ sem_limit \in Nat /\ sem_limit > 0 /\ obj.val <= sem_limit
      /\ obj.val >= -1 /\ SYS_SEM_CONTENDED = -1 /\ obj.waking \in Nat /\ obj.units \in Nat
  BY <1>1, DecTypes
<1> DEFINE v == bounded_inc(obj.val)
           n == IF obj.val < sem_limit THEN obj.units + 1 ELSE obj.units
           w == IF obj.val < 0 THEN obj.waking + 1 ELSE obj.waking
<1>3. obj' = [obj EXCEPT !.val = v, !.units = n, !.waking = w]
  BY <1>1 DEF SysGive, SysSemObj
<1>4. v \in SYS_SEM_CONTENDED..sem_limit /\ n \in Nat /\ w \in Nat
  BY <1>1, <1>2 DEF bounded_inc
<1>5. n = (IF v > 0 THEN v ELSE 0)
  BY <1>1, <1>2 DEF bounded_inc
<1>6. UNCHANGED <<schedVars, call, swap_data>>
  BY DEF SysGive
<1> HIDE DEF v, n, w
<1>7. obj' \in SysSemObj /\ obj'.val = v /\ obj'.units = n
  BY <1>1, <1>3, <1>4 DEF SysSemObj
<1> QED BY <1>5, <1>6, <1>7, SysSemObjKeeps

LEMMA FutexPendKeeps ==
  ASSUME BaseInv, SysSemOK, NEW t \in Threads, FutexPend(t)
  PROVE  BaseInv' /\ SysSemOK'
<1> DEFINE op == "wait"
           timed == call[t].arg
<1>1. /\ InCall(t) /\ ready[t] /\ call[t].op = "pend" /\ ~InTimerInterrupt
      /\ Pend(t, wait_q, timed, prio) /\ call' = [call EXCEPT ![t].op = op]
      /\ UNCHANGED <<prio, firing, swap_data, obj>>
  BY DEF FutexPend, At, GoesTo, InCall
<1>2. /\ obj \in SysSemObj /\ obj.units = (IF obj.val > 0 THEN obj.val ELSE 0)
      /\ \A u \in Threads : SysSemThread(u)
      /\ call \in [Threads -> Calls \cup {NONE}]
  BY SysSemParts DEF BaseInv, CallsInv
<1>3. /\ ~Pended(t) /\ swap_data[t] = NONE /\ firing = NONE /\ timed \in BOOLEAN
  BY <1>1, <1>2, BaseFacts DEF ThreadOK, SysSemThread, InTimerInterrupt
<1>4. op = "wait"
  OBVIOUS
<1>5. call'[t] = [call[t] EXCEPT !.op = op] /\ \A u \in Threads : u # t => call'[u] = call[u]
  BY <1>1, <1>2
<1>6. call[t] \in Calls
  BY <1>1, <1>2 DEF InCall
<1>7. call[t] = [op |-> call[t].op, arg |-> timed]
  BY <1>6 DEF Calls, CallsWith
<1> HIDE DEF op, timed
<1>8. call'[t] = [op |-> op, arg |-> timed]
  BY <1>5, <1>7
<1>9. [op |-> op, arg |-> timed] \in Calls
  BY <1>3, <1>4, CallTypes
<1>10. call' \in [Threads -> Calls \cup {NONE}]
  <2>1. call' = [call EXCEPT ![t] = [op |-> op, arg |-> timed]]
    BY <1>1, <1>2, <1>5, <1>8
  <2> QED BY <1>2, <1>9, <2>1
<1>11. \A u \in Threads : InCall(u)' <=> InCall(u)
  BY <1>1, <1>5, <1>8, <1>9, IpcAssumption DEF InCall
<1>12. /\ BaseInv'
       /\ \A u \in Threads : Pended(u)' <=> Pended(u) \/ u = t
       /\ swap_retval'[t] = "EAGAIN"
       /\ \A u \in Threads : u # t => swap_retval'[u] = swap_retval[u]
  BY <1>1, <1>3, <1>10, <1>11, PendKeeps
<1>13. ASSUME NEW u \in Threads PROVE SysSemThread(u)'
  <2>1. CASE u = t
    <3>1. call'[u].op = op /\ call'[u].arg = timed
      BY <1>8, <2>1
    <3> QED BY <1>1, <1>3, <1>4, <1>12, <2>1, <3>1 DEF SysSemThread
  <2>2. CASE u # t
    BY <1>1, <1>2, <1>5, <1>11, <1>12, <2>2 DEF SysSemThread
  <2> QED BY <2>1, <2>2
<1> QED BY <1>1, <1>2, <1>12, <1>13 DEF SysSemOK, SysSemObj, SysSemThread

LEMMA FutexReturnKeeps ==
  ASSUME BaseInv, SysSemOK, NEW t \in Threads, FutexReturn(t)
  PROVE  BaseInv' /\ SysSemOK'
<1>1. /\ obj \in SysSemObj /\ obj.units = (IF obj.val > 0 THEN obj.val ELSE 0)
      /\ \A u \in Threads : SysSemThread(u)
      /\ call \in [Threads -> Calls \cup {NONE}] /\ swap_data \in [Threads -> Data]
      /\ SchedTypeOK /\ OneQueue /\ \A u \in Threads : ThreadOK(u)
  BY SysSemParts DEF BaseInv, CallsInv
<1>2. obj' = obj /\ InCall(t) /\ ready[t] /\ ~Pended(t)
  BY <1>1 DEF FutexReturn, At, InCall, ThreadOK
<1>3. CASE Resumes(t)
  <2>1. /\ BaseInv' /\ ~InCall(t)'
        /\ swap_data'[t] = NONE
        /\ \A u \in Threads : Pended(u)' <=> Pended(u)
        /\ \A u \in Threads : u # t => /\ call'[u] = call[u] /\ (InCall(u)' <=> InCall(u))
                                       /\ swap_data'[u] = swap_data[u]
                                       /\ swap_retval'[u] = swap_retval[u]
    BY <1>3, ResumesKeeps
  <2>2. ASSUME NEW u \in Threads PROVE SysSemThread(u)'
    BY <1>1, <1>2, <2>1 DEF SysSemThread
  <2> QED BY <1>1, <1>2, <2>1, <2>2 DEF SysSemOK, SysSemObj, SysSemThread
<1>4. CASE /\ GoesTo(t, "dec")
           /\ swap_retval' = [swap_retval EXCEPT ![t] = "EAGAIN"]
           /\ UNCHANGED <<prio, waitq, pended_on, linked, firing, ready, swap_data>>
  <2>1. /\ call' = [call EXCEPT ![t].op = "dec"]
        /\ call'[t] = [call[t] EXCEPT !.op = "dec"]
        /\ \A u \in Threads : u # t => call'[u] = call[u] /\ swap_retval'[u] = swap_retval[u]
        /\ swap_retval'[t] = "EAGAIN"
    BY <1>1, <1>4 DEF GoesTo, SchedTypeOK
  <2>2. call[t] \in Calls /\ call[t].arg \in BOOLEAN
    BY <1>1, <1>2 DEF InCall, SysSemThread
  <2>3. call'[t] = [op |-> "dec", arg |-> call[t].arg]
    BY <2>1, <2>2 DEF Calls, CallsWith
  <2>4. call'[t] \in Calls /\ call'[t].op = "dec" /\ call'[t].arg \in BOOLEAN
    <3>1. "dec" \in {"test", "pend", "dec", "wait"}
      OBVIOUS
    <3>2. [op |-> "dec", arg |-> call[t].arg] \in Calls
      BY <2>2, <3>1, CallTypes
    <3> QED BY <2>2, <2>3, <3>2
  <2>5. call' \in [Threads -> Calls \cup {NONE}]
    <3>1. call' = [call EXCEPT ![t] = call'[t]]
      BY <1>1, <2>1
    <3> QED BY <1>1, <2>4, <3>1
  <2>6. \A u \in Threads : InCall(u)' <=> InCall(u)
    BY <1>2, <2>1, <2>4, IpcAssumption DEF InCall
  <2>7. SchedTypeOK'
    BY <1>1, <1>4 DEF SchedTypeOK
  <2>8. OneQueue' /\ \A u \in Threads : Pended(u)' <=> Pended(u)
    BY <1>1, <1>4 DEF OneQueue, Waiters, Pended
  <2>9. \A u \in Threads : ThreadOK(u)'
    <3> TAKE u \in Threads
    <3>1. ~Pended(u) => ~Pended(u)'
      BY <2>8
    <3> QED BY <1>1, <1>2, <1>4, <2>1, <2>6, <2>8 DEF ThreadOK
  <2>10. BaseInv'
    BY <1>1, <1>4, <2>5, <2>7, <2>8, <2>9 DEF BaseInv, CallsInv
  <2>11. ASSUME NEW u \in Threads PROVE SysSemThread(u)'
    <3>1. CASE u = t
      BY <1>1, <1>2, <1>4, <2>1, <2>4, <2>8, <3>1 DEF SysSemThread
    <3>2. CASE u # t
      BY <1>1, <1>2, <1>4, <2>1, <2>6, <2>8, <3>2 DEF SysSemThread
    <3> QED BY <3>1, <3>2
  <2> QED BY <1>1, <1>2, <2>10, <2>11 DEF SysSemOK, SysSemObj, SysSemThread
<1> QED BY <1>3, <1>4 DEF FutexReturn

LEMMA SysSemStep ==
  ASSUME BaseInv, SysSemOK, SysSemNext
  PROVE  BaseInv' /\ SysSemOK'
<1>1. /\ obj \in SysSemObj /\ obj.units = (IF obj.val > 0 THEN obj.val ELSE 0)
      /\ \A u \in Threads : SysSemThread(u) /\ ThreadOK(u)
      /\ call \in [Threads -> Calls \cup {NONE}]
  BY SysSemParts DEF BaseInv, CallsInv
<1>2. CASE SysGive
  BY <1>2, SysGiveKeeps
<1>3. CASE FutexWake
  BY <1>3, FutexWakeKeeps
<1>4. ASSUME NEW t \in Threads, FutexTest(t) PROVE BaseInv' /\ SysSemOK'
  <2> DEFINE op == IF obj.val = SYS_SEM_CONTENDED THEN "pend" ELSE "dec"
             c == [op |-> op, arg |-> call[t].arg]
  <2>1. /\ InCall(t) /\ ready[t] /\ call[t].op = "test" /\ call' = [call EXCEPT ![t].op = op]
        /\ UNCHANGED <<schedVars, swap_data, obj>>
    BY <1>4 DEF FutexTest, At, GoesTo, InCall
  <2>2. ~Pended(t) /\ swap_retval[t] = "EAGAIN" /\ call[t].arg \in BOOLEAN /\ call[t] \in Calls
    BY <1>1, <2>1 DEF ThreadOK, SysSemThread, InCall
  <2>3. op \in {"pend", "dec"}
    OBVIOUS
  <2> HIDE DEF op
  <2>4. c \in Calls /\ c.op = op /\ c.arg = call[t].arg
    BY <2>2, <2>3, CallTypes
  <2>5. [call[t] EXCEPT !.op = op] = c
    BY <2>2 DEF Calls, CallsWith
  <2>6. call' = [call EXCEPT ![t] = c]
    BY <1>1, <2>1, <2>5
  <2> HIDE DEF c
  <2> QED BY <1>1, <2>1, <2>2, <2>3, <2>4, <2>6, SysSemCallKeeps
<1>5. ASSUME NEW t \in Threads, FutexPend(t) PROVE BaseInv' /\ SysSemOK'
  BY <1>5, FutexPendKeeps
<1>6. ASSUME NEW t \in Threads, FutexReturn(t) PROVE BaseInv' /\ SysSemOK'
  BY <1>6, FutexReturnKeeps
<1>7. ASSUME NEW t \in Threads, SysTakeAgain(t) PROVE BaseInv' /\ SysSemOK'
  <2>1. InCall(t) /\ ready[t] /\ call[t].op = "dec" /\ TakeStep(t, call[t].arg)
    BY <1>7 DEF SysTakeAgain, At, InCall
  <2>2. ~Pended(t) /\ swap_retval[t] = "EAGAIN" /\ call[t].arg \in BOOLEAN
    BY <1>1, <2>1 DEF ThreadOK, SysSemThread
  <2> QED BY <2>1, <2>2, TakeStepKeeps
<1>8. ASSUME NEW t \in Threads, NEW timed \in BOOLEAN, SysTake(t, timed) PROVE BaseInv' /\ SysSemOK'
  <2>1. ready[t] /\ call[t] = NONE /\ TakeStep(t, timed)
    BY <1>8 DEF SysTake, Running
  <2>2. ~Pended(t) /\ swap_retval[t] = "EAGAIN"
    BY <1>1, <2>1 DEF ThreadOK, InCall
  <2> QED BY <2>1, <2>2, TakeStepKeeps
<1> QED BY <1>2, <1>3, <1>4, <1>5, <1>6, <1>7, <1>8 DEF SysSemNext

(***************************************************************************)
(* Message queues                                                          *)
(***************************************************************************)
\* The index in the buffer of the message at idx.
Slot(m, idx) ==
  IF max_msgs - m.read_ptr <= idx THEN idx - (max_msgs - m.read_ptr) ELSE m.read_ptr + idx

\* The ring in numbers.
LEMMA RingTypes ==
  ASSUME NEW m, Ring(m)
  PROVE  /\ max_msgs \in Nat /\ max_msgs > 0
         /\ m.read_ptr \in 0..(max_msgs - 1) /\ m.write_ptr \in 0..(max_msgs - 1)
         /\ m.used_msgs \in 0..max_msgs
         /\ m.write_ptr - m.read_ptr = m.used_msgs
            \/ m.write_ptr - m.read_ptr = m.used_msgs - max_msgs
         /\ m.buffer \in [0..(max_msgs - 1) -> Items \cup {NONE}]
         /\ m = [kind |-> "msgq", buffer |-> m.buffer, read_ptr |-> m.read_ptr,
                 write_ptr |-> m.write_ptr, used_msgs |-> m.used_msgs]
BY MsgqAssumption DEF Ring

\* The messages are in different places of the buffer, and the next one goes
\* behind the last.
LEMMA SlotFacts ==
  ASSUME NEW m, Ring(m)
  PROVE  /\ \A i \in 0..(max_msgs - 1) : /\ Slot(m, i) \in 0..(max_msgs - 1)
                                         /\ PeekAt(m, i) = m.buffer[Slot(m, i)]
         /\ \A i, j \in 0..(max_msgs - 1) : i # j => Slot(m, i) # Slot(m, j)
         /\ m.used_msgs < max_msgs => Slot(m, m.used_msgs) = m.write_ptr
         /\ Slot(m, 0) = m.read_ptr
<1> DEFINE r == m.read_ptr
           w == m.write_ptr
           n == m.used_msgs
           N == max_msgs
<1>1. /\ N \in Nat /\ N > 0 /\ r \in 0..(N - 1) /\ w \in 0..(N - 1) /\ n \in 0..N
      /\ w - r = n \/ w - r = n - N
  BY RingTypes
<1>2. \A i : Slot(m, i) = IF N - r <= i THEN i - (N - r) ELSE r + i
  BY DEF Slot
<1>3. \A i \in 0..(N - 1) : PeekAt(m, i) = m.buffer[Slot(m, i)]
  BY <1>2 DEF PeekAt
<1> HIDE DEF r, w, n, N
<1>4. \A i \in 0..(N - 1) : Slot(m, i) \in 0..(N - 1)
  BY <1>1, <1>2
<1>5. \A i, j \in 0..(N - 1) : i # j => Slot(m, i) # Slot(m, j)
  BY <1>1, <1>2
<1>6. n < N => Slot(m, n) = w
  BY <1>1, <1>2
<1>7. Slot(m, 0) = r
  BY <1>1, <1>2
<1> QED BY <1>3, <1>4, <1>5, <1>6, <1>7 DEF r, w, n, N

\* A pointer that advances stays in the buffer.
LEMMA AdvancedFacts ==
  ASSUME NEW p \in 0..(max_msgs - 1)
  PROVE  /\ Advanced(p) \in 0..(max_msgs - 1)
         /\ Advanced(p) = p + 1 \/ Advanced(p) = p + 1 - max_msgs
BY MsgqAssumption DEF Advanced

\* A message is stored behind the others.
LEMMA StoredFacts ==
  ASSUME NEW m, Ring(m), m.used_msgs < max_msgs, NEW x \in Items,
         RingContents(m) \in Seq(Items)
  PROVE  /\ Ring(Stored(m, x)) /\ Stored(m, x).used_msgs = m.used_msgs + 1
         /\ RingContents(Stored(m, x)) = Append(RingContents(m), x)
<1> DEFINE r == m.read_ptr
           w == m.write_ptr
           n == m.used_msgs
           N == max_msgs
           b == [m.buffer EXCEPT ![w] = x]
           q == Stored(m, x)
<1>1. /\ N \in Nat /\ N > 0 /\ r \in 0..(N - 1) /\ w \in 0..(N - 1) /\ n \in 0..N /\ n < N
      /\ w - r = n \/ w - r = n - N
      /\ m.buffer \in [0..(N - 1) -> Items \cup {NONE}]
      /\ m = [kind |-> "msgq", buffer |-> m.buffer, read_ptr |-> r, write_ptr |-> w, used_msgs |-> n]
  BY RingTypes
<1>2. /\ \A i \in 0..(N - 1) : Slot(m, i) \in 0..(N - 1) /\ PeekAt(m, i) = m.buffer[Slot(m, i)]
      /\ \A i, j \in 0..(N - 1) : i # j => Slot(m, i) # Slot(m, j)
      /\ Slot(m, n) = w
  BY <1>1, SlotFacts
<1>3. Advanced(w) \in 0..(N - 1) /\ (Advanced(w) = w + 1 \/ Advanced(w) = w + 1 - N)
  BY <1>1, AdvancedFacts
<1> HIDE DEF r, w, n, N
<1>4. b \in [0..(N - 1) -> Items \cup {NONE}] /\ b[w] = x
      /\ \A i \in 0..(N - 1) : i # w => b[i] = m.buffer[i]
  BY <1>1
<1>5. q = [kind |-> "msgq", buffer |-> b, read_ptr |-> r, write_ptr |-> Advanced(w), used_msgs |-> n + 1]
  <2> DEFINE k == n + 1
             a == Advanced(w)
             o == m.buffer
  <2>1. q = [m EXCEPT !.buffer = b, !.write_ptr = a, !.used_msgs = k]
    BY <1>1 DEF Stored, w, n
  <2>2. m = [kind |-> "msgq", buffer |-> o, read_ptr |-> r, write_ptr |-> w, used_msgs |-> n]
    BY <1>1
  <2> HIDE DEF q, b, k, a, o
  <2>3. q = [kind |-> "msgq", buffer |-> b, read_ptr |-> r, write_ptr |-> a, used_msgs |-> k]
    BY <2>1, <2>2
  <2> QED BY <2>3 DEF k, a
<1> HIDE DEF b, q
<1>6. n + 1 \in 0..N /\ (Advanced(w) - r = n + 1 \/ Advanced(w) - r = n + 1 - N)
  <2>1. Advanced(w) \in Int
    BY <1>1, <1>3
  <2> HIDE DEF Advanced
  <2>2. CASE w - r = n
    <3>1. N \in Int /\ r \in Int /\ w \in Int /\ n \in Int /\ 0 <= n /\ n < N
      BY <1>1
    <3>2. w + 1 - r = n + 1 /\ w + 1 - N - r = n + 1 - N
      BY <2>2, <3>1
    <3>3. n + 1 \in 0..N
      BY <3>1
    <3>4. \A a \in Int : a = w + 1 \/ a = w + 1 - N => a - r = n + 1 \/ a - r = n + 1 - N
      BY <3>1, <3>2
    <3> QED BY <1>3, <2>1, <3>3, <3>4
  <2>3. CASE w - r = n - N
    <3>1. w + 1 - r = n + 1 - N
      BY <1>1, <2>3
    <3>2. Advanced(w) # w + 1 - N
      BY <1>1, <1>3, <2>3
    <3> QED BY <1>1, <1>3, <3>1, <3>2
  <2> QED BY <1>1, <2>2, <2>3
<1>7. Ring(q)
  <2>1. q.write_ptr - q.read_ptr \in {q.used_msgs, q.used_msgs - N}
    <3>1. q.write_ptr = Advanced(w) /\ q.read_ptr = r /\ q.used_msgs = n + 1
      BY <1>5
    <3> DEFINE a == Advanced(w)
    <3>0. a \in Int
      BY <1>1, <1>3
    <3>2. a - r = n + 1 \/ a - r = n + 1 - N
      BY <1>6
    <3>3. q.write_ptr = a
      BY <3>1
    <3> HIDE DEF a
    <3> QED BY <1>1, <3>0, <3>1, <3>2, <3>3
  <2>2. q \in [kind : {"msgq"}, buffer : [0..(N - 1) -> Items \cup {NONE}],
            read_ptr : 0..(N - 1), write_ptr : 0..(N - 1), used_msgs : 0..N]
    BY <1>1, <1>3, <1>4, <1>5, <1>6
  <2> QED BY <2>1, <2>2 DEF Ring, N
<1>8. \A i \in 0..n : Slot(q, i) = Slot(m, i) /\ PeekAt(q, i) = b[Slot(m, i)]
  <2> TAKE i \in 0..n
  <2>1. q.read_ptr = r /\ q.buffer = b /\ i \in 0..(N - 1)
    BY <1>1, <1>5
  <2>2. Slot(q, i) = Slot(m, i)
    BY <2>1 DEF Slot, r
  <2>3. PeekAt(q, i) = q.buffer[Slot(q, i)]
    BY <1>7, <2>1, SlotFacts DEF N
  <2> QED BY <2>1, <2>2, <2>3
<1>9. PeekAt(q, n) = x /\ \A i \in 0..(n - 1) : PeekAt(q, i) = PeekAt(m, i)
  <2>1. PeekAt(q, n) = x
    BY <1>1, <1>2, <1>4, <1>8
  <2>2. ASSUME NEW i \in 0..(n - 1) PROVE PeekAt(q, i) = PeekAt(m, i)
    <3>1. i \in 0..n /\ i \in 0..(N - 1) /\ n \in 0..(N - 1) /\ i # n
      BY <1>1
    <3>2. Slot(m, i) # w /\ Slot(m, i) \in 0..(N - 1)
      BY <1>2, <3>1
    <3> QED BY <1>2, <1>4, <1>8, <3>1, <3>2
  <2> QED BY <2>1, <2>2
<1>10. RingContents(q) = Append(RingContents(m), x)
  <2> DEFINE c == RingContents(m)
             d == RingContents(q)
             e == Append(c, x)
  <2>1. c = [k \in 1..n |-> PeekAt(m, k - 1)] /\ d = [k \in 1..(n + 1) |-> PeekAt(q, k - 1)]
    BY <1>5 DEF RingContents, n
  <2>2. c \in Seq(Items) /\ Len(c) = n /\ DOMAIN d = 1..(n + 1)
    BY <1>1, <2>1
  <2> HIDE DEF c, d
  <2>3. /\ DOMAIN e = 1..(n + 1) /\ e = [k \in 1..(n + 1) |-> e[k]]
        /\ \A k \in 1..n : e[k] = c[k]
        /\ e[n + 1] = x
    <3>1. Len(c) + 1 = n + 1 /\ DOMAIN c = 1..n
      BY <2>2
    <3>2. e \in Seq(Items) /\ Len(e) = n + 1 /\ e[n + 1] = x /\ \A k \in 1..n : e[k] = c[k]
      BY <1>1, <2>2, <3>1, AppendProperties
    <3> HIDE DEF e
    <3>3. DOMAIN e = 1..(n + 1)
      BY <3>2
    <3>4. e = [k \in DOMAIN e |-> e[k]]
      BY <3>2
    <3> QED BY <3>2, <3>3, <3>4
  <2> HIDE DEF e
  <2>4. ASSUME NEW k \in 1..(n + 1) PROVE d[k] = e[k]
    <3>1. d[k] = PeekAt(q, k - 1)
      BY <2>1
    <3>2. CASE k = n + 1
      <4>1. k - 1 = n
        BY <1>1, <3>2
      <4> QED BY <1>9, <2>3, <3>1, <3>2, <4>1
    <3>3. CASE k # n + 1
      <4>1. k \in 1..n /\ k - 1 \in 0..(n - 1)
        BY <1>1, <3>3
      <4>2. c[k] = PeekAt(m, k - 1)
        BY <2>1, <4>1
      <4> QED BY <1>9, <2>3, <3>1, <4>1, <4>2
    <3> QED BY <3>2, <3>3
  <2>5. d = [k \in 1..(n + 1) |-> d[k]]
    BY <2>1
  <2>6. d = e
    BY <2>3, <2>4, <2>5
  <2> QED BY <2>6 DEF c, d, e
<1> QED BY <1>5, <1>7, <1>10 DEF q, n

\* The oldest message is fetched.
LEMMA FetchedFacts ==
  ASSUME NEW m, Ring(m), m.used_msgs > 0, RingContents(m) \in Seq(Items)
  PROVE  /\ Ring(Fetched(m)) /\ Fetched(m).used_msgs = m.used_msgs - 1
         /\ RingContents(m) # <<>> /\ RingContents(Fetched(m)) = Tail(RingContents(m))
<1> DEFINE r == m.read_ptr
           w == m.write_ptr
           n == m.used_msgs
           N == max_msgs
           a == Advanced(r)
           b == [m.buffer EXCEPT ![r] = NONE]
           q == Fetched(m)
<1>1. /\ N \in Nat /\ N > 0 /\ r \in 0..(N - 1) /\ w \in 0..(N - 1) /\ n \in 1..N
      /\ w - r = n \/ w - r = n - N
      /\ m.buffer \in [0..(N - 1) -> Items \cup {NONE}]
      /\ m = [kind |-> "msgq", buffer |-> m.buffer, read_ptr |-> r, write_ptr |-> w, used_msgs |-> n]
  BY RingTypes
<1>2. /\ \A i \in 0..(N - 1) : Slot(m, i) \in 0..(N - 1) /\ PeekAt(m, i) = m.buffer[Slot(m, i)]
      /\ \A i, j \in 0..(N - 1) : i # j => Slot(m, i) # Slot(m, j)
      /\ Slot(m, 0) = r
  BY <1>1, SlotFacts
<1>3. a \in 0..(N - 1) /\ a = (IF r + 1 = N THEN 0 ELSE r + 1)
  BY <1>1, AdvancedFacts DEF Advanced
<1>4. \A i \in Int : Slot(m, i) = IF N - r <= i THEN i - (N - r) ELSE r + i
  BY DEF Slot
<1> HIDE DEF r, w, n, N
<1>5. b \in [0..(N - 1) -> Items \cup {NONE}]
      /\ \A i \in 0..(N - 1) : i # r => b[i] = m.buffer[i]
  BY <1>1
<1>6. q = [kind |-> "msgq", buffer |-> b, read_ptr |-> a, write_ptr |-> w, used_msgs |-> n - 1]
  <2> DEFINE k == n - 1
             o == m.buffer
  <2>1. q = [m EXCEPT !.buffer = b, !.read_ptr = a, !.used_msgs = k]
    BY <1>1 DEF Fetched, r, n
  <2>2. m = [kind |-> "msgq", buffer |-> o, read_ptr |-> r, write_ptr |-> w, used_msgs |-> n]
    BY <1>1
  <2> HIDE DEF q, b, k, a, o
  <2>3. q = [kind |-> "msgq", buffer |-> b, read_ptr |-> a, write_ptr |-> w, used_msgs |-> k]
    BY <2>1, <2>2
  <2> QED BY <2>3 DEF k
<1> HIDE DEF a, b, q
<1>7. n - 1 \in 0..N /\ (w - a = n - 1 \/ w - a = n - 1 - N)
  <2>1. CASE r + 1 = N
    <3>1. a = 0 /\ N \in Int /\ r \in Int /\ w \in Int /\ n \in Int
      BY <1>1, <1>3, <2>1
    <3>2. 1 <= n /\ n <= N /\ w <= N - 1 /\ (w - r = n \/ w - r = n - N)
      BY <1>1
    <3>3. r = N - 1
      BY <2>1, <3>1
    <3>4. w - r # n
      BY <3>1, <3>2, <3>3
    <3>5. w = n - 1
      BY <3>1, <3>2, <3>3, <3>4
    <3> QED BY <3>1, <3>2, <3>5
  <2>2. CASE r + 1 # N
    <3>1. a = r + 1
      BY <1>3, <2>2
    <3>2. w - (r + 1) = n - 1 \/ w - (r + 1) = n - 1 - N
      BY <1>1
    <3> QED BY <1>1, <3>1, <3>2
  <2> QED BY <2>1, <2>2
<1>8. Ring(q)
  <2>1. q.write_ptr - q.read_ptr = w - a /\ q.used_msgs = n - 1
    BY <1>6
  <2>2. q \in [kind : {"msgq"}, buffer : [0..(N - 1) -> Items \cup {NONE}],
            read_ptr : 0..(N - 1), write_ptr : 0..(N - 1), used_msgs : 0..N]
    BY <1>1, <1>3, <1>5, <1>6, <1>7
  <2> QED BY <1>7, <2>1, <2>2 DEF Ring, N
<1>9. ASSUME NEW i \in 0..(n - 2) PROVE PeekAt(q, i) = PeekAt(m, i + 1)
  <2>1. i \in 0..(N - 1) /\ i + 1 \in 0..(N - 1) /\ 0 \in 0..(N - 1) /\ i + 1 # 0
    BY <1>1
  <2>2. Slot(q, i) = IF N - a <= i THEN i - (N - a) ELSE a + i
    BY <1>6 DEF Slot, N
  <2>3. Slot(q, i) = Slot(m, i + 1)
    <3>1. Slot(m, i + 1) = IF N - r <= i + 1 THEN i + 1 - (N - r) ELSE r + (i + 1)
      <4> DEFINE j == i + 1
      <4>1. j \in Int
        BY <2>1
      <4> HIDE DEF j
      <4>2. Slot(m, j) = IF N - r <= j THEN j - (N - r) ELSE r + j
        BY <1>4, <4>1
      <4> QED BY <1>1, <2>1, <4>2 DEF j
    <3> DEFINE u == Slot(q, i)
               v == Slot(m, i + 1)
    <3> HIDE DEF u, v
    <3>2. CASE r + 1 = N
      <4>1. a = 0 /\ r = N - 1
        BY <1>1, <1>3, <3>2
      <4>2. u = i /\ v = i
        BY <1>1, <2>1, <2>2, <3>1, <4>1 DEF u, v
      <4> QED BY <4>2 DEF u, v
    <3>3. CASE r + 1 # N
      <4>1. a = r + 1
        BY <1>3, <3>3
      <4>2. u = IF N - (r + 1) <= i THEN i - (N - (r + 1)) ELSE (r + 1) + i
        BY <2>2, <4>1 DEF u
      <4>3. v = IF N - r <= i + 1 THEN i + 1 - (N - r) ELSE r + (i + 1)
        BY <3>1 DEF v
      <4>4. N \in Int /\ r \in Int /\ i \in Int
        BY <1>1, <2>1
      <4>5. CASE N - r <= i + 1
        <5>1. N - (r + 1) <= i
          BY <4>4, <4>5
        <5>2. u = i - (N - (r + 1)) /\ v = i + 1 - (N - r)
          BY <4>2, <4>3, <4>5, <5>1
        <5> QED BY <4>4, <5>2 DEF u, v
      <4>6. CASE ~(N - r <= i + 1)
        <5>1. ~(N - (r + 1) <= i)
          BY <4>4, <4>6
        <5>2. u = (r + 1) + i /\ v = r + (i + 1)
          BY <4>2, <4>3, <4>6, <5>1
        <5> QED BY <4>4, <5>2 DEF u, v
      <4> QED BY <4>5, <4>6
    <3> QED BY <3>2, <3>3
  <2>4. Slot(m, i + 1) # r /\ Slot(m, i + 1) \in 0..(N - 1)
    BY <1>2, <2>1
  <2>5. PeekAt(q, i) = q.buffer[Slot(q, i)]
    BY <1>8, <2>1, SlotFacts DEF N
  <2>6. q.buffer = b
    BY <1>6
  <2> QED BY <1>2, <1>5, <2>1, <2>3, <2>4, <2>5, <2>6
<1>10. RingContents(m) # <<>> /\ RingContents(q) = Tail(RingContents(m))
  <2> DEFINE c == RingContents(m)
             d == RingContents(q)
             e == Tail(c)
  <2>1. c = [k \in 1..n |-> PeekAt(m, k - 1)] /\ d = [k \in 1..(n - 1) |-> PeekAt(q, k - 1)]
    BY <1>6 DEF RingContents, n
  <2>2. c \in Seq(Items) /\ Len(c) = n /\ c # <<>>
    BY <1>1, <2>1
  <2> HIDE DEF c, d
  <2>3. e \in Seq(Items) /\ Len(e) = n - 1 /\ \A k \in 1..(n - 1) : e[k] = c[k + 1]
    BY <1>1, <2>2, HeadTailProperties
  <2> HIDE DEF e
  <2>4. e = [k \in 1..(n - 1) |-> e[k]]
    BY <2>3, LenProperties
  <2>5. ASSUME NEW k \in 1..(n - 1) PROVE d[k] = e[k]
    <3>1. k - 1 \in 0..(n - 2) /\ k - 1 + 1 = k /\ k + 1 \in 1..n /\ k + 1 - 1 = k
      BY <1>1
    <3>2. d[k] = PeekAt(q, k - 1) /\ c[k + 1] = PeekAt(m, k)
      BY <2>1, <3>1
    <3>3. PeekAt(q, k - 1) = PeekAt(m, k)
      BY <1>9, <3>1
    <3> QED BY <2>3, <3>2, <3>3
  <2>6. d = [k \in 1..(n - 1) |-> d[k]]
    BY <2>1
  <2>7. d = e
    BY <2>4, <2>5, <2>6
  <2> QED BY <2>2, <2>7 DEF c, d, e
<1> QED BY <1>6, <1>8, <1>10 DEF q, n

LEMMA TailItems ==
  ASSUME NEW T, NEW s \in Seq(T), s # <<>>
  PROVE  \A y : IsIn(Tail(s), y) => IsIn(s, y)
<1>1. /\ DOMAIN s = 1..Len(s) /\ Len(s) \in Nat \ {0} /\ DOMAIN Tail(s) = 1..(Len(s) - 1)
      /\ \A j \in 1..(Len(s) - 1) : Tail(s)[j] = s[j + 1]
  OBVIOUS
<1> SUFFICES ASSUME NEW y, NEW k \in 1..(Len(s) - 1), Tail(s)[k] = y PROVE IsIn(s, y)
  BY <1>1 DEF IsIn
<1>2. k + 1 \in DOMAIN s /\ s[k + 1] = y
  BY <1>1
<1> QED BY <1>2 DEF IsIn

\* The items not in the buffer.
LEMMA MsgqOutside ==
  ASSUME MsgqOK, NEW x \in Outside(MsgqContents)
  PROVE  /\ x \in Items /\ x # NONE /\ x \in Data /\ ~IsIn(RingContents(obj), x)
         /\ \A t \in Threads : swap_data[t] # x /\ (InCall(t) => call[t].arg # x)
<1>1. MsgqContents = RingContents(obj)
  BY DEF MsgqContents, RingContents
<1> QED BY <1>1, OutsideItems DEF IsIn

\* The threads and their messages are left alone, and none of these comes
\* into the buffer.
LEMMA MsgqSameCalls ==
  ASSUME MsgqOK, UNCHANGED <<pended_on, call, swap_data, swap_retval>>,
         \A u \in Threads : ~Pended(u),
         Ring(obj'), RingContents(obj') \in Seq(Items),
         \A t \in Threads : InCall(t) /\ IsIn(RingContents(obj'), call[t].arg)
                            => IsIn(RingContents(obj), call[t].arg)
  PROVE  MsgqOK'
<1> SUFFICES ASSUME NEW t \in Threads, InCall(t) PROVE MsgqCall(t)'
  BY DEF MsgqOK, InCall
<1>1. MsgqCall(t) /\ ~Pended(t)'
  BY DEF MsgqOK, Pended
<1>2. Truthful(t)'
  BY <1>1 DEF MsgqCall, Truthful, WasServed
<1>3. call'[t].arg # NONE => OwnMessage(t)'
  BY <1>1 DEF MsgqCall, OwnMessage, InCall
<1> QED BY <1>1, <1>2, <1>3 DEF MsgqCall

LEMMA MsgqPutKeeps ==
  ASSUME BaseInv, MsgqOK, NEW x \in Items, MsgqPut(x)
  PROVE  BaseInv' /\ MsgqOK'
<1>1. /\ x # NONE /\ x \in Data /\ ~IsIn(RingContents(obj), x)
      /\ \A t \in Threads : swap_data[t] # x /\ (InCall(t) => call[t].arg # x)
  BY MsgqOutside DEF MsgqPut
<1>2. /\ call' = call /\ call' \in [Threads -> Calls \cup {NONE}]
      /\ \A u \in Threads : InCall(u)' <=> InCall(u)
  BY SameCalls DEF MsgqPut
<1>3. obj.used_msgs < max_msgs /\ Ring(obj) /\ RingContents(obj) \in Seq(Items)
  BY DEF MsgqPut, MsgqOK
<1>4. CASE ServeFirst(x) /\ UNCHANGED obj
  <2>1. /\ BaseInv' /\ First \in Threads /\ Pended(First)
        /\ \A u \in Threads :
              /\ Pended(u)' <=> Pended(u) /\ u # First
              /\ swap_data'[u] = IF u = First THEN x ELSE swap_data[u]
              /\ swap_retval'[u] = IF u = First THEN "0" ELSE swap_retval[u]
    BY <1>1, <1>2, <1>4, ServeFirstKeeps
  <2>2. InCall(First)
    BY <2>1, BaseFacts DEF ThreadOK
  <2>3. call[First].op # "put"
    <3>1. obj.used_msgs # max_msgs
      BY <1>3, RingTypes
    <3> QED BY <2>1, <2>2, <3>1 DEF MsgqOK, MsgqCall
  <2>4. ASSUME NEW t \in Threads, InCall(t) PROVE MsgqCall(t)'
    <3>1. MsgqCall(t) /\ call'[t] = call[t] /\ obj' = obj
      BY <1>2, <1>4, <2>4 DEF MsgqOK
    <3>2. Truthful(t)'
      <4>1. CASE t = First
        BY <1>1, <2>1, <2>3, <3>1, <4>1 DEF Truthful, WasServed
      <4>2. CASE t # First
        BY <2>1, <3>1, <4>2 DEF Truthful, WasServed, MsgqCall
      <4> QED BY <4>1, <4>2
    <3>3. call'[t].arg # NONE => OwnMessage(t)'
      BY <1>1, <1>2, <2>1, <2>4, <3>1 DEF MsgqCall, OwnMessage
    <3> QED BY <2>1, <3>1, <3>2, <3>3 DEF MsgqCall
  <2>5. \A u \in Threads : swap_data'[u] \in Items \cup {NONE}
    BY <2>1 DEF MsgqOK
  <2> QED BY <1>2, <1>3, <1>4, <2>1, <2>4, <2>5 DEF MsgqOK
<1>5. CASE Waiters = <<>> /\ obj' = Stored(obj, x) /\ UNCHANGED <<schedVars, swap_data>>
  <2>1. BaseInv' /\ UNCHANGED <<pended_on, call, swap_data, swap_retval>>
    BY <1>2, <1>5, IdleKeeps
  <2>2. Ring(obj') /\ RingContents(obj') = Append(RingContents(obj), x)
    BY <1>3, <1>5, StoredFacts
  <2>3. RingContents(obj') \in Seq(Items)
        /\ \A y : IsIn(RingContents(obj'), y) => IsIn(RingContents(obj), y) \/ y = x
    BY <1>3, <2>2, AppendFacts
  <2>4. \A u \in Threads : ~Pended(u)
    BY <1>5, BaseFacts
  <2>5. MsgqOK'
    BY <1>1, <2>1, <2>2, <2>3, <2>4, MsgqSameCalls
  <2> QED BY <2>1, <2>5
<1> QED BY <1>4, <1>5 DEF MsgqPut

\* A thread begins to wait.
LEMMA MsgqWaitKeeps ==
  ASSUME BaseInv, MsgqOK, NEW t \in Threads, NEW op \in {"put", "get"}, NEW x \in Items \cup {NONE},
         NEW timed \in BOOLEAN, Wait(t, op, x, timed), UNCHANGED obj,
         (op = "put" /\ obj.used_msgs = max_msgs /\ x \in Outside(MsgqContents))
           \/ (op = "get" /\ obj.used_msgs = 0 /\ x = NONE)
  PROVE  BaseInv' /\ MsgqOK'
<1>1. [op |-> op, arg |-> x] \in Calls
  BY CallTypes
<1>2. /\ BaseInv' /\ ~InCall(t) /\ swap_data[t] = NONE /\ swap_retval[t] = "EAGAIN"
      /\ call'[t] = [op |-> op, arg |-> x]
      /\ \A u \in Threads : u # t => call'[u] = call[u]
      /\ \A u \in Threads : Pended(u)' <=> Pended(u) \/ u = t
      /\ swap_data' = swap_data /\ swap_retval' = swap_retval
  BY <1>1, WaitKeeps
<1>3. op = "put" => /\ x # NONE /\ ~IsIn(RingContents(obj), x)
                    /\ \A u \in Threads : swap_data[u] # x /\ (InCall(u) => call[u].arg # x)
  BY MsgqOutside
<1>4. call'[t].op = op /\ call'[t].arg = x /\ \A u \in Threads : u # t => (InCall(u)' <=> InCall(u))
  BY <1>2 DEF InCall
<1>5. MsgqCall(t)'
  <2>1. Truthful(t)'
    BY <1>2, <1>3, <1>4 DEF Truthful, WasServed
  <2>2. x # NONE => OwnMessage(t)'
    BY <1>2, <1>3, <1>4 DEF OwnMessage, InCall
  <2> QED BY <1>2, <1>4, <2>1, <2>2 DEF MsgqCall
<1>6. ASSUME NEW u \in Threads, u # t, InCall(u) PROVE MsgqCall(u)'
  <2>1. MsgqCall(u) /\ call'[u] = call[u] /\ (Pended(u)' <=> Pended(u))
    BY <1>2, <1>6 DEF MsgqOK
  <2>2. Truthful(u)'
    BY <1>2, <2>1 DEF Truthful, WasServed, MsgqCall
  <2>3. call[u].arg # NONE => OwnMessage(u)'
    <3> SUFFICES ASSUME call[u].arg # NONE PROVE OwnMessage(u)'
      OBVIOUS
    <3>1. OwnMessage(u) /\ call'[t].arg # call[u].arg
      BY <1>3, <1>4, <1>6, <2>1 DEF MsgqCall
    <3> QED BY <1>2, <1>4, <1>6, <2>1, <3>1 DEF OwnMessage
  <2> QED BY <2>1, <2>2, <2>3 DEF MsgqCall
<1>7. \A u \in Threads : swap_data'[u] \in Items \cup {NONE} /\ (InCall(u)' => MsgqCall(u)')
  BY <1>2, <1>4, <1>5, <1>6 DEF MsgqOK
<1> QED BY <1>2, <1>7 DEF MsgqOK

\* The message of the first thread that waits to write.
LEMMA MsgqWriter ==
  ASSUME BaseInv, MsgqOK, obj.used_msgs > 0, Waiters # <<>>
  PROVE  /\ First \in Threads /\ Pended(First) /\ InCall(First) /\ MsgqCall(First)
         /\ call[First].op = "put" /\ obj.used_msgs = max_msgs
         /\ call[First].arg \in Items /\ call[First].arg # NONE /\ OwnMessage(First)
         /\ call[First] = [op |-> "put", arg |-> call[First].arg]
         /\ Ring(Stored(Fetched(obj), call[First].arg))
         /\ Stored(Fetched(obj), call[First].arg).used_msgs = max_msgs
         /\ RingContents(obj) # <<>>
         /\ RingContents(Stored(Fetched(obj), call[First].arg))
              = Append(Tail(RingContents(obj)), call[First].arg)
<1> DEFINE f == First
           x == call[f].arg
           m == Fetched(obj)
<1>1. First \in Threads /\ Pended(First) /\ ThreadOK(First)
  BY BaseFacts
<1>2. InCall(First) /\ MsgqCall(First) /\ swap_retval[First] = "EAGAIN"
  BY <1>1 DEF ThreadOK, MsgqOK
<1>3. Ring(obj) /\ RingContents(obj) \in Seq(Items)
      /\ obj.used_msgs \in 0..max_msgs /\ max_msgs \in Nat
  BY RingTypes DEF MsgqOK
<1>4. call[First].op = "put" /\ obj.used_msgs = max_msgs
  <2>1. obj.used_msgs # 0
    BY <1>3
  <2> QED BY <1>1, <1>2, <2>1 DEF MsgqCall
<1>5. call[First].arg \in Items /\ call[First].arg # NONE /\ OwnMessage(First)
  BY <1>2, <1>4 DEF MsgqCall, Truthful, WasServed
<1>6. call[First] = [op |-> "put", arg |-> call[First].arg]
  <2>1. call[First] \in Calls
    BY <1>1, <1>2 DEF BaseInv, CallsInv, InCall
  <2> QED BY <1>4, <2>1 DEF Calls, CallsWith
<1>7. /\ Ring(m) /\ m.used_msgs = max_msgs - 1 /\ RingContents(obj) # <<>>
      /\ RingContents(m) = Tail(RingContents(obj))
  BY <1>3, <1>4, FetchedFacts
<1>8. RingContents(m) \in Seq(Items)
  BY <1>3, <1>7, TailFacts
<1> HIDE DEF m
<1>9. m.used_msgs < max_msgs /\ m.used_msgs + 1 = max_msgs
  BY <1>3, <1>7
<1>10. /\ Ring(Stored(m, x)) /\ Stored(m, x).used_msgs = m.used_msgs + 1
       /\ RingContents(Stored(m, x)) = Append(RingContents(m), x)
  BY <1>5, <1>7, <1>8, <1>9, StoredFacts
<1> QED BY <1>1, <1>2, <1>4, <1>5, <1>6, <1>7, <1>9, <1>10 DEF m

\* A message is read while a thread waits to write.
LEMMA MsgqGetServes ==
  ASSUME BaseInv, MsgqOK, obj.used_msgs > 0, ServeFirst(NONE),
         obj' = Stored(Fetched(obj), call[First].arg),
         call' = [call EXCEPT ![First].arg = NONE],
         NEW f, f = First
  PROVE  /\ BaseInv' /\ f \in Threads /\ Pended(f) /\ InCall(f) /\ MsgqCall(f)
         /\ call[f].op = "put" /\ obj.used_msgs = max_msgs
         /\ call[f].arg \in Items /\ call[f].arg # NONE /\ OwnMessage(f)
         /\ Ring(obj') /\ obj'.used_msgs = max_msgs /\ RingContents(obj) # <<>>
         /\ RingContents(obj') = Append(Tail(RingContents(obj)), call[f].arg)
         /\ call'[f] = [op |-> "put", arg |-> NONE]
         /\ \A u \in Threads : u # f => call'[u] = call[u]
         /\ \A u \in Threads : InCall(u)' <=> InCall(u)
         /\ \A u \in Threads :
              /\ Pended(u)' <=> Pended(u) /\ u # f
              /\ swap_data'[u] = IF u = f THEN NONE ELSE swap_data[u]
              /\ swap_retval'[u] = IF u = f THEN "0" ELSE swap_retval[u]
<1> DEFINE x == call[f].arg
<1>1. Waiters # <<>>
  BY DEF ServeFirst
<1>2. /\ f \in Threads /\ Pended(f) /\ InCall(f) /\ MsgqCall(f)
      /\ call[f].op = "put" /\ obj.used_msgs = max_msgs
      /\ x \in Items /\ x # NONE /\ OwnMessage(f) /\ call[f] = [op |-> "put", arg |-> x]
      /\ Ring(obj') /\ obj'.used_msgs = max_msgs /\ RingContents(obj) # <<>>
      /\ RingContents(obj') = Append(Tail(RingContents(obj)), x)
  BY <1>1, MsgqWriter
<1>3. /\ call \in [Threads -> Calls \cup {NONE}] /\ [op |-> "put", arg |-> NONE] \in Calls
      /\ NONE \notin Calls /\ NONE \in Data
  BY CallTypes, IpcAssumption DEF BaseInv, CallsInv, Data
<1>4. call' = [call EXCEPT ![f] = [op |-> "put", arg |-> NONE]]
  <2>1. [call[f] EXCEPT !.arg = NONE] = [op |-> "put", arg |-> NONE]
    <3> HIDE DEF x
    <3> QED BY <1>2
  <2> QED BY <2>1
<1>5. /\ call'[f] = [op |-> "put", arg |-> NONE] /\ \A u \in Threads : u # f => call'[u] = call[u]
      /\ call' \in [Threads -> Calls \cup {NONE}]
  BY <1>2, <1>3, <1>4
<1>6. \A u \in Threads : InCall(u)' <=> InCall(u)
  BY <1>2, <1>3, <1>5 DEF InCall
<1> HIDE DEF x
<1>7. /\ BaseInv'
      /\ \A u \in Threads :
            /\ Pended(u)' <=> Pended(u) /\ u # f
            /\ swap_data'[u] = IF u = f THEN NONE ELSE swap_data[u]
            /\ swap_retval'[u] = IF u = f THEN "0" ELSE swap_retval[u]
  BY <1>3, <1>5, <1>6, ServeFirstKeeps
<1> QED BY <1>2, <1>5, <1>6, <1>7 DEF x

LEMMA MsgqGetKeeps ==
  ASSUME BaseInv, MsgqOK, MsgqGet
  PROVE  BaseInv' /\ MsgqOK'
<1>1. obj.used_msgs > 0 /\ Ring(obj) /\ RingContents(obj) \in Seq(Items)
  BY DEF MsgqGet, MsgqOK
<1>2. CASE /\ ServeFirst(NONE)
           /\ obj' = Stored(Fetched(obj), call[First].arg)
           /\ call' = [call EXCEPT ![First].arg = NONE]
  <2> PICK f : f = First
    OBVIOUS
  <2> DEFINE x == call[f].arg
  <2>2. /\ BaseInv' /\ f \in Threads /\ Pended(f) /\ InCall(f) /\ MsgqCall(f)
        /\ call[f].op = "put" /\ obj.used_msgs = max_msgs
        /\ x \in Items /\ x # NONE /\ OwnMessage(f)
        /\ Ring(obj') /\ obj'.used_msgs = max_msgs /\ RingContents(obj) # <<>>
        /\ RingContents(obj') = Append(Tail(RingContents(obj)), x)
        /\ call'[f] = [op |-> "put", arg |-> NONE]
        /\ \A u \in Threads : u # f => call'[u] = call[u]
        /\ \A u \in Threads : InCall(u)' <=> InCall(u)
        /\ \A u \in Threads :
              /\ Pended(u)' <=> Pended(u) /\ u # f
              /\ swap_data'[u] = IF u = f THEN NONE ELSE swap_data[u]
              /\ swap_retval'[u] = IF u = f THEN "0" ELSE swap_retval[u]
    BY <1>1, <1>2, MsgqGetServes
  <2> HIDE DEF x
  <2>3. /\ RingContents(obj') \in Seq(Items)
        /\ \A y : IsIn(RingContents(obj'), y) => IsIn(RingContents(obj), y) \/ y = x
    <3> DEFINE c == RingContents(obj)
               d == Tail(c)
    <3>1. d \in Seq(Items) /\ \A y : IsIn(d, y) => IsIn(c, y)
      BY <1>1, <2>2, TailFacts, TailItems
    <3>2. RingContents(obj') = Append(d, x)
      BY <2>2
    <3> HIDE DEF c, d
    <3>3. Append(d, x) \in Seq(Items) /\ \A y : IsIn(Append(d, x), y) <=> IsIn(d, y) \/ y = x
      BY <2>2, <3>1, AppendFacts
    <3> QED BY <3>1, <3>2, <3>3 DEF c
  <2>4. ASSUME NEW t \in Threads, InCall(t), t # f PROVE MsgqCall(t)'
    <3>1. MsgqCall(t) /\ call'[t] = call[t]
      BY <2>2, <2>4 DEF MsgqOK
    <3>2. Truthful(t)'
      BY <2>2, <2>4, <3>1 DEF Truthful, WasServed, MsgqCall
    <3>3. ASSUME call[t].arg # NONE PROVE OwnMessage(t)'
      <4>1. OwnMessage(t) /\ call[t].arg # x /\ call'[f].arg = NONE
        BY <2>2, <2>4, <3>1, <3>3 DEF MsgqCall, OwnMessage, x
      <4>2. ~IsIn(RingContents(obj'), call[t].arg)
        BY <2>3, <4>1 DEF OwnMessage
      <4>3. ASSUME NEW u \in Threads
            PROVE  swap_data'[u] # call[t].arg
                   /\ (u # t /\ InCall(u)' => call'[u].arg # call[t].arg)
        <5>1. CASE u = f
          BY <2>2, <3>3, <4>1, <5>1
        <5>2. CASE u # f
          BY <2>2, <4>1, <5>2 DEF OwnMessage
        <5> QED BY <5>1, <5>2
      <4> QED BY <3>1, <4>2, <4>3 DEF OwnMessage
    <3>4. Pended(t)' => obj'.used_msgs = IF call'[t].op = "put" THEN max_msgs ELSE 0
      BY <2>2, <3>1 DEF MsgqCall
    <3> QED BY <3>1, <3>2, <3>3, <3>4 DEF MsgqCall
  <2>5. MsgqCall(f)'
    <3>1. call'[f].op = "put" /\ call'[f].arg = NONE
      BY <2>2
    <3>2. ~Pended(f)' /\ swap_retval'[f] = "0"
      BY <2>2
    <3> QED BY <3>1, <3>2 DEF MsgqCall, Truthful, WasServed
  <2>6. \A u \in Threads : swap_data'[u] \in Items \cup {NONE} /\ (InCall(u)' => MsgqCall(u)')
    BY <2>2, <2>4, <2>5 DEF MsgqOK
  <2> QED BY <2>2, <2>3, <2>6 DEF MsgqOK
<1>3. CASE /\ Waiters = <<>> /\ obj' = Fetched(obj)
           /\ UNCHANGED <<schedVars, call, swap_data>>
  <2>1. BaseInv' /\ UNCHANGED <<pended_on, call, swap_data, swap_retval>>
    BY <1>3, IdleKeeps
  <2>2. /\ Ring(obj') /\ RingContents(obj) # <<>> /\ RingContents(obj') = Tail(RingContents(obj))
    BY <1>1, <1>3, FetchedFacts
  <2>3. RingContents(obj') \in Seq(Items)
        /\ \A y : IsIn(RingContents(obj'), y) => IsIn(RingContents(obj), y)
    BY <1>1, <2>2, TailFacts, TailItems
  <2>4. \A u \in Threads : ~Pended(u)
    BY <1>3, BaseFacts
  <2>5. MsgqOK'
    BY <2>1, <2>2, <2>3, <2>4, MsgqSameCalls
  <2> QED BY <2>1, <2>5
<1> QED BY <1>2, <1>3 DEF MsgqGet

LEMMA MsgqPurgeKeeps ==
  ASSUME BaseInv, MsgqOK, MsgqPurge
  PROVE  BaseInv' /\ MsgqOK'
<1> DEFINE S == {t \in Threads : IsIn(Waiters, t)}
           data == [t \in S |-> NONE]
<1>1. /\ Serve(S, "ENOMSG", data) /\ call' = call
      /\ obj' = [Msgq EXCEPT !.read_ptr = obj.write_ptr, !.write_ptr = obj.write_ptr]
  BY DEF MsgqPurge
<1>2. /\ call' \in [Threads -> Calls \cup {NONE}]
      /\ \A u \in Threads : InCall(u)' <=> InCall(u)
  BY <1>1, SameCalls
<1>3. (\A t \in S : t \in Threads /\ Pended(t)) /\ \A t \in S : data[t] \in Data
  BY BaseFacts DEF Data
<1>4. /\ \A t \in S : data[t] = NONE
      /\ \A t \in Threads : t \in S <=> Pended(t)
  BY BaseFacts
<1>5. "ENOMSG" \in {"0", "EAGAIN", "ENOMSG"}
  OBVIOUS
<1> HIDE DEF S, data
<1>6. /\ BaseInv'
      /\ \A u \in Threads :
              /\ Pended(u)' <=> Pended(u) /\ u \notin S
              /\ swap_data'[u] = IF u \in S THEN data[u] ELSE swap_data[u]
              /\ swap_retval'[u] = IF u \in S THEN "ENOMSG" ELSE swap_retval[u]
  BY <1>1, <1>2, <1>3, <1>5, ServeKeeps
<1>7. \A u \in Threads : ~Pended(u)' /\ swap_data'[u] = swap_data[u]
                         /\ (Pended(u) => swap_retval'[u] = "ENOMSG" /\ swap_retval[u] = "EAGAIN")
                         /\ (~Pended(u) => swap_retval'[u] = swap_retval[u])
  BY <1>4, <1>6, BaseFacts DEF ThreadOK
<1>8. Ring(obj') /\ obj'.used_msgs = 0
  <2> DEFINE w == obj.write_ptr
             b == [k \in 0..(max_msgs - 1) |-> NONE]
  <2>1. w \in 0..(max_msgs - 1) /\ max_msgs \in Nat /\ w - w = 0
    BY RingTypes DEF MsgqOK
  <2>2. b \in [0..(max_msgs - 1) -> Items \cup {NONE}]
    OBVIOUS
  <2>3. obj' = [kind |-> "msgq", buffer |-> b, read_ptr |-> w, write_ptr |-> w, used_msgs |-> 0]
    BY <1>1 DEF Msgq
  <2> HIDE DEF w, b
  <2>4. obj'.write_ptr - obj'.read_ptr = 0 /\ obj'.used_msgs = 0 /\ 0 \in 0..max_msgs
    BY <2>1, <2>3
  <2> QED BY <2>1, <2>2, <2>3, <2>4 DEF Ring
<1>9. RingContents(obj') = <<>>
  BY <1>8 DEF RingContents
<1>10. ASSUME NEW t \in Threads, InCall(t) PROVE MsgqCall(t)'
  <2>1. MsgqCall(t) /\ call'[t] = call[t]
    BY <1>1, <1>10 DEF MsgqOK
  <2>2. Truthful(t)'
    BY <1>7, <2>1 DEF Truthful, WasServed, MsgqCall
  <2>3. call[t].arg # NONE => OwnMessage(t)'
    BY <1>1, <1>2, <1>7, <1>9, <2>1 DEF OwnMessage, MsgqCall, IsIn
  <2> QED BY <1>7, <2>1, <2>2, <2>3 DEF MsgqCall
<1>11. RingContents(obj') \in Seq(Items)
  BY <1>9
<1> QED BY <1>2, <1>6, <1>7, <1>8, <1>10, <1>11 DEF MsgqOK

LEMMA MsgqStep ==
  ASSUME BaseInv, MsgqOK, MsgqNext
  PROVE  BaseInv' /\ MsgqOK'
<1>1. ASSUME NEW x \in Items, MsgqPut(x) PROVE BaseInv' /\ MsgqOK'
  BY <1>1, MsgqPutKeeps
<1>2. ASSUME NEW x \in Items, NEW t \in Threads, NEW timed \in BOOLEAN, MsgqPutWait(t, x, timed)
      PROVE  BaseInv' /\ MsgqOK'
  BY <1>2, MsgqWaitKeeps DEF MsgqPutWait
<1>3. ASSUME NEW t \in Threads, NEW timed \in BOOLEAN, MsgqGetWait(t, timed)
      PROVE  BaseInv' /\ MsgqOK'
  BY <1>3, MsgqWaitKeeps DEF MsgqGetWait
<1> QED BY <1>1, <1>2, <1>3, MsgqGetKeeps, MsgqPurgeKeeps DEF MsgqNext

(***************************************************************************)
(* Initially, and in the steps that all objects share                      *)
(***************************************************************************)
\* The order in which create_free_list() links the blocks exists.
LEMMA SlabInit ==
  LET s == CHOOSE s \in [1..Cardinality(Items) -> Items] : \A j, k \in DOMAIN s : j # k => s[j] # s[k]
  IN  s \in Seq(Items) /\ Len(s) = Cardinality(Items) /\ Cardinality(Items) \in Nat
<1> DEFINE N == Cardinality(Items)
           s == CHOOSE s \in [1..N -> Items] : \A j, k \in DOMAIN s : j # k => s[j] # s[k]
<1>1. N \in Nat /\ ExistsBijection(1..N, Items)
  BY PoolsAssumption, FS_CardinalityType
<1>2. PICK f \in [1..N -> Items] : IsInjective(f)
  BY <1>1 DEF ExistsBijection, Bijection, Injection
<1>3. \E r \in [1..N -> Items] : \A j, k \in DOMAIN r : j # k => r[j] # r[k]
  BY <1>2 DEF IsInjective
<1>4. s \in [1..N -> Items]
  BY <1>3
<1> HIDE DEF s
<1>5. s \in Seq(Items) /\ Len(s) = N
  <2> HIDE DEF N
  <2> QED BY <1>1, <1>4
<1> QED BY <1>1, <1>5 DEF s

LEMMA InitBase ==
  ASSUME Init
  PROVE  /\ BaseInv
         /\ \A t \in Threads : /\ ~InCall(t) /\ ~Pended(t)
                               /\ swap_data[t] = NONE /\ swap_retval[t] = "EAGAIN"
<1>1. /\ prio = BasePrio /\ waitq = [q \in WaitQs |-> <<>>]
      /\ pended_on = [t \in Threads |-> NONE] /\ linked = [t \in Threads |-> FALSE]
      /\ firing = NONE /\ ready = [t \in Threads |-> TRUE]
      /\ swap_retval = [t \in Threads |-> "EAGAIN"]
      /\ call = [t \in Threads |-> NONE] /\ swap_data = [t \in Threads |-> NONE]
  BY DEF Init, BlockingInit, SchedInit
<1>2. SchedTypeOK
  BY <1>1, WaitQAssumption DEF SchedTypeOK
<1>3. \A t \in Threads : ~InCall(t) /\ ~Pended(t) /\ swap_data[t] = NONE /\ swap_retval[t] = "EAGAIN"
  BY <1>1 DEF InCall, Pended
<1>4. Waiters = <<>>
  BY <1>1, BlockingAssumption DEF Waiters
<1>5. OneQueue
  BY <1>3, <1>4 DEF OneQueue, IsIn, Once, Sorted
<1>6. CallsInv
  BY <1>1, <1>3 DEF CallsInv, ThreadOK, Data
<1> QED BY <1>2, <1>3, <1>5, <1>6 DEF BaseInv

LEMMA InitIInv ==
  ASSUME Init
  PROVE  IInv
<1>1. /\ BaseInv
      /\ \A t \in Threads : /\ ~InCall(t) /\ ~Pended(t)
                            /\ swap_data[t] = NONE /\ swap_retval[t] = "EAGAIN"
  BY InitBase
<1>2. CASE obj = Msgq
  <2>1. max_msgs \in Nat /\ max_msgs > 0 /\ 0 \in 0..(max_msgs - 1) /\ 0 \in 0..max_msgs
    BY MsgqAssumption
  <2>2. Ring(obj)
    BY <1>2, <2>1 DEF Ring, Msgq
  <2>3. RingContents(obj) = <<>>
    BY <1>2 DEF RingContents, Msgq
  <2>4. RingContents(obj) \in Seq(Items)
    BY <2>3
  <2>5. MsgqOK
    BY <1>1, <2>2, <2>4 DEF MsgqOK
  <2> QED BY <1>1, <2>5 DEF IInv, ObjectOK
<1>3. CASE obj = KQueue
  <2>1. QueueOK
    BY <1>1, <1>3 DEF QueueOK, KQueue
  <2> QED BY <1>1, <2>1 DEF IInv, ObjectOK
<1>4. CASE obj = Stack
  <2>1. StackOK
    BY <1>1, <1>4, PoolsAssumption DEF StackOK, Stack
  <2> QED BY <1>1, <2>1 DEF IInv, ObjectOK
<1>5. CASE obj = Kheap
  <2>1. HeapOK
    BY <1>1, <1>5 DEF HeapOK, Kheap
  <2> QED BY <1>1, <2>1 DEF IInv, ObjectOK
<1>6. CASE obj = Event
  <2>1. EventOK
    BY <1>1, <1>6 DEF EventOK, Event
  <2> QED BY <1>1, <2>1 DEF IInv, ObjectOK
<1>7. CASE obj = KTimer
  <2>1. TimerOK
    BY <1>1, <1>7 DEF TimerOK, TimerObj, WillReady, KTimer
  <2> QED BY <1>1, <2>1 DEF IInv, ObjectOK
<1>8. CASE obj = KSysSem
  <2>1. 0 \in SYS_SEM_CONTENDED..sem_limit
    BY SysSemAssumption DEF SYS_SEM_CONTENDED
  <2>2. SysSemOK
    BY <1>1, <1>8, <2>1 DEF SysSemOK, KSysSem
  <2> QED BY <1>1, <2>2 DEF IInv, ObjectOK
<1>9. CASE obj = Slab(CHOOSE s \in [1..Cardinality(Items) -> Items] :
                        \A j, k \in DOMAIN s : j # k => s[j] # s[k])
  <2> DEFINE s == CHOOSE s \in [1..Cardinality(Items) -> Items] :
                    \A j, k \in DOMAIN s : j # k => s[j] # s[k]
             N == Cardinality(Items)
  <2>1. s \in Seq(Items) /\ Len(s) = N /\ N \in Nat
    BY SlabInit
  <2>2. obj = [kind |-> "slab", free_list |-> s, num_used |-> 0]
    BY <1>9 DEF Slab
  <2> HIDE DEF s, N
  <2>3. /\ obj \in [kind : {"slab"}, free_list : Seq(Items), num_used : Int]
        /\ obj.num_used = 0 /\ obj.free_list = s
    BY <2>1, <2>2
  <2>4. obj.num_used = N - Len(obj.free_list)
    BY <2>1, <2>3
  <2>5. SlabOK
    BY <1>1, <2>3, <2>4 DEF SlabOK, N
  <2> QED BY <1>1, <2>5 DEF IInv, ObjectOK
<1> QED BY <1>2, <1>3, <1>4, <1>5, <1>6, <1>7, <1>8, <1>9 DEF Init

\* A thread that is off the queue changes nothing for the object.
LEMMA QuietKeeps ==
  ASSUME ObjectOK, UNCHANGED <<call, swap_data, swap_retval, obj>>,
         \A u \in Threads : Pended(u)' => Pended(u)
  PROVE  ObjectOK'
<1>1. /\ \A u \in Threads : InCall(u)' <=> InCall(u)
      /\ \A u \in Threads : Truthful(u)' <=> Truthful(u)
      /\ \A u \in Threads : OwnMessage(u)' <=> OwnMessage(u)
  BY DEF InCall, Truthful, WasServed, OwnMessage
<1>2. MsgqOK => MsgqOK'
  BY <1>1 DEF MsgqOK, MsgqCall
<1>3. QueueOK => QueueOK'
  BY <1>1 DEF QueueOK
<1>4. StackOK => StackOK'
  BY <1>1 DEF StackOK
<1>5. SlabOK => SlabOK'
  BY <1>1 DEF SlabOK
<1>6. HeapOK => HeapOK'
  BY <1>1 DEF HeapOK
<1>7. EventOK => EventOK'
  BY <1>1 DEF EventOK
<1>8. TimerOK => TimerOK'
  BY <1>1 DEF TimerOK
<1>9. SysSemOK => SysSemOK'
  BY <1>1 DEF SysSemOK
<1> QED BY <1>2, <1>3, <1>4, <1>5, <1>6, <1>7, <1>8, <1>9 DEF ObjectOK

\* A call returns.
LEMMA ReturnKeeps ==
  ASSUME IInv, NEW t \in Threads, Return(t)
  PROVE  IInv'
<1>1. Resumes(t) /\ obj' = obj /\ obj.kind \notin {"timer", "heap", "sys_sem"}
  BY DEF Return
<1>2. /\ BaseInv' /\ InCall(t) /\ ~Pended(t) /\ ~InCall(t)'
      /\ call'[t] = NONE /\ swap_data'[t] = NONE /\ swap_retval'[t] = "EAGAIN"
      /\ \A u \in Threads : Pended(u)' <=> Pended(u)
      /\ \A u \in Threads : u # t => /\ call'[u] = call[u] /\ (InCall(u)' <=> InCall(u))
                                     /\ swap_data'[u] = swap_data[u]
                                     /\ swap_retval'[u] = swap_retval[u]
  BY <1>1, ResumesKeeps DEF IInv
<1>3. \A u \in Threads : u # t => (Truthful(u)' <=> Truthful(u))
  BY <1>2 DEF Truthful, WasServed
<1>4. CASE MsgqOK
  <2>1. ASSUME NEW u \in Threads, u # t, call[u].arg # NONE, OwnMessage(u) PROVE OwnMessage(u)'
    BY <1>1, <1>2, <2>1 DEF OwnMessage
  <2>2. ASSUME NEW u \in Threads, u # t, MsgqCall(u) PROVE MsgqCall(u)'
    BY <1>1, <1>2, <1>3, <2>1, <2>2 DEF MsgqCall
  <2>3. MsgqOK'
    BY <1>1, <1>2, <1>4, <2>2 DEF MsgqOK
  <2> QED BY <1>2, <2>3 DEF IInv, ObjectOK
<1>5. CASE QueueOK
  <2>1. QueueOK'
    BY <1>1, <1>2, <1>5 DEF QueueOK
  <2> QED BY <1>2, <2>1 DEF IInv, ObjectOK
<1>6. CASE StackOK
  <2>1. StackOK'
    BY <1>1, <1>2, <1>3, <1>6 DEF StackOK
  <2> QED BY <1>2, <2>1 DEF IInv, ObjectOK
<1>7. CASE SlabOK
  <2>1. SlabOK'
    BY <1>1, <1>2, <1>3, <1>7 DEF SlabOK
  <2> QED BY <1>2, <2>1 DEF IInv, ObjectOK
<1>8. CASE EventOK
  <2>1. EventOK'
    BY <1>1, <1>2, <1>3, <1>8 DEF EventOK
  <2> QED BY <1>2, <2>1 DEF IInv, ObjectOK
<1>9. ~HeapOK /\ ~TimerOK /\ ~SysSemOK
  BY <1>1 DEF HeapOK, TimerOK, TimerObj, SysSemOK
<1> QED BY <1>4, <1>5, <1>6, <1>7, <1>8, <1>9 DEF IInv, ObjectOK

(***************************************************************************)
(* The theorems                                                            *)
(***************************************************************************)
LEMMA NextIInv ==
  ASSUME IInv, [Next]_vars
  PROVE  IInv'
<1>1. /\ BaseInv /\ ObjectOK
      /\ obj.kind = "msgq" => MsgqOK
      /\ obj.kind = "queue" => QueueOK
      /\ obj.kind = "stack" => StackOK
      /\ obj.kind = "slab" => SlabOK
      /\ obj.kind = "heap" => HeapOK
      /\ obj.kind = "event" => EventOK
      /\ obj.kind = "timer" => TimerOK
      /\ obj.kind = "sys_sem" => SysSemOK
  BY Kinds DEF IInv
<1>2. CASE MsgqNext
  BY <1>1, <1>2, MsgqStep DEF MsgqNext, IInv, ObjectOK
<1>3. CASE QueueNext
  BY <1>1, <1>3, QueueStep DEF QueueNext, IInv, ObjectOK
<1>4. CASE StackNext
  BY <1>1, <1>4, StackStep DEF StackNext, IInv, ObjectOK
<1>5. CASE SlabNext
  BY <1>1, <1>5, SlabStep DEF SlabNext, IInv, ObjectOK
<1>6. CASE HeapNext
  BY <1>1, <1>6, HeapStep DEF HeapNext, IInv, ObjectOK
<1>7. CASE EventNext
  BY <1>1, <1>7, EventStep DEF EventNext, IInv, ObjectOK
<1>8. CASE TimerNext
  BY <1>1, <1>8, TimerStep DEF TimerNext, IInv, ObjectOK
<1>9. CASE SysSemNext
  BY <1>1, <1>9, SysSemStep DEF SysSemNext, IInv, ObjectOK
<1>10. CASE \E t \in Threads : Return(t)
  BY <1>10, ReturnKeeps
<1>11. CASE \E t \in Threads : Expire(t)
  <2>1. BaseInv' /\ UNCHANGED <<pended_on, call, swap_data, swap_retval, obj>>
    BY <1>1, <1>11, ExpireKeeps
  <2>2. ObjectOK'
    BY <1>1, <2>1, QuietKeeps DEF Pended
  <2> QED BY <2>1, <2>2 DEF IInv
<1>12. CASE Callback
  <2>1. /\ BaseInv' /\ UNCHANGED <<call, swap_data, swap_retval, obj>>
        /\ \A u \in Threads : Pended(u)' => Pended(u)
    BY <1>1, <1>12, CallbackKeeps
  <2>2. ObjectOK'
    BY <1>1, <2>1, QuietKeeps
  <2> QED BY <2>1, <2>2 DEF IInv
<1>13. CASE UNCHANGED vars
  <2>1. UNCHANGED <<schedVars, obj, call, swap_data>>
    BY <1>13 DEF vars, objVars
  <2>2. BaseInv' /\ UNCHANGED <<pended_on, call, swap_data, swap_retval>>
    BY <1>1, <2>1, IdleKeeps
  <2>3. ObjectOK'
    BY <1>1, <2>1, <2>2, QuietKeeps DEF Pended
  <2> QED BY <2>2, <2>3 DEF IInv
<1> QED BY <1>2, <1>3, <1>4, <1>5, <1>6, <1>7, <1>8, <1>9, <1>10, <1>11, <1>12, <1>13 DEF Next

\* The invariant of all kernel objects of Ipc: the wait queue and the threads,
\* the calls and their results, and what is in the object agree.
THEOREM IpcInductive == Spec => []IInv
<1>1. Init => IInv
  BY InitIInv
<1>2. IInv /\ [Next]_vars => IInv'
  BY NextIInv
<1> QED BY <1>1, <1>2, PTL DEF Spec

LEMMA IInvImplies ==
  ASSUME IInv
  PROVE  IpcInv
<1>1. /\ BaseInv
      /\ obj.kind = "msgq" => MsgqOK
      /\ obj.kind = "queue" => QueueOK
      /\ obj.kind = "stack" => StackOK
      /\ obj.kind = "slab" => SlabOK
      /\ obj.kind = "heap" => HeapOK
      /\ obj.kind = "event" => EventOK
      /\ obj.kind = "timer" => TimerOK
      /\ obj.kind = "sys_sem" => SysSemOK
  BY Kinds DEF IInv
<1>2. /\ \A t \in Threads : /\ pended_on[t] \in {wait_q, NONE}
                            /\ IsIn(Waiters, t) <=> Pended(t)
                            /\ ThreadOK(t)
      /\ Waiters = <<>> <=> \A t \in Threads : ~Pended(t)
  BY <1>1, BaseFacts
<1>3. QueueInv
  BY <1>1, BaseQueueInv
<1>4. NotStranded
  BY <1>2 DEF NotStranded, ThreadOK, Pended
<1>5. MsgqInv
  <2> SUFFICES ASSUME obj.kind = "msgq", MsgqOK PROVE MsgqInv
    BY <1>1 DEF MsgqInv
  <2>1. /\ obj.read_ptr \in 0..(max_msgs - 1) /\ obj.write_ptr \in 0..(max_msgs - 1)
        /\ obj.used_msgs \in 0..max_msgs
        /\ obj.write_ptr - obj.read_ptr \in {obj.used_msgs, obj.used_msgs - max_msgs}
    BY DEF MsgqOK, Ring
  <2>2. \A t \in Threads : IsIn(Waiters, t) =>
           obj.used_msgs = IF call[t].op = "put" THEN max_msgs ELSE 0
    BY <1>2 DEF MsgqOK, MsgqCall, ThreadOK
  <2> QED BY <2>1, <2>2 DEF MsgqInv
<1>6. QueueWaits
  BY <1>1, <1>2 DEF QueueWaits, QueueOK
<1>7. PoolsInv
  BY <1>1, <1>2 DEF PoolsInv, StackOK, SlabOK
<1>8. HeapWaits
  <2> SUFFICES ASSUME obj.kind = "heap", NEW t \in Threads, IsIn(Waiters, t)
               PROVE  Full(obj.blocks, call[t].arg.n)
    BY DEF HeapWaits, Full
  <2> QED BY <1>1, <1>2 DEF HeapOK
<1>9. EventInv
  BY <1>1, <1>2 DEF EventInv, EventOK, InCall
<1>10. TimerInv
  BY <1>1, <1>2 DEF TimerInv, TimerOK, WillReady, WillWake
<1>11. SysSemInv
  <2> SUFFICES ASSUME obj.kind = "sys_sem", SysSemOK PROVE SysSemInv
    BY <1>1 DEF SysSemInv
  <2>1. obj.val \in SYS_SEM_CONTENDED..sem_limit
    BY DEF SysSemOK
  <2> QED BY <2>1 DEF SysSemInv, SysSemOK
<1> QED BY <1>3, <1>4, <1>5, <1>6, <1>7, <1>8, <1>9, <1>10, <1>11 DEF IpcInv

\* No thread is forgotten on a wait queue, and none waits for what a message
\* queue, queue, stack, memory slab or event object could give it, nor sleeps
\* through a k_heap_free() or the starts and stops of a timer; the units of a
\* user-space semaphore are all there.  Objects of any size, any number of
\* threads.
THEOREM IpcSafe == Spec => []IpcInv
<1>1. IInv => IpcInv
  BY IInvImplies
<1> QED BY <1>1, IpcInductive, PTL

(***************************************************************************)
(* Results                                                                 *)
(***************************************************************************)
\* sys_sem_take() returns when it has taken a unit or its time is up.
LEMMA SysSemEnds ==
  ASSUME BaseInv, SysSemOK, SysSemNext, NEW t \in Threads, InCall(t), ~InCall(t)'
  PROVE  swap_retval[t] # "0"
<1>1. /\ call \in [Threads -> Calls \cup {NONE}] /\ NONE \notin Calls
      /\ \A u \in Threads : ThreadOK(u) /\ (InCall(u) => /\ call[u].op \in {"test", "pend", "dec", "wait"}
                                                         /\ call[u].arg \in BOOLEAN)
  BY IpcAssumption DEF BaseInv, CallsInv, SysSemOK
<1>2. ASSUME NEW u \in Threads, InCall(u), NEW op \in {"test", "pend", "dec", "wait"},
             GoesTo(u, op)
      PROVE  InCall(t)'
  <2>1. call[u] \in Calls /\ [op |-> op, arg |-> call[u].arg] \in Calls
    BY <1>1, <1>2, CallTypes DEF InCall
  <2>2. [call[u] EXCEPT !.op = op] = [op |-> op, arg |-> call[u].arg]
    BY <2>1 DEF Calls, CallsWith
  <2>3. call' = [call EXCEPT ![u] = [op |-> op, arg |-> call[u].arg]]
    BY <1>2, <2>2 DEF GoesTo
  <2> QED BY <1>1, <2>1, <2>3 DEF InCall
<1>3. CASE SysGive \/ FutexWake
  BY <1>3 DEF SysGive, FutexWake, InCall
<1>4. ASSUME NEW u \in Threads, FutexTest(u) PROVE FALSE
  <2>1. InCall(u) /\ (GoesTo(u, "pend") \/ GoesTo(u, "dec"))
    BY <1>4 DEF FutexTest, At, InCall
  <2> QED BY <1>2, <2>1
<1>5. ASSUME NEW u \in Threads, FutexPend(u) PROVE FALSE
  <2>1. InCall(u) /\ GoesTo(u, "wait")
    BY <1>5 DEF FutexPend, At, InCall
  <2> QED BY <1>2, <2>1
<1>6. ASSUME NEW u \in Threads, FutexReturn(u) PROVE swap_retval[t] # "0"
  <2>1. InCall(u)
    BY <1>6 DEF FutexReturn, At, InCall
  <2>2. CASE GoesTo(u, "dec")
    BY <1>2, <2>1, <2>2
  <2>3. CASE swap_retval[u] # "0" /\ Resumes(u)
    <3>1. \A v \in Threads : v # u => (InCall(v)' <=> InCall(v))
      BY <2>3, ResumesKeeps
    <3>2. t = u
      BY <3>1
    <3> QED BY <2>3, <3>2
  <2> QED BY <1>6, <2>2, <2>3 DEF FutexReturn
<1>7. ASSUME NEW u \in Threads, NEW timed \in BOOLEAN, TakeStep(u, timed) PROVE t = u
  <2>1. \A v \in Threads : v # u => call'[v] = call[v]
    BY <1>1, <1>7 DEF TakeStep
  <2> QED BY <2>1 DEF InCall
<1>8. ASSUME NEW u \in Threads, SysTakeAgain(u) PROVE swap_retval[t] # "0"
  <2>1. call[u].op = "dec" /\ InCall(u) /\ TakeStep(u, call[u].arg)
    BY <1>8 DEF SysTakeAgain, At, InCall
  <2>2. t = u
    BY <1>1, <1>7, <2>1
  <2> QED BY <2>1, <2>2 DEF SysSemOK
<1>9. ASSUME NEW u \in Threads, NEW timed \in BOOLEAN, SysTake(u, timed) PROVE FALSE
  <2>1. call[u] = NONE /\ TakeStep(u, timed)
    BY <1>9 DEF SysTake, Running
  <2>2. t = u
    BY <1>7, <2>1
  <2> QED BY <2>1, <2>2 DEF InCall
<1> QED BY <1>3, <1>4, <1>5, <1>6, <1>8, <1>9 DEF SysSemNext

\* A call that ends reports what has happened to it.
LEMMA EndIsTrue ==
  ASSUME IInv, Next, NEW t \in Threads, InCall(t), ~InCall(t)'
  PROVE  /\ WasServed(t) => swap_retval[t] = "0"
         /\ swap_retval[t] = "0" /\ obj.kind \notin {"queue", "timer"} => WasServed(t)
<1>1. /\ BaseInv
      /\ obj.kind \in {"msgq", "queue", "stack", "slab", "heap", "event", "timer", "sys_sem"}
      /\ obj.kind = "msgq" => MsgqOK
      /\ obj.kind = "queue" => QueueOK
      /\ obj.kind = "stack" => StackOK
      /\ obj.kind = "slab" => SlabOK
      /\ obj.kind = "heap" => HeapOK
      /\ obj.kind = "event" => EventOK
      /\ obj.kind = "timer" => TimerOK
      /\ obj.kind = "sys_sem" => SysSemOK
  BY Kinds DEF IInv
<1>2. CASE obj.kind \in {"msgq", "stack", "slab", "event"}
  <2>1. Truthful(t)
    BY <1>1, <1>2 DEF MsgqOK, MsgqCall, StackOK, SlabOK, EventOK
  <2> QED BY <2>1 DEF Truthful
<1>3. CASE obj.kind = "queue"
  BY <1>1, <1>3 DEF QueueOK, WasServed
<1>4. CASE obj.kind = "timer"
  BY <1>1, <1>4 DEF TimerOK, WasServed
<1>5. CASE obj.kind = "heap"
  BY <1>1, <1>5 DEF HeapOK, WasServed
<1>6. CASE obj.kind = "sys_sem"
  <2>1. ~WasServed(t)
    BY <1>1, <1>6 DEF SysSemOK, WasServed
  <2>2. CASE SysSemNext
    BY <1>1, <1>6, <2>1, <2>2, SysSemEnds
  <2>3. CASE \E u \in Threads : Return(u) \/ Expire(u)
    BY <1>6, <2>3 DEF Return, Expire, objVars, InCall
  <2>4. CASE Callback
    BY <2>4 DEF Callback, objVars, InCall
  <2>5. ~(MsgqNext \/ QueueNext \/ StackNext \/ SlabNext \/ HeapNext \/ EventNext \/ TimerNext)
    BY <1>6 DEF MsgqNext, QueueNext, StackNext, SlabNext, HeapNext, EventNext, TimerNext
  <2> QED BY <2>2, <2>3, <2>4, <2>5 DEF Next
<1> QED BY <1>1, <1>2, <1>3, <1>4, <1>5, <1>6

\* A call returns success if and only if it was served, when a timeout and a
\* wake-up meet too, in any of the objects.
THEOREM ResultsAreTrue == Spec => ResultIsTrue
<1> DEFINE A == \A t \in Threads :
                  call[t] # NONE /\ call'[t] = NONE =>
                    /\ WasServed(t) => swap_retval[t] = "0"
                    /\ swap_retval[t] = "0" /\ obj.kind \notin {"queue", "timer"} => WasServed(t)
<1>1. IInv /\ [Next]_vars => [A]_vars
  <2> SUFFICES ASSUME IInv, Next PROVE A
    OBVIOUS
  <2> QED BY EndIsTrue DEF InCall
<1> QED BY <1>1, IpcInductive, PTL DEF Spec, ResultIsTrue

(***************************************************************************)
(* The exchange of items                                                   *)
(***************************************************************************)
\* A list from its last element to its first.
Backwards(s) == [k \in 1..Len(s) |-> s[Len(s) + 1 - k]]

\* What is in the object o, and what it has given, as the promise sees them.
ContentsAt(o) ==
  IF o.kind = "msgq" THEN RingContents(o) ELSE IF o.kind = "queue" THEN o.data_q
  ELSE IF o.kind = "stack" THEN o.entries ELSE IF o.kind = "slab" THEN Backwards(o.free_list)
  ELSE <<>>
GivenAt(o, data) ==
  IF o.kind \in {"event", "timer", "heap", "sys_sem"} THEN [t \in Threads |-> NONE] ELSE data

LEMMA ContentsMap ==
  /\ Contents = ContentsAt(obj) /\ Contents' = ContentsAt(obj')
  /\ Given = GivenAt(obj, swap_data) /\ Given' = GivenAt(obj', swap_data')
BY DEF Contents, Given, ContentsAt, GivenAt, Backwards, RingContents, MsgqContents

\* One of the four objects that pass items on: what the promise sees.
LEMMA ContentsFacts ==
  ASSUME obj.kind \in {"msgq", "queue", "stack", "slab"}, obj'.kind = obj.kind
  PROVE  /\ Given = swap_data /\ Given' = swap_data'
         /\ obj.kind = "msgq" => Contents = RingContents(obj) /\ Contents' = RingContents(obj')
         /\ obj.kind = "queue" => Contents = obj.data_q /\ Contents' = obj'.data_q
         /\ obj.kind = "stack" => Contents = obj.entries /\ Contents' = obj'.entries
         /\ obj.kind = "slab" => /\ Contents = Backwards(obj.free_list)
                                 /\ Contents' = Backwards(obj'.free_list)
BY ContentsMap DEF ContentsAt, GivenAt

\* An item goes from hand to hand.
LEMMA PromiseHands ==
  ASSUME obj'.kind = obj.kind, Contents = <<>>, Contents' = <<>>,
         NEW f \in Threads, Given[f] = NONE, NEW x \in Items,
         \A t \in Threads : Given[t] # x,
         Given' = [t \in Threads |-> IF t = f THEN x ELSE Given[t]]
  PROVE  Promise!Next
<1> DEFINE xs == <<x>>
           ts == <<f>>
<1>1. /\ xs \in Promise!Lists2(Items) /\ ts \in Promise!Lists2(Threads)
  BY DEF Promise!Lists2
<1>2. DOMAIN xs = {1} /\ xs[1] = x /\ DOMAIN ts = {1} /\ ts[1] = f /\ Len(xs) = 1 /\ Len(ts) = 1
  OBVIOUS
<1>3. Contents \o SubSeq(xs, Len(ts) + 1, Len(xs)) = <<>>
  BY <1>2
<1> HIDE DEF xs, ts
<1>4. \A k \in DOMAIN xs : Promise!Fresh(xs[k])
  BY <1>2 DEF Promise!Fresh
<1>5. \A k \in DOMAIN ts : Given[ts[k]] = NONE
  BY <1>2
<1>6. Given' = [t \in Threads |->
                 IF \E k \in DOMAIN ts : ts[k] = t
                 THEN xs[CHOOSE k \in DOMAIN ts : ts[k] = t] ELSE Given[t]]
  <2>1. \A t \in Threads : (\E k \in DOMAIN ts : ts[k] = t) <=> t = f
    BY <1>2
  <2>2. xs[CHOOSE k \in DOMAIN ts : ts[k] = f] = x
    BY <1>2
  <2> QED BY <2>1, <2>2
<1>7. Promise!Accept(xs, ts)
  BY <1>2, <1>3, <1>4, <1>5, <1>6 DEF Promise!Accept
<1> QED BY <1>1, <1>7 DEF Promise!Next

\* An item goes behind the others.
LEMMA PromiseStores ==
  ASSUME obj'.kind = obj.kind, Contents \in Seq(Items), NEW x \in Items,
         \A k \in DOMAIN Contents : Contents[k] # x, \A t \in Threads : Given[t] # x,
         Contents' = Append(Contents, x), Given' = Given, Given = [t \in Threads |-> Given[t]]
  PROVE  Promise!Next
<1> DEFINE xs == <<x>>
           ts == <<>>
<1>1. /\ xs \in Promise!Lists2(Items) /\ ts \in Promise!Lists2(Threads)
  BY DEF Promise!Lists2
<1>2. DOMAIN xs = {1} /\ xs[1] = x /\ DOMAIN ts = {} /\ Len(xs) = 1 /\ Len(ts) = 0
  OBVIOUS
<1>3. Contents \o SubSeq(xs, Len(ts) + 1, Len(xs)) = Append(Contents, x)
  <2>1. SubSeq(xs, 1, 1) = xs
    <3>1. xs \in Seq(Items)
      OBVIOUS
    <3> HIDE DEF xs
    <3>2. SubSeq(xs, 1, Len(xs)) = xs
      BY <3>1, SubSeqFull, Zenon
    <3> QED BY <1>2, <3>2
  <2>2. Contents \o xs = Append(Contents, x)
    OBVIOUS
  <2> QED BY <1>2, <2>1, <2>2
<1> HIDE DEF xs
<1>4. \A k \in DOMAIN xs : Promise!Fresh(xs[k])
  BY <1>2 DEF Promise!Fresh
<1>5. Promise!Accept(xs, ts)
  BY <1>2, <1>3, <1>4 DEF Promise!Accept
<1> QED BY <1>1, <1>5 DEF Promise!Next

\* The item whose turn it is goes to a caller.
LEMMA PromiseDelivers ==
  ASSUME obj'.kind = obj.kind, Contents # <<>>, Given' = Given,
         Contents' = IF obj.kind \in {"msgq", "queue"} THEN Tail(Contents)
                     ELSE SubSeq(Contents, 1, Len(Contents) - 1)
  PROVE  Promise!Next
BY DEF Promise!Next, Promise!Deliver, Promise!Rest

\* Nothing that the promise sees has changed.
LEMMA PromiseStutters ==
  ASSUME obj'.kind = obj.kind, Contents' = Contents, Given' = Given
  PROVE  UNCHANGED <<obj.kind, Contents, Given>>
OBVIOUS

\* A step of the promise, or none.
Exchanges == [Promise!Next]_<<obj.kind, Contents, Given>>

\* The data of the threads, as functions.
LEMMA DataFacts ==
  ASSUME BaseInv, BaseInv'
  PROVE  /\ swap_data = [t \in Threads |-> swap_data[t]]
         /\ swap_data' = [t \in Threads |-> swap_data'[t]]
         /\ (\A t \in Threads : swap_data'[t] = swap_data[t]) => swap_data' = swap_data
BY DEF BaseInv, CallsInv

\* The first that waits is handed x.
LEMMA HandsOver ==
  ASSUME BaseInv, obj.kind \in {"msgq", "queue", "stack", "slab"}, obj' = obj, call' = call,
         NEW x \in Items, ServeFirst(x), \A t \in Threads : swap_data[t] # x, Contents = <<>>
  PROVE  Promise!Next
<1>1. /\ call' \in [Threads -> Calls \cup {NONE}] /\ \A u \in Threads : InCall(u)' <=> InCall(u)
      /\ x \in Data
  BY SameCalls DEF Data
<1>2. PICK f : f = First
  OBVIOUS
<1>3. /\ BaseInv' /\ f \in Threads /\ Pended(f)
      /\ \A u \in Threads : swap_data'[u] = IF u = f THEN x ELSE swap_data[u]
  BY <1>1, <1>2, ServeFirstKeeps
<1>4. swap_data[f] = NONE
  BY <1>3, BaseFacts DEF ThreadOK
<1>5. swap_data' = [t \in Threads |-> IF t = f THEN x ELSE swap_data[t]]
  BY <1>3, DataFacts
<1>6. Given = swap_data /\ Given' = swap_data' /\ Contents' = <<>>
  BY ContentsFacts, ContentsMap
<1> QED BY <1>3, <1>4, <1>5, <1>6, PromiseHands

\* A thread begins to wait: the promise sees nothing of it.
LEMMA WaitExchanges ==
  ASSUME BaseInv, obj.kind \in {"msgq", "queue", "stack", "slab"}, obj' = obj,
         NEW t \in Threads, NEW op, NEW arg, NEW timed \in BOOLEAN,
         [op |-> op, arg |-> arg] \in Calls, Wait(t, op, arg, timed)
  PROVE  Exchanges
<1>1. swap_data' = swap_data
  BY WaitKeeps
<1>2. Contents' = Contents /\ Given' = Given
  BY <1>1, ContentsMap
<1> QED BY <1>2 DEF Exchanges

LEMMA MsgqExchanges ==
  ASSUME BaseInv, MsgqOK, MsgqNext
  PROVE  Exchanges
<1>1. /\ BaseInv' /\ Ring(obj) /\ Ring(obj') /\ RingContents(obj) \in Seq(Items)
  BY MsgqStep DEF MsgqOK
<1>2. obj.kind = "msgq" /\ obj'.kind = "msgq"
  BY <1>1 DEF Ring
<1>3. /\ Given = swap_data /\ Given' = swap_data'
      /\ Contents = RingContents(obj) /\ Contents' = RingContents(obj')
  BY <1>2, ContentsFacts
<1>4. ASSUME NEW x \in Items, MsgqPut(x) PROVE Exchanges
  <2>1. /\ ~IsIn(RingContents(obj), x)
        /\ \A t \in Threads : swap_data[t] # x /\ (InCall(t) => call[t].arg # x)
    BY <1>4, MsgqOutside DEF MsgqPut
  <2>2. obj.used_msgs < max_msgs /\ call' = call
    BY <1>4 DEF MsgqPut
  <2>3. CASE ServeFirst(x) /\ UNCHANGED obj
    <3>1. First \in Threads /\ Pended(First)
      BY <2>3, BaseFacts DEF ServeFirst
    <3>2. obj.used_msgs = IF call[First].op = "put" THEN max_msgs ELSE 0
      BY <3>1, BaseFacts DEF ThreadOK, MsgqOK, MsgqCall
    <3>3. obj.used_msgs # max_msgs
      BY <1>1, <2>2, RingTypes
    <3>4. RingContents(obj) = <<>>
      BY <3>2, <3>3 DEF RingContents
    <3> QED BY <1>2, <1>3, <2>1, <2>2, <2>3, <3>4, HandsOver DEF Exchanges
  <2>4. CASE Waiters = <<>> /\ obj' = Stored(obj, x) /\ UNCHANGED <<schedVars, swap_data>>
    <3>1. RingContents(obj') = Append(RingContents(obj), x)
      BY <1>1, <2>2, <2>4, StoredFacts
    <3>2. swap_data' = swap_data /\ swap_data = [t \in Threads |-> swap_data[t]]
      BY <1>1, <2>4, DataFacts
    <3>3. \A k \in DOMAIN Contents : Contents[k] # x
      BY <1>3, <2>1 DEF IsIn
    <3>4. Promise!Next
      BY <1>1, <1>2, <1>3, <2>1, <3>1, <3>2, <3>3, PromiseStores
    <3> QED BY <3>4 DEF Exchanges
  <2> QED BY <1>4, <2>3, <2>4 DEF MsgqPut
<1>5. ASSUME NEW x \in Items, NEW t \in Threads, NEW timed \in BOOLEAN, MsgqPutWait(t, x, timed)
      PROVE  Exchanges
  <2>1. [op |-> "put", arg |-> x] \in Calls /\ Wait(t, "put", x, timed) /\ obj' = obj
    BY <1>5, CallTypes DEF MsgqPutWait
  <2> QED BY <1>2, <2>1, WaitExchanges
<1>6. ASSUME NEW t \in Threads, NEW timed \in BOOLEAN, MsgqGetWait(t, timed)
      PROVE  Exchanges
  <2>1. [op |-> "get", arg |-> NONE] \in Calls /\ Wait(t, "get", NONE, timed) /\ obj' = obj
    BY <1>6, CallTypes DEF MsgqGetWait
  <2> QED BY <1>2, <2>1, WaitExchanges
<1>7. CASE MsgqGet
  <2>1. obj.used_msgs > 0
    BY <1>7 DEF MsgqGet
  <2>2. CASE /\ ServeFirst(NONE) /\ obj' = Stored(Fetched(obj), call[First].arg)
             /\ call' = [call EXCEPT ![First].arg = NONE]
    <3>1. PICK f : f = First
      OBVIOUS
    <3> DEFINE x == call[f].arg
    <3>2. /\ f \in Threads /\ Pended(f) /\ x \in Items /\ OwnMessage(f)
          /\ RingContents(obj) # <<>> /\ RingContents(obj') = Append(Tail(RingContents(obj)), x)
          /\ \A u \in Threads : swap_data'[u] = IF u = f THEN NONE ELSE swap_data[u]
      BY <2>1, <2>2, <3>1, MsgqGetServes
    <3>3. swap_data[f] = NONE
      BY <3>2, BaseFacts DEF ThreadOK
    <3>4. swap_data' = swap_data
      BY <1>1, <3>2, <3>3, DataFacts
    <3>5. Promise!Fresh(x)
      BY <1>3, <3>2 DEF OwnMessage, IsIn, Promise!Fresh
    <3> HIDE DEF x
    <3>6. Contents' = Append(Promise!Rest, x)
      BY <1>2, <1>3, <3>2 DEF Promise!Rest
    <3>7. Promise!Deliver
      BY <1>2, <1>3, <3>2, <3>4, <3>5, <3>6 DEF Promise!Deliver
    <3> QED BY <1>2, <3>7 DEF Exchanges, Promise!Next
  <2>3. CASE /\ Waiters = <<>> /\ obj' = Fetched(obj) /\ UNCHANGED <<schedVars, call, swap_data>>
    <3>1. RingContents(obj) # <<>> /\ RingContents(obj') = Tail(RingContents(obj))
      BY <1>1, <2>1, <2>3, FetchedFacts
    <3>2. Promise!Next
      BY <1>2, <1>3, <2>3, <3>1, PromiseDelivers
    <3> QED BY <3>2 DEF Exchanges
  <2> QED BY <1>7, <2>2, <2>3 DEF MsgqGet
<1>8. CASE MsgqPurge
  <2> DEFINE S == {t \in Threads : IsIn(Waiters, t)}
  <2>1. /\ Serve(S, "ENOMSG", [t \in S |-> NONE]) /\ obj'.used_msgs = 0
    BY <1>8 DEF MsgqPurge, Msgq
  <2>2. \A t \in S : swap_data[t] = NONE
    BY BaseFacts DEF ThreadOK
  <2> HIDE DEF S
  <2>3. \A t \in Threads : swap_data'[t] = swap_data[t]
    BY <2>1, <2>2 DEF Serve
  <2>4. swap_data' = swap_data
    BY <1>1, <2>3, DataFacts
  <2>5. Contents' = <<>>
    BY <1>3, <2>1 DEF RingContents
  <2>6. Promise!Purge
    BY <1>2, <1>3, <2>4, <2>5 DEF Promise!Purge
  <2> QED BY <1>2, <2>6 DEF Exchanges, Promise!Next
<1> QED BY <1>4, <1>5, <1>6, <1>7, <1>8 DEF MsgqNext

\* A list of two items goes to the threads that wait, and the rest behind
\* the others.
LEMMA PromiseList ==
  ASSUME obj'.kind = obj.kind, NEW x \in Items, NEW y \in Items, x # y,
         \A z \in {x, y} : (\A k \in DOMAIN Contents : Contents[k] # z)
                           /\ \A t \in Threads : Given[t] # z,
         NEW ts \in Promise!Lists2(Threads), NEW n \in 0..2, Len(ts) = n, DOMAIN ts = 1..n,
         \A j, k \in DOMAIN ts : j # k => ts[j] # ts[k],
         \A k \in 1..n : Given[ts[k]] = NONE,
         ts # <<>> => Contents = <<>>,
         Contents' = Contents \o SubSeq(<<x, y>>, n + 1, 2),
         Given' = [t \in Threads |-> IF n > 0 /\ t = ts[1] THEN x
                                     ELSE IF n = 2 /\ t = ts[2] THEN y ELSE Given[t]]
  PROVE  Promise!Next
<1> DEFINE xs == <<x, y>>
<1>1. /\ Len(xs) = 2 /\ DOMAIN xs = {1, 2} /\ xs[1] = x /\ xs[2] = y
      /\ xs \in Items \X Items
  OBVIOUS
<1> HIDE DEF xs
<1>2. Promise!Distinct(xs)
  BY <1>1 DEF Promise!Distinct
<1>3. xs \in Promise!Lists2(Items)
  BY <1>1, <1>2 DEF Promise!Lists2
<1>4. \A k \in DOMAIN xs : Promise!Fresh(xs[k])
  BY <1>1 DEF Promise!Fresh
<1>5. ASSUME NEW k \in 1..n PROVE (CHOOSE j \in DOMAIN ts : ts[j] = ts[k]) = k
  BY <1>5
<1>6. ASSUME NEW t \in Threads
      PROVE  (IF n > 0 /\ t = ts[1] THEN x ELSE IF n = 2 /\ t = ts[2] THEN y ELSE Given[t])
               = IF \E k \in DOMAIN ts : ts[k] = t
                 THEN xs[CHOOSE k \in DOMAIN ts : ts[k] = t] ELSE Given[t]
  <2>1. CASE n = 0
    BY <2>1
  <2>2. CASE n = 1
    <3>1. DOMAIN ts = {1} /\ 1 \in 1..n
      BY <2>2
    <3>2. CASE t = ts[1]
      <4>1. (CHOOSE j \in DOMAIN ts : ts[j] = t) = 1
        BY <1>5, <3>1, <3>2
      <4> QED BY <1>1, <2>2, <3>1, <3>2, <4>1
    <3>3. CASE t # ts[1]
      BY <2>2, <3>1, <3>3
    <3> QED BY <3>2, <3>3
  <2>3. CASE n = 2
    <3>1. DOMAIN ts = {1, 2} /\ 1 \in 1..n /\ 2 \in 1..n
      BY <2>3
    <3>2. CASE t = ts[1]
      <4>1. (CHOOSE j \in DOMAIN ts : ts[j] = t) = 1
        BY <1>5, <3>1, <3>2
      <4>2. \E k \in DOMAIN ts : ts[k] = t
        BY <3>1, <3>2
      <4> HIDE DEF xs
      <4>3. xs[CHOOSE k \in DOMAIN ts : ts[k] = t] = x
        BY <1>1, <4>1
      <4> QED BY <2>3, <3>2, <4>2, <4>3
    <3>3. CASE t = ts[2] /\ t # ts[1]
      <4>1. (CHOOSE j \in DOMAIN ts : ts[j] = t) = 2
        BY <1>5, <3>1, <3>3
      <4> QED BY <1>1, <2>3, <3>1, <3>3, <4>1
    <3>4. CASE t # ts[1] /\ t # ts[2]
      BY <2>3, <3>1, <3>4
    <3> QED BY <3>2, <3>3, <3>4
  <2> QED BY <2>1, <2>2, <2>3
<1>7. Given' = [t \in Threads |->
                 IF \E k \in DOMAIN ts : ts[k] = t
                 THEN xs[CHOOSE k \in DOMAIN ts : ts[k] = t] ELSE Given[t]]
  BY <1>6
<1>8. Contents' = Contents \o SubSeq(xs, Len(ts) + 1, Len(xs))
  BY <1>1 DEF xs
<1>9. Len(ts) <= Len(xs)
  BY <1>1
<1>10. \A k \in DOMAIN ts : Given[ts[k]] = NONE
  OBVIOUS
<1>11. Promise!Accept(xs, ts)
  <2> HIDE DEF Given, Contents
  <2> QED BY <1>4, <1>7, <1>8, <1>9, <1>10 DEF Promise!Accept
<1> QED BY <1>3, <1>11 DEF Promise!Next

LEMMA QueueAppendListExchanges ==
  ASSUME BaseInv, QueueOK, NEW x \in Items, NEW y \in Items, QueueAppendList(x, y)
  PROVE  Promise!Next
<1> DEFINE W == Waiters
           n == Len(Waiters)
           S == {Waiters[k] : k \in 1..n \cap 1..2}
           d == obj.data_q
<1>1. /\ BaseInv' /\ n \in Nat
      /\ \A t \in S : t \in Threads /\ Pended(t)
      /\ \A u \in Threads :
           swap_data'[u] = IF u \in S THEN (IF u = First THEN x ELSE y) ELSE swap_data[u]
      /\ obj' = [obj EXCEPT !.data_q = @ \o SubSeq(<<x, y>>, n + 1, 2)]
  BY QueueAppendListFacts
<1>2. obj \in [kind : {"queue"}, data_q : Seq(Items)]
  BY DEF QueueOK
<1>3. /\ obj.kind = "queue" /\ obj'.kind = "queue" /\ d \in Seq(Items)
      /\ obj'.data_q = d \o SubSeq(<<x, y>>, n + 1, 2)
  BY <1>1, <1>2
<1>4. /\ Given = swap_data /\ Given' = swap_data' /\ Contents = d /\ Contents' = obj'.data_q
  BY <1>3, ContentsFacts
<1>5. \A z \in {x, y} : (\A k \in DOMAIN Contents : Contents[k] # z)
                        /\ \A t \in Threads : Given[t] # z
  BY <1>4, OutsideItems DEF QueueAppendList
<1>6. x # y
  BY DEF QueueAppendList
<1>7. W \in Seq(Threads) /\ DOMAIN W = 1..n /\ \A k \in 1..n : W[k] \in Threads /\ Once(W, W[k])
  <2>1. W \in Seq(Threads) /\ \A t \in Threads : Once(W, t)
    BY BaseFacts DEF BaseInv, OneQueue
  <2> QED BY <2>1
<1>8. W # <<>> => First = W[1]
  BY <1>7 DEF First
<1>9. \A t \in S : swap_data[t] = NONE /\ d = <<>>
  BY <1>1, BaseFacts DEF ThreadOK, QueueOK
<1>10. /\ swap_data' = [t \in Threads |-> swap_data'[t]]
       /\ swap_data = [t \in Threads |-> swap_data[t]]
  BY <1>1, DataFacts
<1>11. CASE n = 0
  <2>1. S = {}
    BY <1>11
  <2>2. /\ Given' = [t \in Threads |-> Given[t]]
    BY <1>1, <1>4, <1>10, <2>1
  <2> DEFINE ts == <<>>
  <2>3. PICK m \in 0..2 : m = 0
    OBVIOUS
  <2>4. ts \in Promise!Lists2(Threads) /\ Len(ts) = m /\ DOMAIN ts = 1..m
    BY <2>3 DEF Promise!Lists2
  <2>5. Contents' = Contents \o SubSeq(<<x, y>>, m + 1, 2)
    BY <1>3, <1>4, <1>11, <2>3
  <2> HIDE DEF S, W, n, d
  <2>6. Given' = [t \in Threads |-> IF m > 0 /\ t = ts[1] THEN x
                                    ELSE IF m = 2 /\ t = ts[2] THEN y ELSE Given[t]]
    BY <2>2, <2>3
  <2>7. /\ \A j, k \in DOMAIN ts : j # k => ts[j] # ts[k]
        /\ \A k \in 1..m : Given[ts[k]] = NONE
        /\ ts # <<>> => Contents = <<>>
    BY <2>3, <2>4
  <2>8. obj'.kind = obj.kind
    BY <1>3
  <2> HIDE DEF ts
  <2> QED BY <1>5, <1>6, <2>4, <2>5, <2>6, <2>7, <2>8, PromiseList
<1>12. CASE n = 1
  <2>1. PICK f \in Threads : f = W[1]
    BY <1>7, <1>12
  <2>2. S = {f} /\ First = f
    <3>1. 1..n \cap 1..2 = {1} /\ W # <<>>
      BY <1>12
    <3> QED BY <1>8, <2>1, <3>1
  <2> DEFINE ts == <<f>>
  <2>3. /\ ts \in Promise!Lists2(Threads) /\ Len(ts) = 1 /\ DOMAIN ts = 1..1 /\ ts[1] = f
    BY DEF Promise!Lists2
  <2>4. Contents' = Contents \o SubSeq(<<x, y>>, 1 + 1, 2)
    BY <1>3, <1>4, <1>12
  <2> HIDE DEF S, W, n, d, ts
  <2>5. Given' = [t \in Threads |-> IF t = f THEN x ELSE Given[t]]
    BY <1>1, <1>4, <1>10, <2>2
  <2>6. Given[f] = NONE /\ Contents = <<>>
    BY <1>4, <1>9, <2>2
  <2>7. Given' = [t \in Threads |-> IF 1 > 0 /\ t = ts[1] THEN x
                                    ELSE IF 1 = 2 /\ t = ts[2] THEN y ELSE Given[t]]
    BY <2>3, <2>5
  <2>8. /\ \A j, k \in DOMAIN ts : j # k => ts[j] # ts[k]
        /\ \A k \in 1..1 : Given[ts[k]] = NONE
    BY <2>3, <2>6
  <2>9. 1 \in 0..2 /\ obj'.kind = obj.kind
    BY <1>3
  <2> QED BY <1>5, <1>6, <2>3, <2>4, <2>6, <2>7, <2>8, <2>9, PromiseList
<1>13. CASE n > 1
  <2>1. PICK f \in Threads : f = W[1]
    BY <1>7, <1>13
  <2>2. PICK g \in Threads : g = W[2]
    BY <1>7, <1>13
  <2>3. S = {f, g} /\ First = f /\ f # g
    <3>1. 1..n \cap 1..2 = {1, 2} /\ W # <<>> /\ {1, 2} \subseteq DOMAIN W
      BY <1>7, <1>13
    <3>2. f # g
      BY <1>7, <2>1, <2>2, <3>1 DEF Once
    <3> QED BY <1>8, <2>1, <2>2, <3>1, <3>2
  <2> DEFINE ts == <<f, g>>
  <2>4. /\ ts \in Threads \X Threads /\ Len(ts) = 2 /\ DOMAIN ts = 1..2 /\ ts[1] = f /\ ts[2] = g
    OBVIOUS
  <2>5. Contents' = Contents \o SubSeq(<<x, y>>, 2 + 1, 2)
    <3>1. 2 \in Nat /\ 2 > 1
      OBVIOUS
    <3>2. SubSeq(<<x, y>>, n + 1, 2) = <<>> /\ SubSeq(<<x, y>>, 2 + 1, 2) = <<>>
      <4> HIDE DEF n
      <4> QED BY <1>1, <1>13, <3>1, ListRest
    <3> QED BY <1>3, <1>4, <3>2
  <2> HIDE DEF S, W, n, d, ts
  <2>6. \A j, k \in DOMAIN ts : j # k => ts[j] # ts[k]
    BY <2>3, <2>4
  <2>7. ts \in Promise!Lists2(Threads)
    BY <2>4, <2>6 DEF Promise!Lists2, Promise!Distinct
  <2>8. Given' = [t \in Threads |-> IF t = f THEN x ELSE IF t = g THEN y ELSE Given[t]]
    <3>1. \A u \in Threads : swap_data'[u] = IF u = f THEN x ELSE IF u = g THEN y ELSE swap_data[u]
      BY <1>1, <2>3
    <3> QED BY <1>4, <1>10, <3>1
  <2>9. Given[f] = NONE /\ Given[g] = NONE /\ Contents = <<>>
    BY <1>4, <1>9, <2>3
  <2>10. Given' = [t \in Threads |-> IF 2 > 0 /\ t = ts[1] THEN x
                                     ELSE IF 2 = 2 /\ t = ts[2] THEN y ELSE Given[t]]
    BY <2>4, <2>8
  <2>11. \A k \in 1..2 : Given[ts[k]] = NONE
    BY <2>4, <2>9
  <2>12. 2 \in 0..2 /\ obj'.kind = obj.kind
    BY <1>3
  <2> QED BY <1>5, <1>6, <2>4, <2>5, <2>6, <2>7, <2>9, <2>10, <2>11, <2>12, PromiseList
<1>14. n = 0 \/ n = 1 \/ n > 1
  <2> HIDE DEF n
  <2> QED BY <1>1
<1> QED BY <1>11, <1>12, <1>13, <1>14

LEMMA QueueExchanges ==
  ASSUME BaseInv, QueueOK, QueueNext
  PROVE  Exchanges
<1>1. BaseInv' /\ obj \in [kind : {"queue"}, data_q : Seq(Items)] /\ obj'.kind = "queue"
  BY QueueStep DEF QueueOK
<1>2. obj.kind = "queue" /\ obj'.kind = obj.kind /\ obj.data_q \in Seq(Items)
  BY <1>1
<1>3. /\ Given = swap_data /\ Given' = swap_data'
      /\ Contents = obj.data_q /\ Contents' = obj'.data_q
  BY <1>2, ContentsFacts
<1>4. ASSUME NEW x \in Items, NEW k \in 0..Len(obj.data_q), QueueInsert(x, k) PROVE Exchanges
  <2>1. /\ \A j \in DOMAIN Contents : Contents[j] # x
        /\ \A t \in Threads : swap_data[t] # x
    BY <1>3, <1>4, OutsideItems DEF QueueInsert
  <2>2. CASE ServeFirst(x) /\ UNCHANGED obj
    <3>1. obj.data_q = <<>> /\ call' = call
      BY <1>4, <2>2, BaseFacts DEF ServeFirst, QueueOK, QueueInsert
    <3> QED BY <1>2, <1>3, <2>1, <2>2, <3>1, HandsOver DEF Exchanges
  <2>3. CASE /\ Waiters = <<>> /\ obj' = [obj EXCEPT !.data_q = InsertedAt(@, k, x)]
             /\ UNCHANGED <<schedVars, swap_data>>
    <3>1. obj'.data_q = InsertedAt(obj.data_q, k, x)
      BY <1>1, <2>3
    <3>2. Contents' = SubSeq(Contents, 1, k) \o <<x>> \o SubSeq(Contents, k + 1, Len(Contents))
      BY <1>3, <3>1 DEF InsertedAt
    <3>3. Promise!Insert(x, k)
      BY <1>2, <1>3, <2>1, <2>3, <3>2 DEF Promise!Insert, Promise!Fresh
    <3> QED BY <1>2, <1>3, <3>3 DEF Exchanges, Promise!Next
  <2> QED BY <1>4, <2>2, <2>3 DEF QueueInsert
<1>5. ASSUME NEW x \in Items, NEW y \in Items, QueueAppendList(x, y) PROVE Exchanges
  BY <1>5, QueueAppendListExchanges DEF Exchanges
<1>6. CASE QueueGet
  <2>1. Contents # <<>> /\ Contents' = Tail(Contents) /\ Given' = Given
    BY <1>1, <1>3, <1>6 DEF QueueGet
  <2> QED BY <1>2, <2>1, PromiseDelivers DEF Exchanges
<1>7. CASE QueueCancelWait
  <2>1. ServeFirst(NONE) /\ call' = call /\ obj' = obj /\ NONE \in Data
    BY <1>7 DEF QueueCancelWait, Data
  <2>2. \A u \in Threads : swap_data'[u] = IF u = First THEN NONE ELSE swap_data[u]
    BY <2>1, SameCalls, ServeFirstKeeps
  <2>3. swap_data[First] = NONE
    BY <2>1, BaseFacts DEF ServeFirst, ThreadOK
  <2>4. swap_data' = swap_data
    BY <1>1, <2>2, <2>3, DataFacts
  <2> QED BY <1>2, <1>3, <2>1, <2>4 DEF Exchanges
<1>8. ASSUME NEW t \in Threads, NEW timed \in BOOLEAN, QueueGetWait(t, timed) PROVE Exchanges
  <2>1. [op |-> "get", arg |-> NONE] \in Calls /\ Wait(t, "get", NONE, timed) /\ obj' = obj
    BY <1>8, CallTypes DEF QueueGetWait
  <2> QED BY <1>2, <2>1, WaitExchanges
<1> QED BY <1>4, <1>5, <1>6, <1>7, <1>8 DEF QueueNext

LEMMA StackExchanges ==
  ASSUME BaseInv, StackOK, StackNext
  PROVE  Exchanges
<1>1. BaseInv' /\ obj \in [kind : {"stack"}, entries : Seq(Items)] /\ obj'.kind = "stack"
  BY StackStep DEF StackOK
<1>2. obj.kind = "stack" /\ obj'.kind = obj.kind /\ obj.entries \in Seq(Items)
  BY <1>1
<1>3. /\ Given = swap_data /\ Given' = swap_data'
      /\ Contents = obj.entries /\ Contents' = obj'.entries
  BY <1>2, ContentsFacts
<1>4. ASSUME NEW x \in Items, StackPush(x) PROVE Exchanges
  <2>1. /\ \A j \in DOMAIN Contents : Contents[j] # x
        /\ \A t \in Threads : swap_data[t] # x
    BY <1>3, <1>4, OutsideItems DEF StackPush
  <2>2. CASE ServeFirst(x) /\ UNCHANGED obj
    <3>1. obj.entries = <<>> /\ call' = call
      BY <1>4, <2>2, BaseFacts DEF ServeFirst, StackOK, StackPush
    <3> QED BY <1>2, <1>3, <2>1, <2>2, <3>1, HandsOver DEF Exchanges
  <2>3. CASE /\ Waiters = <<>> /\ obj' = [obj EXCEPT !.entries = Append(@, x)]
             /\ UNCHANGED <<schedVars, swap_data>>
    <3>1. Contents' = Append(Contents, x)
      BY <1>1, <1>3, <2>3
    <3>2. swap_data' = swap_data /\ swap_data = [t \in Threads |-> swap_data[t]]
      BY <1>1, <2>3, DataFacts
    <3>3. Promise!Next
      BY <1>2, <1>3, <2>1, <3>1, <3>2, PromiseStores
    <3> QED BY <3>3 DEF Exchanges
  <2> QED BY <1>4, <2>2, <2>3 DEF StackPush
<1>5. CASE StackPop
  <2>1. Contents # <<>> /\ Contents' = SubSeq(Contents, 1, Len(Contents) - 1) /\ Given' = Given
    BY <1>1, <1>3, <1>5 DEF StackPop
  <2> QED BY <1>2, <2>1, PromiseDelivers DEF Exchanges
<1>6. ASSUME NEW t \in Threads, NEW timed \in BOOLEAN, StackPopWait(t, timed) PROVE Exchanges
  <2>1. [op |-> "pop", arg |-> NONE] \in Calls /\ Wait(t, "pop", NONE, timed) /\ obj' = obj
    BY <1>6, CallTypes DEF StackPopWait
  <2> QED BY <1>2, <2>1, WaitExchanges
<1> QED BY <1>4, <1>5, <1>6 DEF StackNext

\* The free list of a slab, read backwards: the block freed last comes last.
LEMMA BackwardsFacts ==
  ASSUME NEW T, NEW s \in Seq(T)
  PROVE  /\ Backwards(s) \in Seq(T) /\ Len(Backwards(s)) = Len(s)
         /\ \A k \in 1..Len(s) : \E j \in DOMAIN s : Backwards(s)[k] = s[j]
         /\ s = <<>> => Backwards(s) = <<>>
         /\ s # <<>> => /\ Backwards(s) # <<>>
                        /\ Backwards(Tail(s)) = SubSeq(Backwards(s), 1, Len(Backwards(s)) - 1)
         /\ \A x \in T : Backwards(<<x>> \o s) = Append(Backwards(s), x)
<1> DEFINE n == Len(s)
           b == Backwards(s)
<1>1. n \in Nat /\ DOMAIN s = 1..n /\ \A k \in 1..n : s[k] \in T
  OBVIOUS
<1>2. b = [k \in 1..n |-> s[n + 1 - k]]
  BY DEF Backwards
<1> HIDE DEF n, b
<1>3. \A k \in 1..n : n + 1 - k \in 1..n
  BY <1>1
<1>4. b \in [1..n -> T]
  BY <1>1, <1>2, <1>3
<1>5. b \in Seq(T) /\ Len(b) = n /\ DOMAIN b = 1..n
  BY <1>1, <1>4
<1>6. \A k \in 1..n : \E j \in DOMAIN s : b[k] = s[j]
  BY <1>1, <1>2, <1>3
<1>7. s = <<>> => b = <<>>
  <2> SUFFICES ASSUME s = <<>> PROVE b = <<>>
    OBVIOUS
  <2>1. n = 0
    BY DEF n
  <2> QED BY <1>5, <2>1
<1>8. ASSUME s # <<>> PROVE b # <<>> /\ Backwards(Tail(s)) = SubSeq(b, 1, Len(b) - 1)
  <2> DEFINE t == Tail(s)
             c == Backwards(t)
             e == SubSeq(b, 1, Len(b) - 1)
  <2>1. /\ t \in Seq(T) /\ Len(t) = n - 1 /\ n > 0
        /\ \A k \in 1..(n - 1) : t[k] = s[k + 1]
    BY <1>8 DEF n
  <2>2. c = [k \in 1..(n - 1) |-> t[n - 1 + 1 - k]]
    BY <2>1 DEF Backwards
  <2>3. b # <<>>
    BY <1>5, <2>1
  <2>4. /\ e \in Seq(T) /\ Len(e) = n - 1
        /\ \A i \in 1..(n - 1) : e[i] = b[i]
    BY <1>5, <2>3, FrontFacts
  <2> HIDE DEF t, c, e
  <2>5. ASSUME NEW k \in 1..(n - 1) PROVE c[k] = e[k]
    <3>1. n - 1 + 1 - k = n - k /\ n - k \in 1..(n - 1) /\ k \in 1..n /\ n - k + 1 = n + 1 - k
      BY <1>1
    <3>2. c[k] = t[n - k]
      BY <2>2, <3>1
    <3>3. t[n - k] = s[n + 1 - k]
      BY <2>1, <3>1
    <3>4. b[k] = s[n + 1 - k] /\ e[k] = b[k]
      BY <1>2, <2>4, <3>1
    <3> QED BY <3>2, <3>3, <3>4
  <2>6. e = [k \in 1..(n - 1) |-> e[k]] /\ c = [k \in 1..(n - 1) |-> c[k]]
    BY <2>2, <2>4
  <2>7. c = e
    BY <2>5, <2>6
  <2> QED BY <2>3, <2>7 DEF t, c, e
<1>9. ASSUME NEW x \in T PROVE Backwards(<<x>> \o s) = Append(b, x)
  <2> DEFINE t == <<x>> \o s
             c == Backwards(t)
             e == Append(b, x)
  <2>1. /\ t \in Seq(T) /\ Len(t) = n + 1
        /\ \A k \in 1..(n + 1) : t[k] = IF k = 1 THEN x ELSE s[k - 1]
    BY DEF n
  <2>2. c = [k \in 1..(n + 1) |-> t[n + 1 + 1 - k]]
    BY <2>1 DEF Backwards
  <2>3. /\ e \in Seq(T) /\ Len(e) = n + 1 /\ e[n + 1] = x
        /\ \A i \in 1..n : e[i] = b[i]
    BY <1>1, <1>5, AppendProperties
  <2> HIDE DEF t, c, e
  <2>4. ASSUME NEW k \in 1..(n + 1) PROVE c[k] = e[k]
    <3>1. c[k] = t[n + 1 + 1 - k]
      BY <2>2
    <3>2. CASE k = n + 1
      <4>1. n + 1 + 1 - k = 1 /\ 1 \in 1..(n + 1)
        BY <1>1, <3>2
      <4> QED BY <2>1, <2>3, <3>1, <3>2, <4>1
    <3>3. CASE k # n + 1
      <4> DEFINE j == n + 1 + 1 - k
      <4>1. j \in 1..(n + 1) /\ j # 1 /\ j - 1 = n + 1 - k /\ k \in 1..n
        BY <1>1, <3>3
      <4>2. c[k] = t[j]
        BY <3>1
      <4> HIDE DEF j
      <4>3. t[j] = s[n + 1 - k]
        BY <2>1, <4>1
      <4>4. e[k] = b[k] /\ b[k] = s[n + 1 - k]
        BY <1>2, <2>3, <4>1
      <4> QED BY <4>2, <4>3, <4>4
    <3> QED BY <3>2, <3>3
  <2>5. e = [k \in 1..(n + 1) |-> e[k]] /\ c = [k \in 1..(n + 1) |-> c[k]]
    BY <2>2, <2>3
  <2>6. c = e
    BY <2>4, <2>5
  <2> QED BY <2>6 DEF t, c, e
<1> QED BY <1>5, <1>6, <1>7, <1>8, <1>9 DEF n, b

LEMMA SlabExchanges ==
  ASSUME BaseInv, SlabOK, SlabNext
  PROVE  Exchanges
<1> DEFINE l == obj.free_list
<1>1. BaseInv' /\ obj \in [kind : {"slab"}, free_list : Seq(Items), num_used : Int] /\ obj'.kind = "slab"
  BY SlabStep DEF SlabOK
<1>2. obj.kind = "slab" /\ obj'.kind = obj.kind /\ l \in Seq(Items)
  BY <1>1
<1>3. /\ Given = swap_data /\ Given' = swap_data'
      /\ Contents = Backwards(l) /\ Contents' = Backwards(obj'.free_list)
  BY <1>2, ContentsFacts
<1>4. /\ Contents \in Seq(Items) /\ Len(Contents) = Len(l)
      /\ \A k \in 1..Len(l) : \E j \in DOMAIN l : Contents[k] = l[j]
      /\ l = <<>> => Contents = <<>>
      /\ l # <<>> => /\ Contents # <<>>
                     /\ Backwards(Tail(l)) = SubSeq(Contents, 1, Len(Contents) - 1)
      /\ \A x \in Items : Backwards(<<x>> \o l) = Append(Contents, x)
  <2> HIDE DEF l
  <2> QED BY <1>2, <1>3, BackwardsFacts
<1>5. ASSUME NEW x \in Items, SlabFree(x) PROVE Exchanges
  <2>1. /\ \A j \in DOMAIN l : l[j] # x
        /\ \A t \in Threads : swap_data[t] # x
    BY <1>5, OutsideItems DEF SlabFree
  <2>2. \A j \in DOMAIN Contents : Contents[j] # x
    <3>1. DOMAIN Contents = 1..Len(l)
      BY <1>4
    <3> QED BY <1>4, <2>1, <3>1
  <2>3. CASE obj.free_list = <<>> /\ ServeFirst(x) /\ UNCHANGED obj
    <3>1. Contents = <<>> /\ call' = call
      BY <1>4, <1>5, <2>3 DEF SlabFree
    <3> QED BY <1>2, <2>1, <2>3, <3>1, HandsOver DEF Exchanges
  <2>4. CASE /\ obj' = [obj EXCEPT !.free_list = <<x>> \o @, !.num_used = @ - 1]
             /\ UNCHANGED <<schedVars, swap_data>>
    <3>1. obj'.free_list = <<x>> \o l
      BY <1>1, <2>4
    <3>2. Contents' = Append(Contents, x)
      BY <1>3, <1>4, <3>1
    <3>3. swap_data' = swap_data /\ swap_data = [t \in Threads |-> swap_data[t]]
      BY <1>1, <2>4, DataFacts
    <3>4. Promise!Next
      BY <1>2, <1>3, <1>4, <2>1, <2>2, <3>2, <3>3, PromiseStores
    <3> QED BY <3>4 DEF Exchanges
  <2> QED BY <1>5, <2>3, <2>4 DEF SlabFree
<1>6. CASE SlabAlloc
  <2>1. l # <<>> /\ obj'.free_list = Tail(l) /\ Given' = Given
    BY <1>1, <1>3, <1>6 DEF SlabAlloc
  <2>2. Contents # <<>> /\ Contents' = SubSeq(Contents, 1, Len(Contents) - 1)
    BY <1>3, <1>4, <2>1
  <2> QED BY <1>2, <2>1, <2>2, PromiseDelivers DEF Exchanges
<1>7. ASSUME NEW t \in Threads, NEW timed \in BOOLEAN, SlabAllocWait(t, timed) PROVE Exchanges
  <2>1. [op |-> "alloc", arg |-> NONE] \in Calls /\ Wait(t, "alloc", NONE, timed) /\ obj' = obj
    BY <1>7, CallTypes DEF SlabAllocWait
  <2> QED BY <1>2, <2>1, WaitExchanges
<1> QED BY <1>5, <1>6, <1>7 DEF SlabNext

\* The objects that pass on no items.
LEMMA OthersExchange ==
  ASSUME obj.kind \in {"heap", "event", "timer", "sys_sem"}, obj'.kind = obj.kind
  PROVE  Exchanges
<1>1. Contents' = Contents /\ Given' = Given
  BY ContentsMap DEF ContentsAt, GivenAt
<1> QED BY <1>1 DEF Exchanges

\* A call returns: what it was given is its caller's.
LEMMA ReturnExchanges ==
  ASSUME BaseInv, NEW t \in Threads, Return(t),
         obj.kind \in {"msgq", "queue", "stack", "slab", "event"}
  PROVE  Exchanges
<1>1. obj' = obj /\ swap_data' = [swap_data EXCEPT ![t] = NONE]
  BY DEF Return, Resumes
<1>2. CASE obj.kind = "event"
  BY <1>1, <1>2, OthersExchange
<1>3. CASE obj.kind # "event"
  <2>1. Given = swap_data /\ Given' = swap_data' /\ Contents' = Contents
    BY <1>1, <1>3, ContentsFacts, ContentsMap
  <2>2. Promise!Collect(t)
    BY <1>1, <2>1 DEF Promise!Collect
  <2> QED BY <1>1, <2>2 DEF Exchanges, Promise!Next
<1> QED BY <1>2, <1>3

LEMMA NextExchanges ==
  ASSUME IInv, [Next]_vars
  PROVE  Exchanges
<1>1. /\ BaseInv
      /\ obj.kind \in {"msgq", "queue", "stack", "slab", "heap", "event", "timer", "sys_sem"}
      /\ obj.kind = "msgq" => MsgqOK
      /\ obj.kind = "queue" => QueueOK
      /\ obj.kind = "stack" => StackOK
      /\ obj.kind = "slab" => SlabOK
      /\ obj.kind = "heap" => HeapOK
      /\ obj.kind = "event" => EventOK
      /\ obj.kind = "timer" => TimerOK
      /\ obj.kind = "sys_sem" => SysSemOK
  BY Kinds DEF IInv
<1>2. CASE MsgqNext
  BY <1>1, <1>2, MsgqExchanges DEF MsgqNext
<1>3. CASE QueueNext
  BY <1>1, <1>3, QueueExchanges DEF QueueNext
<1>4. CASE StackNext
  BY <1>1, <1>4, StackExchanges DEF StackNext
<1>5. CASE SlabNext
  BY <1>1, <1>5, SlabExchanges DEF SlabNext
<1>6. CASE HeapNext
  <2>1. obj.kind = "heap" /\ HeapOK'
    BY <1>1, <1>6, HeapStep DEF HeapNext
  <2>2. obj'.kind = "heap"
    BY <2>1 DEF HeapOK
  <2> QED BY <2>1, <2>2, OthersExchange
<1>7. CASE EventNext
  <2>1. obj.kind = "event" /\ EventOK'
    BY <1>1, <1>7, EventStep DEF EventNext
  <2>2. obj'.kind = "event"
    BY <2>1 DEF EventOK
  <2> QED BY <2>1, <2>2, OthersExchange
<1>8. CASE TimerNext
  <2>1. obj.kind = "timer" /\ TimerOK'
    BY <1>1, <1>8, TimerStep DEF TimerNext
  <2>2. obj'.kind = "timer"
    BY <2>1 DEF TimerOK, TimerObj
  <2> QED BY <2>1, <2>2, OthersExchange
<1>9. CASE SysSemNext
  <2>1. obj.kind = "sys_sem" /\ SysSemOK'
    BY <1>1, <1>9, SysSemStep DEF SysSemNext
  <2>2. obj'.kind = "sys_sem"
    BY <2>1 DEF SysSemOK
  <2> QED BY <2>1, <2>2, OthersExchange
<1>10. CASE \E t \in Threads : Return(t)
  BY <1>1, <1>10, ReturnExchanges DEF Return
<1>11. CASE UNCHANGED <<obj, swap_data>>
  <2>1. obj'.kind = obj.kind /\ Contents' = Contents /\ Given' = Given
    BY <1>11, ContentsMap
  <2> QED BY <2>1 DEF Exchanges
<1>12. CASE (\E t \in Threads : Expire(t)) \/ Callback \/ UNCHANGED vars
  BY <1>11, <1>12 DEF Expire, Callback, vars, objVars
<1> QED BY <1>2, <1>3, <1>4, <1>5, <1>6, <1>7, <1>8, <1>9, <1>10, <1>12 DEF Next

\* Message queues, queues, stacks and memory slabs implement Exchange: no item
\* is lost, delivered twice or out of turn, whether it goes through the object
\* or from hand to hand.
THEOREM ItemsAreExchanged == Spec => ImplementsExchange
<1>1. IInv /\ [Next]_vars => [Promise!Next]_<<obj.kind, Contents, Given>>
  BY NextExchanges DEF Exchanges
<1> QED BY <1>1, IpcInductive, PTL DEF Spec, ImplementsExchange, Promise!Spec
=============================================================================
