---------------------------- MODULE WorkQProofs ----------------------------
(***************************************************************************)
(* Proofs about WorkQ and WorkQSync, for any queues, items and clients,    *)
(* any subset of the API and any values of timeout_gap: IInv is inductive, *)
(* so the properties of items hold, and WorkQ implements WorkPromise;      *)
(* waiting clients are recorded where their wakeup comes from, delayed     *)
(* items have a timeout, items are taken in order, and flushes and         *)
(* cancellations return only after what they had to wait for.              *)
(***************************************************************************)
EXTENDS WorkQSync, ListFacts, TLAPS

\* The parts of IInv that the steps on items can disturb.
Core ==
  /\ flags \in [Items -> SUBSET WorkFlags]
  /\ wqueue \in [Works -> Callers]
  /\ qflags \in [Queues -> SUBSET QueueFlags]
  /\ pending \in [Queues -> Seq(Items)]
  /\ running \in [Queues -> Items \cup {NULL}]
  /\ wpc \in [Queues -> {"off", "loop", "wait", "handler", "flushed"}]
  /\ QueuedIffPending
  /\ NoReentrancy
  /\ CancelingIsRunning
  /\ WorkerState
  /\ PlainNotDelayed
  /\ QueuedHasQueue

\* The variables outside Core have their types.
RestType ==
  /\ dqueue \in [DelayWorks -> Callers]
  /\ linked \in [DelayWorks -> BOOLEAN]
  /\ firing \in DelayWorks \cup {NULL}
  /\ drainq \in [Queues -> SUBSET Clients]
  /\ pending_cancels \subseteq Clients \X Works
  /\ sem \in [Clients -> {0, 1}]
  /\ cpc \in [Clients -> {"idle", "flush", "cancel", "drain"}]

\* The two parts of the invariant.
LEMMA IInvParts ==
  /\ IInv <=> Core /\ RestType
  /\ IInv' <=> Core' /\ RestType'
  BY DEF IInv, Core, RestType, TypeOK

\* What a step that changes neither lists nor threads may do to the flags
\* of an item: set or clear DELAYED on a delayable one.
LEMMA DelayedOnly ==
  ASSUME Core, NEW w \in DelayWorks,
         NEW f \in SUBSET WorkFlags, f \ {"DELAYED"} = flags[w] \ {"DELAYED"},
         flags' = [flags EXCEPT ![w] = f],
         UNCHANGED <<wqueue, qflags, pending, running, wpc>>
  PROVE  Core'
<1> USE DEF Works, Items
<1>1. \A v \in Works, x \in {"QUEUED", "RUNNING", "CANCELING"} : x \in flags'[v] <=> x \in flags[v]
  BY DEF Core
<1>2. flags' \in [Items -> SUBSET WorkFlags]
  BY DEF Core
<1>3. QueuedIffPending' /\ NoReentrancy' /\ CancelingIsRunning' /\ QueuedHasQueue'
  BY <1>1 DEF Core, QueuedIffPending, NoReentrancy, CancelingIsRunning, QueuedHasQueue, Once, IsIn
<1>4. PlainNotDelayed'
  BY WorkQAssumption DEF Core, PlainNotDelayed
<1>5. WorkerState'
  BY DEF Core, WorkerState
<1> QED BY <1>2, <1>3, <1>4, <1>5 DEF Core

\* Putting an item that is not queued on the list s of a started queue, the
\* queue that runs it if it is running, preserves Core.
LEMMA Queueing ==
  ASSUME Core, NEW w \in Works, NEW to \in Queues, NEW s \in Seq(Items),
         NEW f \in SUBSET WorkFlags,
         f = flags[w] \/ f = flags[w] \ {"DELAYED"},
         "STARTED" \in qflags[to],
         "QUEUED" \notin flags[w] /\ "CANCELING" \notin flags[w],
         "RUNNING" \in flags[w] => to = wqueue[w],
         \A y \in Works : /\ IsIn(s, y) <=> IsIn(pending[to], y) \/ y = w
                          /\ Once(s, y),
         flags' \in [Items -> SUBSET WorkFlags],
         \A v \in Works : flags'[v] = IF v = w THEN f \cup {"QUEUED"} ELSE flags[v],
         wqueue' = [wqueue EXCEPT ![w] = to],
         pending' = [pending EXCEPT ![to] = s],
         wpc' = Notified(to),
         UNCHANGED <<qflags, running>>
  PROVE  Core'
<1> USE DEF Works, Items
<1>1. /\ wqueue' \in [Works -> Callers]
      /\ pending' \in [Queues -> Seq(Items)]
      /\ wpc' \in [Queues -> {"off", "loop", "wait", "handler", "flushed"}]
  BY DEF Core, Callers, Notified
<1>2. QueuedIffPending'
  <2> SUFFICES ASSUME NEW r \in Queues, NEW v \in Works
               PROVE  /\ IsIn(pending'[r], v) <=> ("QUEUED" \in flags'[v] /\ wqueue'[v] = r)
                      /\ Once(pending'[r], v)
    BY DEF QueuedIffPending
  <2>1. /\ IsIn(pending[r], v) <=> ("QUEUED" \in flags[v] /\ wqueue[v] = r)
        /\ Once(pending[r], v)
        /\ ~IsIn(pending[r], w)
    BY DEF Core, QueuedIffPending
  <2>2. CASE r = to
    <3>1. pending'[r] = s
      BY <2>2 DEF Core
    <3> QED BY <3>1, <2>1, <2>2 DEF Core
  <2>3. CASE r # to
    <3>1. pending'[r] = pending[r]
      BY <2>3 DEF Core
    <3> QED BY <3>1, <2>1, <2>3 DEF Core
  <2> QED BY <2>2, <2>3
<1>3. \A v \in Works : /\ "RUNNING" \in flags'[v] <=> "RUNNING" \in flags[v]
                       /\ "CANCELING" \in flags'[v] <=> "CANCELING" \in flags[v]
                       /\ "DELAYED" \in flags'[v] => "DELAYED" \in flags[v]
                       /\ "QUEUED" \in flags'[v] <=> "QUEUED" \in flags[v] \/ v = w
  OBVIOUS
<1>4. NoReentrancy'
  BY <1>3 DEF Core, NoReentrancy
<1>5. CancelingIsRunning'
  BY <1>3 DEF Core, CancelingIsRunning
<1>6. WorkerState'
  BY DEF Core, WorkerState, Notified
<1>7. PlainNotDelayed' /\ QueuedHasQueue'
  BY <1>3, WorkQAssumption DEF Core, PlainNotDelayed, QueuedHasQueue
<1> QED BY <1>1, <1>2, <1>4, <1>5, <1>6, <1>7 DEF Core

\* The queue an accepted submission goes to.
LEMMA SubmitTarget ==
  ASSUME Core, NEW w \in Works, NEW q \in Callers, NEW caller \in Callers,
         Submittable(w, q, caller)
  PROVE  /\ SubmitQueue(w, q) \in Queues
         /\ "STARTED" \in qflags[SubmitQueue(w, q)]
         /\ "QUEUED" \notin flags[w] /\ "CANCELING" \notin flags[w]
         /\ "RUNNING" \in flags[w] => SubmitQueue(w, q) = wqueue[w]
         /\ ~IsIn(pending[SubmitQueue(w, q)], w)
<1>1. "QUEUED" \notin flags[w] /\ "CANCELING" \notin flags[w]
  BY DEF Submittable
<1>2. SubmitQueue(w, q) \in Queues /\ "STARTED" \in qflags[SubmitQueue(w, q)]
  BY DEF Submittable, Accepts, SubmitQueue, Core, Callers
<1>3. "RUNNING" \in flags[w] => SubmitQueue(w, q) = wqueue[w]
  BY DEF SubmitQueue
<1> QED BY <1>1, <1>2, <1>3 DEF Core, QueuedIffPending

\* submit_to_queue_locked() preserves Core, whatever queue and caller.
LEMMA Submitting ==
  ASSUME Core, NEW w \in Works, NEW q \in Callers, NEW caller \in Callers,
         NEW f \in SUBSET WorkFlags,
         f = flags[w] \/ f = flags[w] \ {"DELAYED"},
         SubmitLocked(w, q, caller, f),
         UNCHANGED <<qflags, running>>
  PROVE  Core'
<1> DEFINE to == SubmitQueue(w, q)
<1>1. CASE Submittable(w, q, caller)
  <2>1. /\ flags' = [flags EXCEPT ![w] = f \cup {"QUEUED"}]
        /\ wqueue' = [wqueue EXCEPT ![w] = to]
        /\ pending' = [pending EXCEPT ![to] = Append(pending[to], w)]
        /\ wpc' = Notified(to)
    BY <1>1, SubmitTarget DEF SubmitLocked, Enqueued, Core
  <2>2. /\ to \in Queues /\ "STARTED" \in qflags[to]
        /\ "QUEUED" \notin flags[w] /\ "CANCELING" \notin flags[w]
        /\ "RUNNING" \in flags[w] => to = wqueue[w]
        /\ ~IsIn(pending[to], w)
    BY <1>1, SubmitTarget
  <2> HIDE DEF to
  <2>3. /\ Append(pending[to], w) \in Seq(Items)
        /\ \A y : IsIn(Append(pending[to], w), y) <=> IsIn(pending[to], y) \/ y = w
        /\ \A y : Once(pending[to], y) /\ (y # w \/ ~IsIn(pending[to], y))
                    => Once(Append(pending[to], w), y)
    <3>1. w \in Items /\ pending[to] \in Seq(Items)
      BY <2>2 DEF Core, Items
    <3> QED BY <3>1, AppendFacts
  <2>4. \A y \in Works : Once(Append(pending[to], w), y)
    BY <2>2, <2>3 DEF Core, QueuedIffPending
  <2>5. /\ flags' \in [Items -> SUBSET WorkFlags]
        /\ \A v \in Works : flags'[v] = IF v = w THEN f \cup {"QUEUED"} ELSE flags[v]
    BY <2>1 DEF Core, WorkFlags, Items
  <2> QED BY <2>1, <2>2, <2>3, <2>4, <2>5, Queueing
<1>2. CASE ~Submittable(w, q, caller)
  <2>1. flags' = [flags EXCEPT ![w] = f] /\ UNCHANGED <<wqueue, pending, wpc>>
    BY <1>2 DEF SubmitLocked
  <2>2. \A v \in Works, x \in {"QUEUED", "RUNNING", "CANCELING"} : x \in flags'[v] <=> x \in flags[v]
    BY <2>1 DEF Core, Items
  <2>3. QueuedIffPending' /\ NoReentrancy' /\ CancelingIsRunning' /\ QueuedHasQueue'
    BY <2>1, <2>2 DEF Core, QueuedIffPending, NoReentrancy, CancelingIsRunning, QueuedHasQueue, Once, IsIn
  <2>4. PlainNotDelayed' /\ WorkerState'
    BY <2>1 DEF Core, PlainNotDelayed, WorkerState, Works, Items
  <2>5. flags' \in [Items -> SUBSET WorkFlags]
    BY <2>1 DEF Core, Items
  <2> QED BY <2>1, <2>3, <2>4, <2>5 DEF Core
<1> QED BY <1>1, <1>2

\* cancel_async_locked() preserves Core; f is the item's flags once it has
\* been unscheduled.
LEMMA Cancelling ==
  ASSUME Core, NEW w \in Works, NEW f \in SUBSET WorkFlags,
         f = flags[w] \ {"DELAYED"},
         CancelAsyncLocked(w, f),
         UNCHANGED <<wqueue, qflags, running, wpc>>
  PROVE  Core'
<1> USE DEF Works, Items
<1>1. /\ flags' = [flags EXCEPT ![w] = CancelledFlags(f)]
      /\ CancelledFlags(f) \in SUBSET WorkFlags
      /\ "RUNNING" \in CancelledFlags(f) <=> "RUNNING" \in flags[w]
      /\ "DELAYED" \notin CancelledFlags(f)
  BY DEF CancelAsyncLocked, CancelledFlags, WorkFlags
<1>2. "QUEUED" \notin CancelledFlags(f)
  BY DEF CancelledFlags, Core, CancelingIsRunning
<1>3. "CANCELING" \in CancelledFlags(f) => "RUNNING" \in flags[w]
  BY DEF CancelledFlags, Core, CancelingIsRunning, WorkFlags
<1>4. flags' \in [Items -> SUBSET WorkFlags]
  BY <1>1 DEF Core
<1>5. NoReentrancy' /\ CancelingIsRunning'
  BY <1>1, <1>2, <1>3 DEF Core, NoReentrancy, CancelingIsRunning
<1>6. PlainNotDelayed' /\ QueuedHasQueue'
  BY <1>1, <1>2 DEF Core, PlainNotDelayed, QueuedHasQueue
<1>7. CASE "QUEUED" \in f
  <2> DEFINE q == wqueue[w]
  <2>1. "CANCELING" \notin f
    BY <1>7 DEF Core, CancelingIsRunning
  <2>2. "QUEUED" \in flags[w]
    BY <1>7
  <2>3. q \in Queues
    BY <2>2 DEF Core, QueuedHasQueue, Callers
  <2>4. IsIn(pending[q], w) /\ Once(pending[q], w)
    BY <2>2, <2>3 DEF Core, QueuedIffPending
  <2>5. pending' = [pending EXCEPT ![q] = RemoveItem(pending[q], w)]
    BY <1>7, <2>1, <2>3 DEF CancelAsyncLocked, Core
  <2>6. /\ RemoveItem(pending[q], w) \in Seq(Items)
        /\ ~IsIn(RemoveItem(pending[q], w), w)
        /\ \A y \in Works : y # w => (IsIn(RemoveItem(pending[q], w), y) <=> IsIn(pending[q], y))
        /\ \A y \in Works : Once(pending[q], y) => Once(RemoveItem(pending[q], w), y)
    BY <2>3, <2>4, RemoveFacts DEF Core
  <2>7. pending' \in [Queues -> Seq(Items)]
    BY <2>3, <2>5, <2>6 DEF Core
  <2>8. QueuedIffPending'
    <3> SUFFICES ASSUME NEW r \in Queues, NEW v \in Works
                 PROVE  /\ IsIn(pending'[r], v) <=> ("QUEUED" \in flags'[v] /\ wqueue'[v] = r)
                        /\ Once(pending'[r], v)
      BY DEF QueuedIffPending
    <3>1. /\ IsIn(pending[r], v) <=> ("QUEUED" \in flags[v] /\ wqueue[v] = r)
          /\ Once(pending[r], v)
      BY DEF Core, QueuedIffPending
    <3>2. CASE r = q
      <4>1. pending'[r] = RemoveItem(pending[q], w)
        BY <3>2, <2>3, <2>5 DEF Core
      <4> QED BY <4>1, <3>1, <3>2, <2>6, <1>1, <1>2 DEF Core
    <3>3. CASE r # q
      <4>1. pending'[r] = pending[r]
        BY <3>3, <2>3, <2>5 DEF Core
      <4> QED BY <4>1, <3>1, <3>3, <1>1, <1>2 DEF Core
    <3> QED BY <3>2, <3>3
  <2>9. WorkerState'
    <3>1. \A r \in Queues : wpc[r] = "off" => r # q
      BY <2>4 DEF Core, WorkerState, IsIn
    <3> QED BY <3>1, <2>5, <2>3 DEF Core, WorkerState
  <2> QED BY <1>4, <1>5, <1>6, <2>7, <2>8, <2>9 DEF Core
<1>8. CASE "QUEUED" \notin f
  <2>1. pending' = pending /\ "QUEUED" \notin flags[w]
    BY <1>8 DEF CancelAsyncLocked
  <2>2. QueuedIffPending'
    BY <1>1, <1>2, <2>1 DEF Core, QueuedIffPending
  <2> QED BY <1>4, <1>5, <1>6, <2>1, <2>2 DEF Core, WorkerState
<1> QED BY <1>7, <1>8

\* A flusher on a list does not disturb its items.
LEMMA FlusherFacts ==
  ASSUME NEW s \in Seq(Items), NEW w \in Works, NEW c \in Clients
  PROVE  /\ FlusherQueued(s, w, c) \in Seq(Items)
         /\ \A y \in Works : /\ IsIn(FlusherQueued(s, w, c), y) <=> IsIn(s, y)
                             /\ Once(s, y) => Once(FlusherQueued(s, w, c), y)
<1>1. c \in Items /\ \A y \in Works : y # c
  BY WorkQAssumption DEF Items
<1>2. CASE IsIn(s, w)
  BY <1>1, <1>2, InsertFacts DEF FlusherQueued
<1>3. CASE ~IsIn(s, w)
  BY <1>1, <1>3, PrependFacts DEF FlusherQueued
<1> QED BY <1>2, <1>3

\* An item that is queued or running is on a started queue.
LEMMA BusyQueue ==
  ASSUME Core, NEW w \in Works, flags[w] \cap {"QUEUED", "RUNNING"} # {}
  PROVE  wqueue[w] \in Queues /\ "STARTED" \in qflags[wqueue[w]]
<1>1. CASE "QUEUED" \in flags[w]
  <2>1. wqueue[w] \in Queues
    BY <1>1 DEF Core, QueuedHasQueue, Callers
  <2>2. IsIn(pending[wqueue[w]], w)
    BY <1>1, <2>1 DEF Core, QueuedIffPending
  <2>3. pending[wqueue[w]] # <<>>
    BY <2>2 DEF IsIn
  <2> QED BY <2>1, <2>3 DEF Core, WorkerState
<1>2. CASE "RUNNING" \in flags[w]
  <2>1. PICK q \in Queues : running[q] = w
    BY <1>2 DEF Core, NoReentrancy
  <2>2. wqueue[w] = q /\ w # NULL
    BY <2>1, WorkQAssumption DEF Core, NoReentrancy, Works, Items
  <2> QED BY <2>1, <2>2 DEF Core, WorkerState
<1> QED BY <1>1, <1>2

\* Queueing a flusher on the queue of a busy item preserves Core.
LEMMA Flushing ==
  ASSUME Core, NEW w \in Works, NEW c \in Clients, NEW q \in Queues, "STARTED" \in qflags[q],
         flags' \in [Items -> SUBSET WorkFlags],
         \A v \in Works : flags'[v] = IF v = w THEN flags[w] \ {"DELAYED"} ELSE flags[v],
         pending' = [pending EXCEPT ![q] = FlusherQueued(pending[q], w, c)],
         wpc' = Notified(q),
         UNCHANGED <<wqueue, qflags, running>>
  PROVE  Core'
<1> USE DEF Works, Items
<1>1. /\ FlusherQueued(pending[q], w, c) \in Seq(Items)
      /\ \A y \in Works : /\ IsIn(FlusherQueued(pending[q], w, c), y) <=> IsIn(pending[q], y)
                          /\ Once(pending[q], y) => Once(FlusherQueued(pending[q], w, c), y)
  BY FlusherFacts DEF Core
<1>2. /\ pending' \in [Queues -> Seq(Items)]
      /\ wpc' \in [Queues -> {"off", "loop", "wait", "handler", "flushed"}]
  BY <1>1 DEF Core, Notified
<1>3. \A v \in Works, x \in {"QUEUED", "RUNNING", "CANCELING"} : x \in flags'[v] <=> x \in flags[v]
  OBVIOUS
<1>4. QueuedIffPending'
  <2> SUFFICES ASSUME NEW r \in Queues, NEW v \in Works
               PROVE  /\ IsIn(pending'[r], v) <=> IsIn(pending[r], v)
                      /\ Once(pending[r], v) => Once(pending'[r], v)
    BY <1>3 DEF Core, QueuedIffPending
  <2>1. pending'[r] = IF r = q THEN FlusherQueued(pending[q], w, c) ELSE pending[r]
    BY DEF Core
  <2> QED BY <2>1, <1>1
<1>5. NoReentrancy' /\ CancelingIsRunning' /\ QueuedHasQueue'
  BY <1>3 DEF Core, NoReentrancy, CancelingIsRunning, QueuedHasQueue
<1>6. PlainNotDelayed'
  BY DEF Core, PlainNotDelayed
<1>7. WorkerState'
  BY DEF Core, WorkerState, Notified
<1> QED BY <1>2, <1>4, <1>5, <1>6, <1>7 DEF Core

(***************************************************************************)
(* The steps                                                               *)
(***************************************************************************)
LEMMA QueueStartStep == ASSUME IInv, NEW q \in Queues, QueueStart(q) PROVE IInv'
<1> USE DEF QueueStart, workVars, timerVars, clientVars
<1>1. Core /\ RestType
  BY IInvParts
<1>2. wpc[q] = "off" /\ pending[q] = <<>> /\ running[q] = NULL
  BY <1>1 DEF Core, WorkerState
<1>3. pending' = pending
  BY <1>1, <1>2 DEF Core
<1>4. QueuedIffPending' /\ NoReentrancy' /\ CancelingIsRunning' /\ PlainNotDelayed' /\ QueuedHasQueue'
  BY <1>1, <1>3 DEF Core, QueuedIffPending, NoReentrancy, CancelingIsRunning, PlainNotDelayed,
                    QueuedHasQueue
<1>5. WorkerState'
  BY <1>1, <1>2, <1>3 DEF Core, WorkerState
<1>6. Core'
  BY <1>1, <1>3, <1>4, <1>5 DEF Core, QueueFlags
<1>7. RestType'
  BY <1>1 DEF RestType
<1> QED BY <1>6, <1>7, IInvParts

\* k_work_submit_to_queue()
LEMMA SubmitStep ==
  ASSUME IInv, NEW caller \in Callers, NEW q \in Callers, NEW w \in PlainWorks,
         Submit(caller, q, w)
  PROVE  IInv'
<1>1. Core /\ RestType
  BY IInvParts
<1>2. w \in Works /\ flags[w] \in SUBSET WorkFlags
  BY <1>1 DEF Core, Works, Items
<1>3. Core'
  BY <1>1, <1>2, Submitting DEF Submit
<1>4. RestType'
  BY <1>1 DEF Submit, RestType, timerVars, clientVars
<1> QED BY <1>3, <1>4, IInvParts

\* k_work_flush()
LEMMA FlushStep ==
  ASSUME IInv, NEW c \in Clients, NEW w \in PlainWorks, Flush(c, w)
  PROVE  IInv'
<1> USE DEF Flush, timerVars
<1>1. Core /\ RestType
  BY IInvParts
<1>2. w \in Works /\ w \in Items /\ c \in Items /\ \A v \in Works : v # c /\ v \in Items
  BY WorkQAssumption DEF Works, Items
<1>3. wqueue[w] \in Queues /\ "STARTED" \in qflags[wqueue[w]]
  BY <1>1, <1>2, BusyQueue
<1>4. /\ flags' \in [Items -> SUBSET WorkFlags]
      /\ \A v \in Works : flags'[v] = flags[v]
  BY <1>1, <1>2 DEF Core
<1>5. flags[w] = flags[w] \ {"DELAYED"}
  BY <1>1 DEF Core, PlainNotDelayed
<1>6. pending' = [pending EXCEPT ![wqueue[w]] = FlusherQueued(pending[wqueue[w]], w, c)]
  BY <1>1, <1>3 DEF Core
<1>7. Core'
  BY <1>1, <1>2, <1>3, <1>4, <1>5, <1>6, Flushing
<1>8. RestType'
  BY <1>1 DEF RestType
<1> QED BY <1>7, <1>8, IInvParts

\* k_work_cancel()
LEMMA CancelStep == ASSUME IInv, NEW w \in PlainWorks, Cancel(w) PROVE IInv'
<1>1. Core /\ RestType
  BY IInvParts
<1>2. w \in Works /\ flags[w] \in SUBSET WorkFlags /\ flags[w] = flags[w] \ {"DELAYED"}
  BY <1>1 DEF Core, Works, Items, PlainNotDelayed
<1>3. Core'
  BY <1>1, <1>2, Cancelling DEF Cancel
<1>4. RestType'
  BY <1>1 DEF Cancel, RestType, timerVars, clientVars
<1> QED BY <1>3, <1>4, IInvParts

\* k_work_cancel_sync()
LEMMA CancelSyncStep ==
  ASSUME IInv, NEW c \in Clients, NEW w \in PlainWorks, CancelSync(c, w)
  PROVE  IInv'
<1>1. Core /\ RestType
  BY IInvParts
<1>2. w \in Works /\ flags[w] \in SUBSET WorkFlags /\ flags[w] = flags[w] \ {"DELAYED"}
  BY <1>1 DEF Core, Works, Items, PlainNotDelayed
<1>3. Core'
  BY <1>1, <1>2, Cancelling DEF CancelSync
<1>4. RestType'
  BY <1>1, <1>2 DEF CancelSync, CancelSyncLocked, RestType, timerVars, clientVars
<1> QED BY <1>3, <1>4, IInvParts

\* The return of a client from its wait.
LEMMA ClientStep ==
  ASSUME IInv,
         \/ \E c \in Clients : SyncReturn(c)
         \/ \E q \in Queues : Unplug(q)
         \/ \E w \in DelayWorks : TimeoutExpires(w)
  PROVE  IInv'
<1>1. Core /\ RestType
  BY IInvParts
<1>2. /\ UNCHANGED <<flags, wqueue, pending, running, wpc>>
      /\ qflags' \in [Queues -> SUBSET QueueFlags]
      /\ \A q \in Queues : "STARTED" \in qflags'[q] <=> "STARTED" \in qflags[q]
  <2>1. CASE \E c \in Clients : SyncReturn(c)
    BY <1>1, <2>1 DEF SyncReturn, workVars, queueVars, Core
  <2>2. CASE \E q \in Queues : Unplug(q)
    BY <1>1, <2>2 DEF Unplug, workVars, Core
  <2>3. CASE \E w \in DelayWorks : TimeoutExpires(w)
    BY <1>1, <2>3 DEF TimeoutExpires, workVars, queueVars, Core
  <2> QED BY <2>1, <2>2, <2>3
<1>3. Core'
  <2>1. WorkerState'
    BY <1>1, <1>2 DEF Core, WorkerState
  <2>2. /\ QueuedIffPending' /\ NoReentrancy' /\ CancelingIsRunning' /\ PlainNotDelayed'
        /\ QueuedHasQueue'
    BY <1>1, <1>2 DEF Core, QueuedIffPending, NoReentrancy, CancelingIsRunning,
                      PlainNotDelayed, QueuedHasQueue
  <2> QED BY <1>1, <1>2, <2>1, <2>2 DEF Core
<1>4. RestType'
  BY <1>1 DEF SyncReturn, Unplug, TimeoutExpires, RestType, workVars, queueVars, clientVars, timerVars
<1> QED BY <1>3, <1>4, IInvParts

\* k_work_queue_drain()
LEMMA DrainStep ==
  ASSUME IInv, NEW c \in Clients, NEW q \in Queues, NEW plug \in BOOLEAN, Drain(c, q, plug)
  PROVE  IInv'
<1> USE DEF Drain, workVars, timerVars
<1>1. Core /\ RestType
  BY IInvParts
<1>2. /\ UNCHANGED <<flags, wqueue, pending, running>>
      /\ qflags' \in [Queues -> SUBSET QueueFlags]
      /\ \A r \in Queues : "STARTED" \in qflags'[r] <=> "STARTED" \in qflags[r]
      /\ wpc' = Notified(q)
  BY <1>1 DEF Core, QueueFlags
<1>3. WorkerState' /\ wpc' \in [Queues -> {"off", "loop", "wait", "handler", "flushed"}]
  BY <1>1, <1>2 DEF Core, WorkerState, Notified
<1>4. Core'
  BY <1>1, <1>2, <1>3 DEF Core, QueuedIffPending, NoReentrancy, CancelingIsRunning,
                          PlainNotDelayed, QueuedHasQueue
<1>5. RestType'
  BY <1>1 DEF RestType
<1> QED BY <1>4, <1>5, IInvParts

\* The queue thread takes the first item of its list.
LEMMA WorkerTakeStep == ASSUME IInv, NEW q \in Queues, WorkerTake(q) PROVE IInv'
<1> DEFINE i == Head(pending[q])
<1>1. Core /\ RestType
  BY IInvParts
<1>2. wpc[q] = "loop" /\ pending[q] # <<>> /\ pending[q] \in Seq(Items) /\ running[q] = NULL
  BY <1>1 DEF WorkerTake, Core, WorkerState
<1>3. /\ i \in Items /\ Tail(pending[q]) \in Seq(Items) /\ IsIn(pending[q], i)
      /\ \A y : Once(pending[q], y) => Once(Tail(pending[q]), y)
      /\ \A y : Once(pending[q], y) => (IsIn(Tail(pending[q]), y) <=> IsIn(pending[q], y) /\ y # i)
  BY <1>2, TailFacts
<1>4. /\ flags' = [flags EXCEPT ![i] = (flags[i] \cup {"RUNNING"}) \ {"QUEUED"}]
      /\ running' = [running EXCEPT ![q] = i]
      /\ pending' = [pending EXCEPT ![q] = Tail(pending[q])]
      /\ qflags' = [qflags EXCEPT ![q] = qflags[q] \cup {"BUSY"}]
      /\ wpc' = [wpc EXCEPT ![q] = "handler"]
      /\ UNCHANGED <<wqueue, dqueue, linked, firing, drainq, pending_cancels, sem, cpc>>
  BY <1>1, <1>3 DEF WorkerTake, Core, timerVars, clientVars
<1> HIDE DEF i
<1>5. i \in Works => "QUEUED" \in flags[i] /\ wqueue[i] = q /\ "CANCELING" \notin flags[i]
  BY <1>1, <1>3 DEF Core, QueuedIffPending, CancelingIsRunning
<1>6. i \in Works => \A r \in Queues : running[r] # i
  BY <1>1, <1>2, <1>5, WorkQAssumption DEF Core, NoReentrancy, Works, Items
<1>7. /\ flags' \in [Items -> SUBSET WorkFlags]
      /\ qflags' \in [Queues -> SUBSET QueueFlags]
      /\ pending' \in [Queues -> Seq(Items)]
      /\ running' \in [Queues -> Items \cup {NULL}]
      /\ wpc' \in [Queues -> {"off", "loop", "wait", "handler", "flushed"}]
  BY <1>1, <1>3, <1>4 DEF Core, WorkFlags, QueueFlags
<1>8. /\ \A v \in Works : v # i => flags'[v] = flags[v]
      /\ flags'[i] = (flags[i] \cup {"RUNNING"}) \ {"QUEUED"}
  BY <1>1, <1>3, <1>4 DEF Core, Works, Items
<1>9. QueuedIffPending'
  <2> SUFFICES ASSUME NEW r \in Queues, NEW v \in Works
               PROVE  /\ IsIn(pending'[r], v) <=> ("QUEUED" \in flags'[v] /\ wqueue'[v] = r)
                      /\ Once(pending'[r], v)
    BY DEF QueuedIffPending
  <2>1. /\ IsIn(pending[r], v) <=> ("QUEUED" \in flags[v] /\ wqueue[v] = r)
        /\ Once(pending[r], v)
    BY <1>1 DEF Core, QueuedIffPending
  <2>2. pending'[r] = IF r = q THEN Tail(pending[q]) ELSE pending[r]
    BY <1>1, <1>4 DEF Core
  <2>3. CASE r = q
    BY <2>1, <2>2, <2>3, <1>3, <1>4, <1>5, <1>8
  <2>4. CASE r # q
    BY <2>1, <2>2, <2>4, <1>4, <1>5, <1>8
  <2> QED BY <2>3, <2>4
<1>10. NoReentrancy'
  <2> SUFFICES ASSUME NEW v \in Works
               PROVE  /\ "RUNNING" \in flags'[v] <=> \E r \in Queues : running'[r] = v
                      /\ \A r \in Queues : running'[r] = v => wqueue'[v] = r
    BY DEF NoReentrancy
  <2>1. \A r \in Queues : running'[r] = IF r = q THEN i ELSE running[r]
    BY <1>1, <1>4 DEF Core
  <2>2. /\ "RUNNING" \in flags[v] <=> \E r \in Queues : running[r] = v
        /\ \A r \in Queues : running[r] = v => wqueue[v] = r
        /\ v # NULL
    BY <1>1, WorkQAssumption DEF Core, NoReentrancy, Works, Items
  <2>3. CASE v = i
    BY <2>1, <2>3, <1>4, <1>5, <1>6, <1>8
  <2>4. CASE v # i
    BY <2>1, <2>2, <2>4, <1>2, <1>4, <1>8
  <2> QED BY <2>3, <2>4
<1>11. CancelingIsRunning' /\ PlainNotDelayed' /\ QueuedHasQueue'
  BY <1>1, <1>4, <1>5, <1>8 DEF Core, CancelingIsRunning, PlainNotDelayed, QueuedHasQueue, Works
<1>12. WorkerState'
  <2>1. i # NULL
    BY <1>3, WorkQAssumption
  <2> QED BY <1>1, <1>2, <1>3, <1>4, <2>1 DEF Core, WorkerState
<1>13. Core'
  BY <1>1, <1>4, <1>7, <1>9, <1>10, <1>11, <1>12 DEF Core
<1>14. RestType'
  BY <1>1, <1>4 DEF RestType
<1> QED BY <1>13, <1>14, IInvParts

\* The queue thread finds its list empty.
LEMMA WorkerSleepStep == ASSUME IInv, NEW q \in Queues, WorkerSleep(q) PROVE IInv'
<1> USE DEF WorkerSleep, workVars, timerVars
<1>1. Core /\ RestType
  BY IInvParts
<1>2. /\ UNCHANGED <<flags, wqueue, pending, running>>
      /\ qflags' \in [Queues -> SUBSET QueueFlags]
      /\ \A r \in Queues : "STARTED" \in qflags'[r] <=> "STARTED" \in qflags[r]
      /\ wpc[q] = "loop" /\ wpc' = [wpc EXCEPT ![q] = "wait"]
  <2>1. /\ UNCHANGED <<flags, wqueue, pending, running>>
        /\ wpc[q] = "loop" /\ wpc' = [wpc EXCEPT ![q] = "wait"]
    OBVIOUS
  <2>2. /\ qflags' \in [Queues -> SUBSET QueueFlags]
        /\ \A r \in Queues : "STARTED" \in qflags'[r] <=> "STARTED" \in qflags[r]
    <3>1. qflags \in [Queues -> SUBSET QueueFlags]
      BY <1>1 DEF Core
    <3>2. qflags' = [qflags EXCEPT ![q] = @ \ {"DRAIN"}] \/ qflags' = qflags
      OBVIOUS
    <3>3. "STARTED" # "DRAIN"
      OBVIOUS
    <3> HIDE DEF WorkerSleep
    <3> QED BY <3>1, <3>2, <3>3
  <2> QED BY <2>1, <2>2
<1>3. WorkerState' /\ wpc' \in [Queues -> {"off", "loop", "wait", "handler", "flushed"}]
  BY <1>1, <1>2 DEF Core, WorkerState
<1>4. Core'
  BY <1>1, <1>2, <1>3 DEF Core, QueuedIffPending, NoReentrancy, CancelingIsRunning,
                          PlainNotDelayed, QueuedHasQueue
<1>5. RestType'
  BY <1>1 DEF RestType
<1> QED BY <1>4, <1>5, IInvParts

\* The queue thread handles a flusher.
LEMMA FlushHandlerStep == ASSUME IInv, NEW q \in Queues, FlushHandler(q) PROVE IInv'
<1> USE DEF FlushHandler, workVars, timerVars
<1>1. Core /\ RestType
  BY IInvParts
<1>2. WorkerState' /\ wpc' \in [Queues -> {"off", "loop", "wait", "handler", "flushed"}]
  BY <1>1 DEF Core, WorkerState
<1>3. Core'
  BY <1>1, <1>2 DEF Core, QueuedIffPending, NoReentrancy, CancelingIsRunning,
                    PlainNotDelayed, QueuedHasQueue
<1>4. RestType'
  BY <1>1 DEF RestType
<1> QED BY <1>3, <1>4, IInvParts

\* The queue thread is back from a handler.
LEMMA WorkerFinishStep == ASSUME IInv, NEW q \in Queues, WorkerFinish(q) PROVE IInv'
<1> DEFINE i == running[q]
<1>1. Core /\ RestType
  BY IInvParts
<1>2. i \in Items /\ wpc[q] \in {"handler", "flushed"} /\ i # NULL
  BY <1>1, WorkQAssumption DEF WorkerFinish, Core, WorkerState, Items
<1>3. /\ flags' = [flags EXCEPT ![i] = flags[i] \ {"RUNNING", "CANCELING"}]
      /\ running' = [running EXCEPT ![q] = NULL]
      /\ qflags' = [qflags EXCEPT ![q] = qflags[q] \ {"BUSY"}]
      /\ wpc' = [wpc EXCEPT ![q] = "loop"]
      /\ UNCHANGED <<wqueue, dqueue, linked, firing, pending, drainq, cpc>>
      /\ pending_cancels' \subseteq pending_cancels
      /\ sem' = [c \in Clients |-> IF c \in Cancelers(i) THEN 1 ELSE sem[c]]
  BY <1>1, <1>2 DEF WorkerFinish, Core, timerVars
<1>4. /\ flags' \in [Items -> SUBSET WorkFlags]
      /\ qflags' \in [Queues -> SUBSET QueueFlags]
      /\ running' \in [Queues -> Items \cup {NULL}]
      /\ wpc' \in [Queues -> {"off", "loop", "wait", "handler", "flushed"}]
  BY <1>1, <1>2, <1>3 DEF Core
<1>5. /\ \A v \in Works : v # i => flags'[v] = flags[v]
      /\ flags'[i] = flags[i] \ {"RUNNING", "CANCELING"}
  BY <1>1, <1>2, <1>3 DEF Core, Works, Items
<1>6. QueuedIffPending'
  BY <1>1, <1>3, <1>5 DEF Core, QueuedIffPending
<1>7. NoReentrancy'
  <2> SUFFICES ASSUME NEW v \in Works
               PROVE  /\ "RUNNING" \in flags'[v] <=> \E r \in Queues : running'[r] = v
                      /\ \A r \in Queues : running'[r] = v => wqueue'[v] = r
    BY DEF NoReentrancy
  <2>1. \A r \in Queues : running'[r] = IF r = q THEN NULL ELSE running[r]
    BY <1>1, <1>3 DEF Core
  <2>2. /\ "RUNNING" \in flags[v] <=> \E r \in Queues : running[r] = v
        /\ \A r \in Queues : running[r] = v => wqueue[v] = r
        /\ v # NULL
    BY <1>1, WorkQAssumption DEF Core, NoReentrancy, Works, Items
  <2> HIDE DEF i
  <2>3. running[q] = i
    BY DEF i
  <2>4. CASE v = i
    BY <2>1, <2>2, <2>3, <2>4, <1>3, <1>5
  <2>5. CASE v # i
    BY <2>1, <2>2, <2>3, <2>5, <1>3, <1>5
  <2> QED BY <2>4, <2>5
<1>8. CancelingIsRunning' /\ PlainNotDelayed' /\ QueuedHasQueue'
  BY <1>1, <1>3, <1>5 DEF Core, CancelingIsRunning, PlainNotDelayed, QueuedHasQueue, Works
<1>9. WorkerState'
  BY <1>1, <1>2, <1>3 DEF Core, WorkerState
<1>10. Core'
  BY <1>1, <1>3, <1>4, <1>6, <1>7, <1>8, <1>9 DEF Core
<1>11. RestType'
  BY <1>1, <1>3 DEF RestType
<1> QED BY <1>10, <1>11, IInvParts

\* schedule_for_queue_locked(), after nothing or after unschedule_locked().
LEMMA Scheduling ==
  ASSUME IInv, NEW caller \in Callers, NEW q \in Callers, NEW w \in DelayWorks, NEW d \in Delays,
         NEW f, f = flags[w] \/ f = flags[w] \ {"DELAYED"},
         NEW tl \in [DelayWorks -> BOOLEAN],
         ScheduleLocked(caller, q, w, d, f, tl),
         UNCHANGED <<firing, qflags, drainq, running, clientVars>>
  PROVE  IInv'
<1>1. Core /\ RestType
  BY IInvParts
<1>2. w \in Works /\ f \in SUBSET WorkFlags /\ flags[w] \in SUBSET WorkFlags
  BY <1>1 DEF Core, Works, Items
<1>3. CASE d = "NO_WAIT"
  <2>1. SubmitLocked(w, q, caller, f) /\ linked' = tl /\ UNCHANGED dqueue
    BY <1>3 DEF ScheduleLocked
  <2>2. Core'
    BY <1>1, <1>2, <2>1, Submitting
  <2>3. RestType'
    BY <1>1, <2>1 DEF RestType, clientVars
  <2> QED BY <2>2, <2>3, IInvParts
<1>4. CASE d # "NO_WAIT"
  <2>1. /\ flags' = [flags EXCEPT ![w] = f \cup {"DELAYED"}]
        /\ dqueue' = [dqueue EXCEPT ![w] = q]
        /\ linked' = IF d = "TICKS" THEN [tl EXCEPT ![w] = TRUE] ELSE tl
        /\ UNCHANGED <<wqueue, pending, wpc>>
    BY <1>4 DEF ScheduleLocked
  <2>2. /\ f \cup {"DELAYED"} \in SUBSET WorkFlags
        /\ (f \cup {"DELAYED"}) \ {"DELAYED"} = flags[w] \ {"DELAYED"}
    BY <1>2 DEF WorkFlags
  <2>3. Core'
    BY <1>1, <2>1, <2>2, DelayedOnly
  <2>4. RestType'
    BY <1>1, <2>1 DEF RestType, clientVars
  <2> QED BY <2>3, <2>4, IInvParts
<1> QED BY <1>3, <1>4

\* k_work_schedule_for_queue(), k_work_reschedule_for_queue()
LEMMA ScheduleStep ==
  ASSUME IInv, NEW caller \in Callers, NEW q \in Callers, NEW w \in DelayWorks, NEW d \in Delays,
         Schedule(caller, q, w, d) \/ Reschedule(caller, q, w, d)
  PROVE  IInv'
<1>1. linked \in [DelayWorks -> BOOLEAN] /\ Unlinked(w) \in [DelayWorks -> BOOLEAN]
  BY DEF IInv, TypeOK, Unlinked
<1>2. CASE Schedule(caller, q, w, d)
  BY <1>1, <1>2, Scheduling DEF Schedule
<1>3. CASE Reschedule(caller, q, w, d)
  BY <1>1, <1>3, Scheduling DEF Reschedule, Unscheduled
<1> QED BY <1>2, <1>3

\* k_work_cancel_delayable()
LEMMA CancelDelayableStep ==
  ASSUME IInv, NEW w \in DelayWorks,
         CancelDelayable(w) \/ \E c \in Clients : CancelDelayableSync(c, w)
  PROVE  IInv'
<1>1. Core /\ RestType
  BY IInvParts
<1>2. w \in Works /\ Unscheduled(w) \in SUBSET WorkFlags /\ Unscheduled(w) = flags[w] \ {"DELAYED"}
  BY <1>1 DEF Core, Works, Items, Unscheduled
<1>3. /\ CancelAsyncLocked(w, Unscheduled(w))
      /\ linked' = Unlinked(w)
      /\ UNCHANGED <<wqueue, dqueue, firing, qflags, drainq, running, wpc>>
  BY DEF CancelDelayable, CancelDelayableSync
<1>4. UNCHANGED clientVars \/ \E c \in Clients : CancelSyncLocked(c, w)
  BY DEF CancelDelayable, CancelDelayableSync
<1>5. Core'
  BY <1>1, <1>2, <1>3, Cancelling
<1>6. RestType'
  BY <1>1, <1>2, <1>3, <1>4 DEF RestType, CancelSyncLocked, clientVars, Unlinked
<1> QED BY <1>5, <1>6, IInvParts

\* k_work_flush_delayable()
LEMMA FlushDelayableStep ==
  ASSUME IInv, NEW c \in Clients, NEW w \in DelayWorks, FlushDelayable(c, w)
  PROVE  IInv'
<1> DEFINE submit == Unschedules(w) /\ Submittable(w, dqueue[w], NULL)
           to     == SubmitQueue(w, dqueue[w])
           f      == Unscheduled(w) \cup (IF submit THEN {"QUEUED"} ELSE {})
           wq     == IF submit THEN to ELSE wqueue[w]
           pend   == IF submit THEN [pending EXCEPT ![to] = Enqueued(@, w)] ELSE pending
<1>1. Core /\ RestType
  BY IInvParts
<1>2. /\ w \in Works /\ w \in Items /\ c \in Items /\ c # w
      /\ \A v \in Works : v # c /\ v \in Items
      /\ NULL \in Callers /\ dqueue[w] \in Callers
      /\ Unscheduled(w) \in SUBSET WorkFlags /\ Unscheduled(w) = flags[w] \ {"DELAYED"}
  BY <1>1, WorkQAssumption DEF Core, RestType, Works, Items, Callers, Unscheduled
<1>3. RestType'
  BY <1>1 DEF FlushDelayable, RestType, Unlinked
<1>4. CASE submit
  <2>1. /\ to \in Queues /\ "STARTED" \in qflags[to]
        /\ "QUEUED" \notin flags[w] /\ "CANCELING" \notin flags[w]
        /\ "RUNNING" \in flags[w] => to = wqueue[w]
        /\ ~IsIn(pending[to], w)
    BY <1>1, <1>2, <1>4, SubmitTarget
  <2> DEFINE s == Append(pending[to], w)
  <2>2. f = Unscheduled(w) \cup {"QUEUED"} /\ wq = to /\ pend = [pending EXCEPT ![to] = s]
    BY <1>1, <1>4, <2>1 DEF Core, Enqueued
  <2>3. /\ flags' = [flags EXCEPT ![w] = f, ![c] = {}]
        /\ pending' = [pend EXCEPT ![wq] = FlusherQueued(@, w, c)]
        /\ wpc' = Notified(wq)
        /\ wqueue' = [wqueue EXCEPT ![w] = wq]
        /\ UNCHANGED <<qflags, running>>
    <3>1. f \cap {"QUEUED", "RUNNING"} # {}
      BY <2>2
    <3> QED BY <3>1 DEF FlushDelayable
  <2> HIDE DEF submit, to, f, wq, pend
  <2>4. /\ flags' \in [Items -> SUBSET WorkFlags]
        /\ \A v \in Works : flags'[v] = IF v = w THEN Unscheduled(w) \cup {"QUEUED"} ELSE flags[v]
    BY <1>1, <1>2, <2>2, <2>3 DEF Core, WorkFlags
  <2>5. s \in Seq(Items) /\ \A y \in Works : /\ IsIn(s, y) <=> IsIn(pending[to], y) \/ y = w
                                             /\ Once(s, y)
    <3>1. pending[to] \in Seq(Items)
      BY <1>1, <2>1 DEF Core
    <3>2. /\ s \in Seq(Items)
          /\ \A y : IsIn(s, y) <=> IsIn(pending[to], y) \/ y = w
          /\ \A y : Once(pending[to], y) /\ (y # w \/ ~IsIn(pending[to], y)) => Once(s, y)
      BY <1>2, <3>1, AppendFacts
    <3> QED BY <3>2, <1>1, <2>1 DEF Core, QueuedIffPending
  <2> HIDE DEF s
  <2> DEFINE t == FlusherQueued(s, w, c)
  <2>6. /\ t \in Seq(Items)
        /\ \A y \in Works : IsIn(t, y) <=> IsIn(s, y)
        /\ \A y \in Works : Once(s, y) => Once(t, y)
    BY <1>2, <2>5, FlusherFacts
  <2>7. pending' = [pending EXCEPT ![to] = t]
    BY <1>1, <2>1, <2>2, <2>3 DEF Core
  <2>8. wqueue' = [wqueue EXCEPT ![w] = to] /\ wpc' = Notified(to)
    BY <2>2, <2>3
  <2> HIDE DEF t
  <2>9. \A y \in Works : /\ IsIn(t, y) <=> IsIn(pending[to], y) \/ y = w
                         /\ Once(t, y)
    BY <2>5, <2>6
  <2>10. Core'
    BY <1>1, <1>2, <2>1, <2>3, <2>4, <2>6, <2>7, <2>8, <2>9, Queueing
  <2> QED BY <1>3, <2>10, IInvParts
<1>5. CASE ~submit /\ f \cap {"QUEUED", "RUNNING"} # {}
  <2>1. f = Unscheduled(w) /\ wq = wqueue[w] /\ pend = pending
    BY <1>5
  <2>2. /\ flags' = [flags EXCEPT ![w] = f, ![c] = {}]
        /\ pending' = [pend EXCEPT ![wq] = FlusherQueued(@, w, c)]
        /\ wpc' = Notified(wq)
        /\ wqueue' = [wqueue EXCEPT ![w] = wq]
        /\ UNCHANGED <<qflags, running>>
    BY <1>5 DEF FlushDelayable
  <2> HIDE DEF submit, to, f, wq, pend
  <2>3. wqueue[w] \in Queues /\ "STARTED" \in qflags[wqueue[w]]
    BY <1>1, <1>2, <1>5, <2>1, BusyQueue
  <2>4. /\ flags' \in [Items -> SUBSET WorkFlags]
        /\ \A v \in Works : flags'[v] = IF v = w THEN flags[w] \ {"DELAYED"} ELSE flags[v]
    BY <1>1, <1>2, <2>1, <2>2 DEF Core
  <2>5. /\ pending' = [pending EXCEPT ![wqueue[w]] = FlusherQueued(pending[wqueue[w]], w, c)]
        /\ wqueue' = wqueue
        /\ wpc' = Notified(wqueue[w])
    BY <1>1, <1>2, <2>1, <2>2, <2>3 DEF Core
  <2>6. Core'
    BY <1>1, <1>2, <2>2, <2>3, <2>4, <2>5, Flushing
  <2> QED BY <1>3, <2>6, IInvParts
<1>6. CASE f \cap {"QUEUED", "RUNNING"} = {}
  <2>1. ~submit /\ f = Unscheduled(w) /\ wq = wqueue[w]
    BY <1>6
  <2>2. /\ flags' = [flags EXCEPT ![w] = f]
        /\ wqueue' = [wqueue EXCEPT ![w] = wq]
        /\ UNCHANGED <<pending, wpc, qflags, running>>
    BY <1>6 DEF FlushDelayable
  <2> HIDE DEF submit, to, f, wq, pend
  <2>3. wqueue' = wqueue
    BY <1>1, <1>2, <2>1, <2>2 DEF Core
  <2>4. Core'
    BY <1>1, <1>2, <2>1, <2>2, <2>3, DelayedOnly
  <2> QED BY <1>3, <2>4, IInvParts
<1> QED BY <1>4, <1>5, <1>6

\* work_timeout()
LEMMA WorkTimeoutStep == ASSUME IInv, WorkTimeout PROVE IInv'
<1>1. Core /\ RestType
  BY IInvParts
<1>2. firing \in DelayWorks
  BY <1>1 DEF WorkTimeout, RestType
<1>3. /\ firing \in Works /\ NULL \in Callers /\ dqueue[firing] \in Callers
      /\ Unscheduled(firing) \in SUBSET WorkFlags /\ Unscheduled(firing) = flags[firing] \ {"DELAYED"}
  BY <1>1, <1>2 DEF Core, RestType, Works, Items, Callers, Unscheduled
<1>4. RestType'
  BY <1>1 DEF WorkTimeout, RestType, clientVars
<1>5. CASE "DELAYED" \in flags[firing]
  <2>1. Core'
    BY <1>1, <1>3, <1>5, Submitting DEF WorkTimeout
  <2> QED BY <1>4, <2>1, IInvParts
<1>6. CASE "DELAYED" \notin flags[firing]
  <2>1. UNCHANGED <<flags, wqueue, pending, wpc, qflags, running>>
    BY <1>6 DEF WorkTimeout
  <2>2. Core'
    BY <1>1, <2>1 DEF Core, QueuedIffPending, NoReentrancy, CancelingIsRunning, WorkerState,
                      PlainNotDelayed, QueuedHasQueue
  <2> QED BY <1>4, <2>2, IInvParts
<1> QED BY <1>5, <1>6

(***************************************************************************)
(* The theorems                                                            *)
(***************************************************************************)
LEMMA IInvInit == Init => IInv
<1> SUFFICES ASSUME Init PROVE IInv
  OBVIOUS
<1> USE DEF Init, Works, Items
<1>1. TypeOK
  BY DEF TypeOK, Callers
<1>2. QueuedIffPending
  BY DEF QueuedIffPending, IsIn, Once
<1>3. NoReentrancy
  BY WorkQAssumption DEF NoReentrancy
<1>4. CancelingIsRunning /\ WorkerState /\ PlainNotDelayed /\ QueuedHasQueue
  BY DEF CancelingIsRunning, WorkerState, PlainNotDelayed, QueuedHasQueue
<1> QED BY <1>1, <1>2, <1>3, <1>4 DEF IInv

\* Every step keeps the invariant.
LEMMA IInvStep == IInv /\ [Next]_vars => IInv'
<1> SUFFICES ASSUME IInv, [Next]_vars PROVE IInv'
  OBVIOUS
<1>1. CASE PlainCalls
  BY <1>1, SubmitStep, FlushStep, CancelStep, CancelSyncStep DEF PlainCalls
<1>2. CASE DelayCalls
  BY <1>2, ScheduleStep, FlushDelayableStep, CancelDelayableStep DEF DelayCalls
<1>3. CASE QueueCalls
  BY <1>3, QueueStartStep, DrainStep, ClientStep DEF QueueCalls
<1>4. CASE \E q \in Queues : Worker(q)
  BY <1>4, WorkerTakeStep, WorkerSleepStep, FlushHandlerStep, WorkerFinishStep DEF Worker
<1>5. CASE \/ \E c \in Clients : SyncReturn(c)
           \/ \E w \in DelayWorks : TimeoutExpires(w)
  BY <1>5, ClientStep
<1>6. CASE WorkTimeout
  BY <1>6, WorkTimeoutStep
<1>7. CASE UNCHANGED vars
  BY <1>7 DEF vars, stateVars, workVars, timerVars, queueVars, clientVars, IInv, TypeOK, QueuedIffPending,
              NoReentrancy, CancelingIsRunning, WorkerState, PlainNotDelayed, QueuedHasQueue
<1> QED BY <1>1, <1>2, <1>3, <1>4, <1>5, <1>6, <1>7 DEF Next

\* IInv is an invariant of the work queues.
THEOREM Invariance == Spec => []IInv
<1> QED BY IInvInit, IInvStep, PTL DEF Spec

\* The variables keep the types their C declarations give them.
THEOREM TypeCorrect == Spec => []TypeOK
<1>1. IInv => TypeOK
  BY DEF IInv
<1> QED BY <1>1, Invariance, PTL

\* An item is on a pending list exactly when it is QUEUED, once, on its own
\* queue's list: submit_to_queue_locked(), cancel_async_locked(), the queue
\* threads and work_timeout() never link or unlink its node twice.
THEOREM QueuedExactlyOnce == Spec => []QueuedIffPending
<1>1. IInv => QueuedIffPending
  BY DEF IInv
<1> QED BY <1>1, Invariance, PTL

\* No item's handler is entered by two queue threads at once, however many
\* queues the item is submitted to while it runs.
THEOREM HandlersNotReentered == Spec => []NoReentrancy
<1>1. IInv => NoReentrancy
  BY DEF IInv
<1> QED BY <1>1, Invariance, PTL

\* The CANCELING flag is set only on an item that runs and is not queued, so
\* work_queue_main() clears it and the item can be submitted again.
THEOREM CancelingEnds == Spec => []CancelingIsRunning
<1>1. IInv => CancelingIsRunning
  BY DEF IInv
<1> QED BY <1>1, Invariance, PTL

(***************************************************************************)
(* Refinement                                                              *)
(***************************************************************************)
\* What a step on items looks like through the refinement mapping.
LEMMA MapStutter ==
  ASSUME \A v \in Works : /\ "QUEUED" \in flags'[v] <=> "QUEUED" \in flags[v]
                          /\ "QUEUED" \in flags[v] => wqueue'[v] = wqueue[v],
         running' = running
  PROVE  UNCHANGED <<waitingOn, executing>>
  BY DEF waitingOn, executing

\* A submission that is accepted is one of WorkPromise,
LEMMA MapSubmit ==
  ASSUME Core, NEW w \in Works, NEW to \in Queues,
         "QUEUED" \notin flags[w],
         "RUNNING" \in flags[w] => to = wqueue[w],
         \A v \in Works : "QUEUED" \in flags'[v] <=> "QUEUED" \in flags[v] \/ v = w,
         wqueue' = [wqueue EXCEPT ![w] = to],
         running' = running
  PROVE  Promise!Submit(w, to)
<1>1. waitingOn[w] = NULL
  BY DEF waitingOn
<1>2. \A r \in Queues : executing[r] = w => r = to
  BY WorkQAssumption DEF executing, Core, NoReentrancy, Works, Items
<1>3. waitingOn' = [waitingOn EXCEPT ![w] = to]
  BY DEF waitingOn, Core
<1>4. UNCHANGED executing
  BY DEF executing
<1> QED BY <1>1, <1>2, <1>3, <1>4 DEF Promise!Submit

\* and one that is refused changes nothing there.
LEMMA MapSubmitLocked ==
  ASSUME Core, NEW w \in Works, NEW q \in Callers, NEW caller \in Callers, NEW f,
         f = flags[w] \/ f = flags[w] \ {"DELAYED"},
         SubmitLocked(w, q, caller, f), running' = running
  PROVE  Promise!Next \/ UNCHANGED <<waitingOn, executing>>
<1> DEFINE to == SubmitQueue(w, q)
<1>0. \A v \in Works : v \in Items
  BY DEF Items
<1>1. CASE Submittable(w, q, caller)
  <2>1. /\ to \in Queues /\ "QUEUED" \notin flags[w]
        /\ "RUNNING" \in flags[w] => to = wqueue[w]
    BY <1>1, SubmitTarget
  <2>2. /\ \A v \in Works : "QUEUED" \in flags'[v] <=> "QUEUED" \in flags[v] \/ v = w
        /\ wqueue' = [wqueue EXCEPT ![w] = to]
    BY <1>0, <1>1 DEF SubmitLocked, Core
  <2>3. Promise!Submit(w, to)
    BY <2>1, <2>2, MapSubmit
  <2> QED BY <2>1, <2>3 DEF Promise!Next
<1>2. CASE ~Submittable(w, q, caller)
  <2>1. flags' = [flags EXCEPT ![w] = f] /\ wqueue' = wqueue
    BY <1>2 DEF SubmitLocked
  <2>2. \A v \in Works : "QUEUED" \in flags'[v] <=> "QUEUED" \in flags[v]
    BY <1>0, <2>1 DEF Core
  <2> QED BY <2>1, <2>2, MapStutter
<1> QED BY <1>1, <1>2

\* A cancellation takes the item back, or changes nothing.
LEMMA MapCancel ==
  ASSUME Core, NEW w \in Works, CancelAsyncLocked(w, flags[w] \ {"DELAYED"}),
         UNCHANGED <<wqueue, running>>
  PROVE  Promise!Next \/ UNCHANGED <<waitingOn, executing>>
<1>1. /\ flags' = [flags EXCEPT ![w] = CancelledFlags(flags[w] \ {"DELAYED"})]
      /\ "QUEUED" \notin CancelledFlags(flags[w] \ {"DELAYED"})
  BY DEF CancelAsyncLocked, CancelledFlags, Core, CancelingIsRunning
<1>2. \A v \in Works : "QUEUED" \in flags'[v] <=> "QUEUED" \in flags[v] /\ v # w
  BY <1>1 DEF Core, Items
<1>3. CASE "QUEUED" \in flags[w]
  <2>1. waitingOn[w] # NULL /\ waitingOn' = [waitingOn EXCEPT ![w] = NULL]
    BY <1>2, <1>3 DEF waitingOn, Core, QueuedHasQueue
  <2>2. UNCHANGED executing
    BY DEF executing
  <2> QED BY <2>1, <2>2 DEF Promise!Next, Promise!Withdraw
<1>4. CASE "QUEUED" \notin flags[w]
  BY <1>2, <1>4, MapStutter
<1> QED BY <1>3, <1>4

\* The item that a queue thread takes starts.
LEMMA MapTake ==
  ASSUME Core, NEW q \in Queues, WorkerTake(q)
  PROVE  Promise!Next \/ UNCHANGED <<waitingOn, executing>>
<1> DEFINE i == Head(pending[q])
<1>1. /\ pending[q] # <<>> /\ pending[q] \in Seq(Items) /\ running[q] = NULL
      /\ i \in Items /\ IsIn(pending[q], i)
  <2>1. pending[q] # <<>> /\ pending[q] \in Seq(Items) /\ running[q] = NULL
    BY DEF WorkerTake, Core, WorkerState
  <2> QED BY <2>1, TailFacts
<1>2. /\ flags' = [flags EXCEPT ![i] = (flags[i] \cup {"RUNNING"}) \ {"QUEUED"}]
      /\ running' = [running EXCEPT ![q] = i]
      /\ wqueue' = wqueue
  BY <1>1 DEF WorkerTake, Core
<1> HIDE DEF i
<1>3. CASE i \in Works
  <2>1. "QUEUED" \in flags[i] /\ wqueue[i] = q
    BY <1>1, <1>3 DEF Core, QueuedIffPending
  <2>2. waitingOn[i] = q /\ executing[q] = NULL
    BY <1>1, <1>3, <2>1, WorkQAssumption DEF waitingOn, executing, Items
  <2>3. \A r \in Queues : executing[r] # i
    <3>1. \A r \in Queues : running[r] # i /\ i # NULL
      BY <1>1, <1>3, <2>1, WorkQAssumption DEF Core, NoReentrancy, Items
    <3> QED BY <3>1 DEF executing
  <2>4. \A v \in Works : "QUEUED" \in flags'[v] <=> "QUEUED" \in flags[v] /\ v # i
    BY <1>2, <1>3 DEF Core, Items
  <2>5. waitingOn' = [waitingOn EXCEPT ![i] = NULL]
    BY <1>2, <1>3, <2>4 DEF waitingOn
  <2>6. executing' = [executing EXCEPT ![q] = i]
    BY <1>2, <1>3 DEF executing, Core
  <2> QED BY <1>3, <2>2, <2>3, <2>5, <2>6 DEF Promise!Next, Promise!Begin
<1>4. CASE i \notin Works
  <2>1. \A v \in Works : flags'[v] = flags[v]
    BY <1>2, <1>4 DEF Core, Items
  <2>2. UNCHANGED waitingOn
    BY <1>2, <2>1 DEF waitingOn
  <2>3. UNCHANGED executing
    BY <1>1, <1>2, <1>4, WorkQAssumption DEF executing, Core, Items
  <2> QED BY <2>2, <2>3
<1> QED BY <1>3, <1>4

\* The item of a handler that returns ends.
LEMMA MapFinish ==
  ASSUME Core, NEW q \in Queues, WorkerFinish(q)
  PROVE  Promise!Next \/ UNCHANGED <<waitingOn, executing>>
<1> DEFINE i == running[q]
<1>1. i \in Items /\ i # NULL
  BY WorkQAssumption DEF WorkerFinish, Core, WorkerState, Items
<1>2. /\ flags' = [flags EXCEPT ![i] = flags[i] \ {"RUNNING", "CANCELING"}]
      /\ running' = [running EXCEPT ![q] = NULL]
      /\ wqueue' = wqueue
  BY <1>1 DEF WorkerFinish, Core
<1>3. \A v \in Works : "QUEUED" \in flags'[v] <=> "QUEUED" \in flags[v]
  BY <1>1, <1>2 DEF Core, Items
<1>4. UNCHANGED waitingOn
  BY <1>2, <1>3 DEF waitingOn
<1>5. CASE i \in Works
  <2>1. executing[q] # NULL /\ executing' = [executing EXCEPT ![q] = NULL]
    BY <1>1, <1>2, <1>5 DEF executing, Core
  <2> QED BY <1>4, <2>1 DEF Promise!Next, Promise!End
<1>6. CASE i \notin Works
  <2>1. UNCHANGED executing
    BY <1>2, <1>6, WorkQAssumption DEF executing, Core, Items
  <2> QED BY <1>4, <2>1
<1> QED BY <1>5, <1>6

\* A flush of a delayable item submits it first.
LEMMA MapFlushDelayable ==
  ASSUME IInv, NEW c \in Clients, NEW w \in DelayWorks, FlushDelayable(c, w)
  PROVE  Promise!Next \/ UNCHANGED <<waitingOn, executing>>
<1> DEFINE submit == Unschedules(w) /\ Submittable(w, dqueue[w], NULL)
           to     == SubmitQueue(w, dqueue[w])
<1>1. Core /\ RestType
  BY IInvParts
<1>2. /\ w \in Works /\ w \in Items /\ c \in Items /\ c # w
      /\ \A v \in Works : v # c /\ v \in Items
      /\ NULL \in Callers /\ dqueue[w] \in Callers
  BY <1>1, WorkQAssumption DEF Core, RestType, Works, Items, Callers
<1>3. running' = running
  BY DEF FlushDelayable
<1>4. CASE submit
  <2>1. /\ to \in Queues /\ "QUEUED" \notin flags[w]
        /\ "RUNNING" \in flags[w] => to = wqueue[w]
    BY <1>1, <1>2, <1>4, SubmitTarget
  <2>2. /\ flags' = [flags EXCEPT ![w] = Unscheduled(w) \cup {"QUEUED"}, ![c] = {}]
        /\ wqueue' = [wqueue EXCEPT ![w] = to]
    BY <1>4 DEF FlushDelayable
  <2> HIDE DEF to, submit
  <2>3. \A v \in Works : "QUEUED" \in flags'[v] <=> "QUEUED" \in flags[v] \/ v = w
    BY <1>1, <1>2, <2>2 DEF Core
  <2>4. Promise!Submit(w, to)
    BY <1>1, <1>2, <1>3, <2>1, <2>2, <2>3, MapSubmit
  <2> QED BY <1>2, <2>1, <2>4 DEF Promise!Next
<1>5. CASE ~submit
  <2>1. \/ flags' = [flags EXCEPT ![w] = Unscheduled(w), ![c] = {}]
        \/ flags' = [flags EXCEPT ![w] = Unscheduled(w)]
    BY <1>5 DEF FlushDelayable
  <2>2. wqueue' = wqueue
    BY <1>1, <1>2, <1>5 DEF FlushDelayable, Core
  <2> HIDE DEF submit
  <2>3. \A v \in Works : "QUEUED" \in flags'[v] <=> "QUEUED" \in flags[v]
    BY <1>1, <1>2, <2>1 DEF Core, Unscheduled
  <2> QED BY <1>3, <2>2, <2>3, MapStutter
<1> QED BY <1>4, <1>5

\* Every step is one of WorkPromise, or changes nothing there.
LEMMA MapNext ==
  ASSUME IInv, Next
  PROVE  Promise!Next \/ UNCHANGED <<waitingOn, executing>>
<1>1. Core /\ RestType
  BY IInvParts
<1>2. CASE PlainCalls
  <2>1. PICK w \in PlainWorks :
          \/ \E caller \in Callers, q \in Callers : Submit(caller, q, w)
          \/ \E c \in Clients : Flush(c, w) \/ CancelSync(c, w)
          \/ Cancel(w)
    BY <1>2 DEF PlainCalls
  <2>2. w \in Works /\ flags[w] = flags[w] \ {"DELAYED"}
    BY <1>1 DEF Core, PlainNotDelayed, Works
  <2>3. CASE \E caller \in Callers, q \in Callers : Submit(caller, q, w)
    BY <1>1, <2>2, <2>3, MapSubmitLocked DEF Submit
  <2>4. CASE \E c \in Clients : Flush(c, w)
    <3>1. PICK c \in Clients : Flush(c, w)
      BY <2>4
    <3>2. \A v \in Works : flags'[v] = flags[v]
      BY <1>1, <3>1, WorkQAssumption DEF Flush, Core, Items
    <3> QED BY <3>1, <3>2, MapStutter DEF Flush
  <2>5. CASE Cancel(w) \/ \E c \in Clients : CancelSync(c, w)
    BY <1>1, <2>2, <2>5, MapCancel DEF Cancel, CancelSync
  <2> QED BY <2>1, <2>3, <2>4, <2>5
<1>3. CASE DelayCalls
  <2>1. PICK w \in DelayWorks :
          \/ \E caller \in Callers, q \in Callers, d \in Delays :
               Schedule(caller, q, w, d) \/ Reschedule(caller, q, w, d)
          \/ \E c \in Clients : FlushDelayable(c, w) \/ CancelDelayableSync(c, w)
          \/ CancelDelayable(w)
    BY <1>3 DEF DelayCalls
  <2>2. w \in Works
    BY DEF Works
  <2>3. CASE \E caller \in Callers, q \in Callers, d \in Delays :
               Schedule(caller, q, w, d) \/ Reschedule(caller, q, w, d)
    <3>1. PICK caller \in Callers, q \in Callers, d \in Delays :
               Schedule(caller, q, w, d) \/ Reschedule(caller, q, w, d)
      BY <2>3
    <3>2. PICK f \in {flags[w], flags[w] \ {"DELAYED"}} :
               \/ SubmitLocked(w, q, caller, f)
               \/ flags' = [flags EXCEPT ![w] = f \cup {"DELAYED"}] /\ wqueue' = wqueue
      BY <3>1 DEF Schedule, Reschedule, ScheduleLocked, Unscheduled
    <3>3. running' = running
      BY <3>1 DEF Schedule, Reschedule
    <3>4. CASE SubmitLocked(w, q, caller, f)
      BY <1>1, <2>2, <3>3, <3>4, MapSubmitLocked
    <3>5. CASE flags' = [flags EXCEPT ![w] = f \cup {"DELAYED"}] /\ wqueue' = wqueue
      <4>1. \A v \in Works : "QUEUED" \in flags'[v] <=> "QUEUED" \in flags[v]
        BY <1>1, <2>2, <3>2, <3>5 DEF Core, Items
      <4> QED BY <3>3, <3>5, <4>1, MapStutter
    <3> QED BY <3>2, <3>4, <3>5
  <2>4. CASE \E c \in Clients : FlushDelayable(c, w)
    BY <2>4, MapFlushDelayable
  <2>5. CASE CancelDelayable(w) \/ \E c \in Clients : CancelDelayableSync(c, w)
    BY <1>1, <2>2, <2>5, MapCancel DEF CancelDelayable, CancelDelayableSync, Unscheduled
  <2> QED BY <2>1, <2>3, <2>4, <2>5
<1>4. CASE \E q \in Queues : WorkerTake(q) \/ WorkerFinish(q)
  BY <1>1, <1>4, MapTake, MapFinish
<1>5. CASE WorkTimeout
  <2>1. CASE "DELAYED" \in flags[firing]
    <3>1. /\ firing \in Works /\ dqueue[firing] \in Callers /\ NULL \in Callers
          /\ SubmitLocked(firing, dqueue[firing], NULL, flags[firing] \ {"DELAYED"})
          /\ running' = running
      BY <1>1, <1>5, <2>1 DEF WorkTimeout, RestType, Works, Callers, Unscheduled
    <3> QED BY <1>1, <3>1, MapSubmitLocked
  <2>2. CASE "DELAYED" \notin flags[firing]
    BY <1>5, <2>2, MapStutter DEF WorkTimeout
  <2> QED BY <2>1, <2>2
<1>6. CASE \/ QueueCalls
           \/ \E q \in Queues : WorkerSleep(q) \/ FlushHandler(q)
           \/ \E c \in Clients : SyncReturn(c)
           \/ \E w \in DelayWorks : TimeoutExpires(w)
  <2>1. UNCHANGED <<flags, wqueue, running>>
    BY <1>6 DEF QueueCalls, QueueStart, Drain, Unplug, WorkerSleep, FlushHandler, SyncReturn,
                TimeoutExpires, workVars, queueVars
  <2> QED BY <2>1, MapStutter
<1> QED BY <1>2, <1>3, <1>4, <1>5, <1>6 DEF Next, Worker

\* The work queues implement WorkPromise: through every interleaving of
\* submissions, flushes, cancellations, drains and timeouts an item waits on
\* one queue, is executed by that queue, by one queue at a time, and once
\* for each accepted submission.
THEOREM Refinement == Spec => ImplementsPromise
<1>1. Init => Promise!Init
  BY WorkQAssumption DEF Init, Promise!Init, waitingOn, executing, Works, Items
<1>2. IInv /\ [Next]_vars => [Promise!Next]_<<waitingOn, executing>>
  <2>1. ASSUME UNCHANGED vars PROVE UNCHANGED <<waitingOn, executing>>
    BY <2>1 DEF vars, stateVars, workVars, queueVars, waitingOn, executing
  <2> QED BY <2>1, MapNext
<1> QED BY <1>1, <1>2, Invariance, PTL DEF Spec, ImplementsPromise, Promise!Spec

(***************************************************************************)
(* What a step does to lists and flags                                     *)
(***************************************************************************)
\* The item's flags other than DELAYED stay.
Same(v) == \A x \in {"RUNNING", "CANCELING", "QUEUED"} : x \in flags'[v] <=> x \in flags[v]

FlagsOnly == (\A v \in Works : Same(v)) /\ UNCHANGED <<wqueue, queueVars, clientVars>>

\* An item that is not queued becomes so.
Queued(w, to) ==
  /\ "QUEUED" \notin flags[w] /\ "CANCELING" \notin flags[w]
  /\ "PLUGGED" \in qflags[to] => "DRAIN" \in qflags[to]
  /\ "QUEUED" \in flags'[w] /\ "CANCELING" \notin flags'[w]
  /\ "RUNNING" \in flags'[w] <=> "RUNNING" \in flags[w]

Submitted(w, to) ==
  /\ Queued(w, to)
  /\ \A v \in Works : v # w => Same(v)
  /\ pending' = [pending EXCEPT ![to] = Append(@, w)]
  /\ wpc' = Notified(to)
  /\ UNCHANGED <<qflags, drainq, running, clientVars>>

Withdrawn(w) ==
  /\ \A v \in Works : v # w => Same(v)
  /\ "RUNNING" \in flags'[w] <=> "RUNNING" \in flags[w]
  /\ "CANCELING" \in flags[w] => "CANCELING" \in flags'[w]
  /\ "QUEUED" \notin flags'[w]
  /\ "RUNNING" \in flags'[w] => "CANCELING" \in flags'[w]
  /\ \/ /\ "QUEUED" \in flags[w] /\ wqueue[w] \in Queues
        /\ pending' = [pending EXCEPT ![wqueue[w]] = RemoveItem(@, w)]
     \/ "QUEUED" \notin flags[w] /\ pending' = pending
  /\ UNCHANGED <<wqueue, qflags, drainq, running, wpc>>

\* s is the list the flusher is put on, the item itself just queued or not.
Flushed(c, w, q, s) ==
  /\ cpc[c] = "idle"
  /\ \/ /\ s = pending[q] /\ Same(w) /\ wqueue[w] = q
        /\ flags[w] \cap {"QUEUED", "RUNNING"} # {}
     \/ s = Append(pending[q], w) /\ Queued(w, q)
  /\ \A v \in Works : v # w => Same(v)
  /\ wqueue' = [wqueue EXCEPT ![w] = q]
  /\ pending' = [pending EXCEPT ![q] = FlusherQueued(s, w, c)]
  /\ wpc' = Notified(q)
  /\ sem' = [sem EXCEPT ![c] = 0]
  /\ cpc' = [cpc EXCEPT ![c] = "flush"]
  /\ UNCHANGED <<qflags, drainq, running, pending_cancels>>

\* A submission puts the item on a list, or changes flags only.
LEMMA ShapeSubmit ==
  ASSUME IInv, NEW w \in Works, NEW q \in Callers, NEW caller \in Callers,
         NEW f \in {flags[w], flags[w] \ {"DELAYED"}}, SubmitLocked(w, q, caller, f),
         UNCHANGED <<qflags, drainq, running, clientVars>>
  PROVE  FlagsOnly \/ \E to \in Queues : Submitted(w, to)
<1> DEFINE to == SubmitQueue(w, q)
<1>0. Core /\ w \in Items /\ \A v \in Works : v \in Items
  BY IInvParts DEF Items
<1>1. CASE Submittable(w, q, caller)
  <2>1. /\ to \in Queues /\ "QUEUED" \notin flags[w] /\ "CANCELING" \notin flags[w]
    BY <1>0, <1>1, SubmitTarget
  <2>2. "PLUGGED" \in qflags[to] => "DRAIN" \in qflags[to]
    BY <1>1 DEF Submittable, Accepts
  <2>3. /\ flags' = [flags EXCEPT ![w] = f \cup {"QUEUED"}]
        /\ pending' = [pending EXCEPT ![to] = Append(@, w)]
        /\ wpc' = Notified(to)
    BY <1>1 DEF SubmitLocked, Enqueued
  <2> HIDE DEF to
  <2>4. flags'[w] = f \cup {"QUEUED"} /\ \A v \in Works : v # w => flags'[v] = flags[v]
    BY <1>0, <2>3 DEF Core
  <2>5. Queued(w, to) /\ \A v \in Works : v # w => Same(v)
    BY <2>1, <2>2, <2>4 DEF Queued, Same
  <2> QED
    BY <2>1, <2>3, <2>5 DEF Submitted
<1>2. CASE ~Submittable(w, q, caller)
  <2>1. flags' = [flags EXCEPT ![w] = f] /\ UNCHANGED <<wqueue, pending, wpc>>
    BY <1>2 DEF SubmitLocked
  <2>2. \A v \in Works : Same(v)
    BY <1>0, <2>1 DEF Same, Core
  <2> QED
    BY <2>1, <2>2 DEF FlagsOnly, queueVars
<1> QED
  BY <1>1, <1>2

\* A cancellation takes the item off its list.
LEMMA ShapeCancel ==
  ASSUME IInv, NEW w \in Works, CancelAsyncLocked(w, flags[w] \ {"DELAYED"}),
         UNCHANGED <<wqueue, qflags, drainq, running, wpc>>
  PROVE  Withdrawn(w)
<1> DEFINE f == flags[w] \ {"DELAYED"}
<1>0. Core /\ w \in Items /\ \A v \in Works : v \in Items
  BY IInvParts DEF Items
<1>1. /\ flags' = [flags EXCEPT ![w] = CancelledFlags(f)]
      /\ pending' = IF "QUEUED" \in f /\ "CANCELING" \notin f
                    THEN [pending EXCEPT ![wqueue[w]] = RemoveItem(@, w)]
                    ELSE pending
  BY DEF CancelAsyncLocked
<1>2. /\ "CANCELING" \in flags[w] => "QUEUED" \notin flags[w]
      /\ "QUEUED" \in flags[w] => wqueue[w] \in Queues
  BY <1>0 DEF Core, CancelingIsRunning, QueuedHasQueue, Callers
<1>3. /\ flags'[w] = CancelledFlags(f)
      /\ \A v \in Works : v # w => Same(v)
  BY <1>0, <1>1 DEF Core, Same
<1>4. /\ "RUNNING" \in flags'[w] <=> "RUNNING" \in flags[w]
      /\ "CANCELING" \in flags[w] => "CANCELING" \in flags'[w]
      /\ "QUEUED" \notin flags'[w]
      /\ "RUNNING" \in flags'[w] => "CANCELING" \in flags'[w]
  BY <1>2, <1>3 DEF CancelledFlags
<1>5. \/ /\ "QUEUED" \in flags[w] /\ wqueue[w] \in Queues
         /\ pending' = [pending EXCEPT ![wqueue[w]] = RemoveItem(@, w)]
      \/ "QUEUED" \notin flags[w] /\ pending' = pending
  BY <1>1, <1>2
<1> QED
  BY <1>3, <1>4, <1>5 DEF Withdrawn

\* A flush puts a flusher behind the item.
LEMMA ShapeFlush ==
  ASSUME IInv, NEW c \in Clients, NEW w \in PlainWorks, Flush(c, w)
  PROVE  \E q \in Queues : Flushed(c, w, q, pending[q])
<1>0. Core /\ w \in Works /\ c \in Items /\ \A v \in Works : v # c /\ v \in Items
  BY IInvParts, WorkQAssumption DEF Items, Works
<1>1. wqueue[w] \in Queues
  BY <1>0, BusyQueue DEF Flush
<1>2. \A v \in Works : Same(v)
  BY <1>0 DEF Flush, Core, Same
<1>3. wqueue' = [wqueue EXCEPT ![w] = wqueue[w]]
  BY <1>0 DEF Flush, Core
<1> QED
  BY <1>0, <1>1, <1>2, <1>3 DEF Flush, Flushed

\* The same after the submission of a delayable item.
LEMMA ShapeFlushDelayable ==
  ASSUME IInv, NEW c \in Clients, NEW w \in DelayWorks, FlushDelayable(c, w)
  PROVE  \/ FlagsOnly /\ "QUEUED" \notin flags'[w] /\ "RUNNING" \notin flags'[w]
         \/ \E q \in Queues : \E s \in {pending[q], Append(pending[q], w)} : Flushed(c, w, q, s)
<1> DEFINE submit == Unschedules(w) /\ Submittable(w, dqueue[w], NULL)
           to     == SubmitQueue(w, dqueue[w])
           f      == Unscheduled(w) \cup (IF submit THEN {"QUEUED"} ELSE {})
           wq     == IF submit THEN to ELSE wqueue[w]
           pend   == IF submit THEN [pending EXCEPT ![to] = Enqueued(@, w)] ELSE pending
<1>1. Core /\ RestType
  BY IInvParts
<1>2. /\ w \in Works /\ w \in Items /\ c \in Items /\ c # w
      /\ \A v \in Works : v # c /\ v \in Items
      /\ NULL \in Callers /\ dqueue[w] \in Callers
      /\ Unscheduled(w) = flags[w] \ {"DELAYED"}
  BY <1>1, WorkQAssumption DEF Core, RestType, Works, Items, Callers, Unscheduled
<1>3. /\ cpc[c] = "idle" /\ wqueue' = [wqueue EXCEPT ![w] = wq]
      /\ UNCHANGED <<qflags, drainq, running, pending_cancels>>
  BY DEF FlushDelayable
<1>4. CASE f \cap {"QUEUED", "RUNNING"} # {}
  <2>0. /\ flags' = [flags EXCEPT ![w] = f, ![c] = {}]
        /\ pending' = [pend EXCEPT ![wq] = FlusherQueued(@, w, c)]
        /\ wpc' = Notified(wq)
        /\ sem' = [sem EXCEPT ![c] = 0]
        /\ cpc' = [cpc EXCEPT ![c] = "flush"]
    BY <1>4 DEF FlushDelayable
  <2>1. CASE submit
    <3>1. /\ to \in Queues /\ "QUEUED" \notin flags[w] /\ "CANCELING" \notin flags[w]
      BY <1>1, <1>2, <2>1, SubmitTarget
    <3>2. "PLUGGED" \in qflags[to] => "DRAIN" \in qflags[to]
      BY <2>1 DEF Submittable, Accepts
    <3>3. /\ f = Unscheduled(w) \cup {"QUEUED"} /\ wq = to
          /\ pend = [pending EXCEPT ![to] = Append(pending[to], w)]
      BY <1>1, <2>1, <3>1 DEF Core, Enqueued
    <3> DEFINE s == Append(pending[to], w)
    <3> HIDE DEF submit, to, f, wq, pend
    <3>4. /\ flags'[w] = Unscheduled(w) \cup {"QUEUED"}
          /\ \A v \in Works : v # w => flags'[v] = flags[v]
      BY <1>1, <1>2, <2>0, <3>3 DEF Core
    <3>5. Queued(w, to) /\ \A v \in Works : v # w => Same(v)
      BY <1>2, <3>1, <3>2, <3>4 DEF Queued, Same
    <3>6. pending' = [pending EXCEPT ![to] = FlusherQueued(s, w, c)]
      BY <1>1, <2>0, <3>1, <3>3 DEF Core
    <3>7. Flushed(c, w, to, s)
      BY <1>3, <2>0, <3>3, <3>5, <3>6 DEF Flushed
    <3> QED
      BY <3>1, <3>7
  <2>2. CASE ~submit
    <3>1. f = Unscheduled(w) /\ wq = wqueue[w] /\ pend = pending
      BY <2>2
    <3> HIDE DEF submit, to, f, wq, pend
    <3>2. wqueue[w] \in Queues /\ flags[w] \cap {"QUEUED", "RUNNING"} # {}
      BY <1>1, <1>2, <1>4, <3>1, BusyQueue
    <3>3. \A v \in Works : Same(v)
      BY <1>1, <1>2, <2>0, <3>1 DEF Core, Same
    <3>4. Flushed(c, w, wqueue[w], pending[wqueue[w]])
      BY <1>2, <1>3, <2>0, <3>1, <3>2, <3>3 DEF Flushed
    <3> QED
      BY <3>2, <3>4
  <2> QED
    BY <2>1, <2>2
<1>5. CASE f \cap {"QUEUED", "RUNNING"} = {}
  <2>1. f = Unscheduled(w) /\ wq = wqueue[w]
    BY <1>5
  <2>2. flags' = [flags EXCEPT ![w] = f] /\ UNCHANGED <<pending, wpc, sem, cpc>>
    BY <1>5 DEF FlushDelayable
  <2> HIDE DEF submit, to, f, wq, pend
  <2>3. wqueue' = wqueue /\ flags'[w] = f /\ \A v \in Works : Same(v)
    BY <1>1, <1>2, <1>3, <2>1, <2>2 DEF Core, Same
  <2> QED
    BY <1>3, <1>5, <2>2, <2>3 DEF FlagsOnly, queueVars, clientVars
<1> QED
  BY <1>4, <1>5

\* A cancellation, by a client that waits or by one that does not.
Cancelled(w) ==
  /\ Withdrawn(w)
  /\ UNCHANGED clientVars \/ \E c \in Clients : cpc[c] = "idle" /\ CancelSyncLocked(c, w)

\* Every step is one of these.
LEMMA ShapeNext ==
  ASSUME IInv, [Next]_vars
  PROVE  \/ FlagsOnly
         \/ \E w \in Works, to \in Queues : Submitted(w, to)
         \/ \E w \in Works : Cancelled(w)
         \/ \E c \in Clients, w \in Works, q \in Queues :
              \E s \in {pending[q], Append(pending[q], w)} : Flushed(c, w, q, s)
         \/ QueueCalls
         \/ \E q \in Queues : Worker(q)
         \/ \E c \in Clients : SyncReturn(c)
<1>0. Core /\ RestType /\ PlainWorks \subseteq Works /\ DelayWorks \subseteq Works
      /\ NULL \in Callers
  BY IInvParts DEF Works, Callers
<1>1. CASE PlainCalls
  <2>1. PICK w \in PlainWorks :
          \/ \E caller \in Callers, q \in Callers : Submit(caller, q, w)
          \/ \E c \in Clients : Flush(c, w) \/ CancelSync(c, w)
          \/ Cancel(w)
    BY <1>1 DEF PlainCalls
  <2>2. w \in Works /\ flags[w] = flags[w] \ {"DELAYED"}
    BY <1>0 DEF Core, PlainNotDelayed
  <2>3. CASE \E caller \in Callers, q \in Callers : Submit(caller, q, w)
    BY <2>2, <2>3, ShapeSubmit DEF Submit
  <2>4. CASE \E c \in Clients : Flush(c, w)
    BY <2>2, <2>4, ShapeFlush
  <2>5. CASE Cancel(w) \/ \E c \in Clients : CancelSync(c, w)
    <3>1. Withdrawn(w)
      BY <2>2, <2>5, ShapeCancel DEF Cancel, CancelSync
    <3> QED
      BY <2>2, <2>5, <3>1 DEF Cancelled, Cancel, CancelSync
  <2> QED
    BY <2>1, <2>3, <2>4, <2>5
<1>2. CASE DelayCalls
  <2>1. PICK w \in DelayWorks :
          \/ \E caller \in Callers, q \in Callers, d \in Delays :
               Schedule(caller, q, w, d) \/ Reschedule(caller, q, w, d)
          \/ \E c \in Clients : FlushDelayable(c, w) \/ CancelDelayableSync(c, w)
          \/ CancelDelayable(w)
    BY <1>2 DEF DelayCalls
  <2>2. w \in Works
    BY <1>0
  <2>3. CASE \E caller \in Callers, q \in Callers, d \in Delays :
               Schedule(caller, q, w, d) \/ Reschedule(caller, q, w, d)
    <3>1. PICK caller \in Callers, q \in Callers, d \in Delays :
               Schedule(caller, q, w, d) \/ Reschedule(caller, q, w, d)
      BY <2>3
    <3>2. PICK f \in {flags[w], flags[w] \ {"DELAYED"}} :
               \/ SubmitLocked(w, q, caller, f)
               \/ /\ flags' = [flags EXCEPT ![w] = f \cup {"DELAYED"}]
                  /\ UNCHANGED <<wqueue, pending, wpc>>
      BY <3>1 DEF Schedule, Reschedule, ScheduleLocked, Unscheduled
    <3>3. UNCHANGED <<qflags, drainq, running, clientVars>>
      BY <3>1 DEF Schedule, Reschedule
    <3>4. CASE SubmitLocked(w, q, caller, f)
      BY <2>2, <3>3, <3>4, ShapeSubmit
    <3>5. CASE /\ flags' = [flags EXCEPT ![w] = f \cup {"DELAYED"}]
               /\ UNCHANGED <<wqueue, pending, wpc>>
      <4>1. \A v \in Works : Same(v)
        BY <1>0, <2>2, <3>5 DEF Core, Items, Same
      <4> QED
        BY <3>3, <3>5, <4>1 DEF FlagsOnly, queueVars
    <3> QED
      BY <3>2, <3>4, <3>5
  <2>4. CASE \E c \in Clients : FlushDelayable(c, w)
    BY <2>2, <2>4, ShapeFlushDelayable
  <2>5. CASE CancelDelayable(w) \/ \E c \in Clients : CancelDelayableSync(c, w)
    <3>1. Withdrawn(w)
      BY <2>2, <2>5, ShapeCancel DEF CancelDelayable, CancelDelayableSync, Unscheduled
    <3> QED
      BY <2>2, <2>5, <3>1 DEF Cancelled, CancelDelayable, CancelDelayableSync
  <2> QED
    BY <2>1, <2>3, <2>4, <2>5
<1>3. CASE WorkTimeout
  <2>1. firing \in DelayWorks /\ firing \in Works /\ dqueue[firing] \in Callers
    BY <1>0, <1>3 DEF WorkTimeout, RestType
  <2>2. CASE "DELAYED" \in flags[firing]
    BY <1>0, <1>3, <2>1, <2>2, ShapeSubmit DEF WorkTimeout, Unscheduled
  <2>3. CASE "DELAYED" \notin flags[firing]
    BY <1>3, <2>3 DEF WorkTimeout, FlagsOnly, Same, queueVars
  <2> QED
    BY <2>2, <2>3
<1>4. CASE UNCHANGED vars \/ \E w \in DelayWorks : TimeoutExpires(w)
  BY <1>4 DEF vars, stateVars, workVars, TimeoutExpires, FlagsOnly, Same
<1> QED
  BY <1>1, <1>2, <1>3, <1>4 DEF Next

(***************************************************************************)
(* Queue threads sleep, and plugged queues are quiet                       *)
(***************************************************************************)
Quiet == NoLostWakeup /\ PluggedIsQuiet

\* Nothing is added to a list, and no thread moves.
LEMMA QuietSame ==
  ASSUME Quiet, qflags' = qflags, running' = running, wpc' = wpc,
         \A q \in Queues : pending[q] = <<>> => pending'[q] = <<>>
  PROVE  Quiet'
BY DEF Quiet, NoLostWakeup, PluggedIsQuiet

\* What is put on a list wakes the queue's thread.
LEMMA QuietPut ==
  ASSUME IInv, Quiet, NEW q \in Queues, qflags' = qflags, running' = running,
         wpc' = Notified(q), \A r \in Queues : r # q => pending'[r] = pending[r],
         "PLUGGED" \in qflags[q] => "DRAIN" \in qflags[q]
  PROVE  Quiet'
<1>1. /\ wpc'[q] # "wait" /\ \A r \in Queues : r # q => wpc'[r] = wpc[r]
  BY DEF Notified, IInv, TypeOK
<1> QED
  BY <1>1 DEF Quiet, NoLostWakeup, PluggedIsQuiet

\* The queue of a busy item is not quiet.
LEMMA BusyNotQuiet ==
  ASSUME IInv, Quiet, NEW w \in Works, flags[w] \cap {"QUEUED", "RUNNING"} # {}
  PROVE  "PLUGGED" \in qflags[wqueue[w]] => "DRAIN" \in qflags[wqueue[w]]
<1>0. Core /\ wqueue[w] \in Queues /\ w # NULL
  BY IInvParts, BusyQueue, WorkQAssumption DEF Works, Items
<1>1. CASE "QUEUED" \in flags[w]
  <2>1. IsIn(pending[wqueue[w]], w)
    BY <1>0, <1>1 DEF Core, QueuedIffPending
  <2>2. pending[wqueue[w]] # <<>>
    BY <2>1 DEF IsIn
  <2> QED
    BY <1>0, <2>2 DEF Quiet, PluggedIsQuiet
<1>2. CASE "RUNNING" \in flags[w]
  <2>1. running[wqueue[w]] = w
    BY <1>0, <1>2 DEF Core, NoReentrancy
  <2> QED
    BY <1>0, <2>1 DEF Quiet, PluggedIsQuiet
<1> QED
  BY <1>1, <1>2

\* Every step leaves the lists of sleeping and plugged queues quiet.
LEMMA QuietStep ==
  ASSUME IInv, Quiet, [Next]_vars
  PROVE  Quiet'
<1>0. Core
  BY IInvParts
<1>1. CASE FlagsOnly
  BY <1>1, QuietSame DEF FlagsOnly, queueVars
<1>2. CASE \E w \in Works, to \in Queues : Submitted(w, to)
  <2>1. PICK w \in Works, to \in Queues : Submitted(w, to)
    BY <1>2
  <2>2. \A r \in Queues : r # to => pending'[r] = pending[r]
    BY <1>0, <2>1 DEF Submitted, Core
  <2> QED
    BY <2>1, <2>2, QuietPut DEF Submitted, Queued
<1>3. CASE \E w \in Works : Cancelled(w)
  <2>1. PICK w \in Works : Cancelled(w)
    BY <1>3
  <2>2. UNCHANGED <<qflags, running, wpc>>
    BY <2>1 DEF Cancelled, Withdrawn
  <2>3. CASE "QUEUED" \in flags[w]
    <3>1. /\ wqueue[w] \in Queues
          /\ pending' = [pending EXCEPT ![wqueue[w]] = RemoveItem(@, w)]
      BY <2>1, <2>3 DEF Cancelled, Withdrawn
    <3>2. pending[wqueue[w]] # <<>>
      BY <1>0, <2>3, <3>1 DEF Core, QueuedIffPending, IsIn
    <3>3. \A q \in Queues : pending[q] = <<>> => pending'[q] = <<>>
      BY <1>0, <3>1, <3>2 DEF Core
    <3> QED
      BY <2>2, <3>3, QuietSame
  <2>4. CASE "QUEUED" \notin flags[w]
    BY <2>1, <2>2, <2>4, QuietSame DEF Cancelled, Withdrawn
  <2> QED
    BY <2>3, <2>4
<1>4. CASE \E c \in Clients, w \in Works, q \in Queues :
             \E s \in {pending[q], Append(pending[q], w)} : Flushed(c, w, q, s)
  <2>1. PICK c \in Clients, w \in Works, q \in Queues :
               \E s \in {pending[q], Append(pending[q], w)} : Flushed(c, w, q, s)
    BY <1>4
  <2>2. PICK s \in {pending[q], Append(pending[q], w)} : Flushed(c, w, q, s)
    BY <2>1
  <2>3. \A r \in Queues : r # q => pending'[r] = pending[r]
    BY <1>0, <2>2 DEF Flushed, Core
  <2>4. "PLUGGED" \in qflags[q] => "DRAIN" \in qflags[q]
    BY <2>2, BusyNotQuiet DEF Flushed, Queued
  <2>5. qflags' = qflags /\ running' = running /\ wpc' = Notified(q)
    BY <2>2 DEF Flushed
  <2> QED
    BY <2>3, <2>4, <2>5, QuietPut
<1>5. CASE \E q \in Queues : QueueStart(q) \/ Unplug(q)
  <2>1. PICK q \in Queues : QueueStart(q) \/ Unplug(q)
    BY <1>5
  <2>2. CASE QueueStart(q)
    BY <1>0, <2>2 DEF QueueStart, Core, Quiet, NoLostWakeup, PluggedIsQuiet
  <2>3. CASE Unplug(q)
    BY <1>0, <2>3 DEF Unplug, Core, Quiet, NoLostWakeup, PluggedIsQuiet
  <2> QED
    BY <2>1, <2>2, <2>3
<1>6. CASE \E q \in Queues, c \in Clients, plug \in BOOLEAN : Drain(c, q, plug)
  <2>1. PICK q \in Queues, c \in Clients, plug \in BOOLEAN : Drain(c, q, plug)
    BY <1>6
  <2>2. /\ "DRAIN" \in qflags'[q] /\ wpc'[q] # "wait"
        /\ \A r \in Queues : r # q => qflags'[r] = qflags[r] /\ wpc'[r] = wpc[r]
        /\ pending' = pending /\ running' = running
    BY <1>0, <2>1 DEF Drain, Core, Notified
  <2> QED
    BY <2>2 DEF Quiet, NoLostWakeup, PluggedIsQuiet
<1>7. CASE \E q \in Queues : WorkerTake(q)
  <2>1. PICK q \in Queues : WorkerTake(q)
    BY <1>7
  <2>2. /\ pending[q] # <<>> /\ wpc'[q] # "wait"
        /\ \A r \in Queues : /\ r # q => /\ wpc'[r] = wpc[r] /\ pending'[r] = pending[r]
                                         /\ running'[r] = running[r]
                             /\ "PLUGGED" \in qflags'[r] <=> "PLUGGED" \in qflags[r]
                             /\ "DRAIN" \in qflags'[r] <=> "DRAIN" \in qflags[r]
    BY <1>0, <2>1 DEF WorkerTake, Core
  <2> QED
    BY <2>2 DEF Quiet, NoLostWakeup, PluggedIsQuiet
<1>8. CASE \E q \in Queues : WorkerSleep(q)
  <2>1. PICK q \in Queues : WorkerSleep(q)
    BY <1>8
  <2>2. /\ pending[q] = <<>> /\ running[q] = NULL /\ "DRAIN" \notin qflags'[q]
        /\ pending' = pending /\ running' = running
        /\ \A r \in Queues : r # q => wpc'[r] = wpc[r] /\ qflags'[r] = qflags[r]
    BY <1>0, <2>1 DEF WorkerSleep, Core, WorkerState
  <2> QED
    BY <2>2 DEF Quiet, NoLostWakeup, PluggedIsQuiet
<1>9. CASE \E q \in Queues : FlushHandler(q) \/ WorkerFinish(q)
  <2>1. PICK q \in Queues : FlushHandler(q) \/ WorkerFinish(q)
    BY <1>9
  <2>2. /\ pending' = pending /\ wpc'[q] # "wait" /\ running[q] # NULL
        /\ \A r \in Queues : /\ r # q => wpc'[r] = wpc[r] /\ running'[r] = running[r]
                             /\ "PLUGGED" \in qflags'[r] <=> "PLUGGED" \in qflags[r]
                             /\ "DRAIN" \in qflags'[r] <=> "DRAIN" \in qflags[r]
    BY <1>0, <2>1 DEF FlushHandler, WorkerFinish, Core, WorkerState
  <2> QED
    BY <2>2 DEF Quiet, NoLostWakeup, PluggedIsQuiet
<1>10. CASE \E c \in Clients : SyncReturn(c)
  BY <1>10, QuietSame DEF SyncReturn, queueVars
<1> QED
  BY <1>1, <1>2, <1>3, <1>4, <1>5, <1>6, <1>7, <1>8, <1>9, <1>10, ShapeNext DEF QueueCalls, Worker

(***************************************************************************)
(* Every waiter is in its place                                            *)
(***************************************************************************)
\* The parts of WaitersPlaced, for one client, and the records of cancellers.
FlushPlaced(c) ==
  /\ cpc[c] = "flush" /\ sem[c] = 0 <=> \E q \in Queues : FlusherIn(c, q)
  /\ \A q \in Queues :
       /\ Once(pending[q], c)
       /\ FlusherIn(c, q) => \A r \in Queues : FlusherIn(c, r) => r = q
       /\ IsIn(pending[q], c) => ~(running[q] = c /\ wpc[q] = "handler")

DrainPlaced(c) ==
  \A q \in Queues :
    c \in drainq[q] => cpc[c] = "drain" /\ \A r \in Queues : c \in drainq[r] => r = q

CancelPlaced ==
  /\ CancellerIsRecorded
  /\ \A c \in Clients : \A v, w \in Works : {<<c, v>>, <<c, w>>} \subseteq pending_cancels => v = w

Placed == CancelPlaced /\ \A c \in Clients : FlushPlaced(c) /\ DrainPlaced(c)

\* The invariant of the waiting clients, client by client.
LEMMA PlacedParts ==
  /\ CancellerIsRecorded /\ WaitersPlaced <=> Placed
  /\ (CancellerIsRecorded /\ WaitersPlaced)' <=> Placed'
<1>1. CancellerIsRecorded /\ WaitersPlaced <=> Placed
  BY DEF WaitersPlaced, Placed, FlushPlaced, DrainPlaced, CancelPlaced
<1> QED
  BY <1>1, PTL

\* The client waits for its flusher as before, and its flusher is where it was.
FlushKept(c) ==
  /\ cpc'[c] = "flush" /\ sem'[c] = 0 <=> cpc[c] = "flush" /\ sem[c] = 0
  /\ \A q \in Queues :
       /\ IsIn(pending'[q], c) <=> IsIn(pending[q], c)
       /\ Once(pending[q], c) => Once(pending'[q], c)
       /\ running'[q] = c /\ wpc'[q] = "handler" <=> running[q] = c /\ wpc[q] = "handler"

\* Steps that leave a flusher where it is,
LEMMA FlushSame ==
  ASSUME NEW c \in Clients, FlushPlaced(c), FlushKept(c)
  PROVE  FlushPlaced(c)'
<1>1. \A q \in Queues : FlusherIn(c, q)' <=> FlusherIn(c, q)
  BY DEF FlusherIn, FlushKept
<1> QED
  BY <1>1 DEF FlushPlaced, FlushKept

\* a drainer,
LEMMA DrainSame ==
  ASSUME NEW c \in Clients, DrainPlaced(c), drainq' = drainq, cpc[c] = "drain" => cpc'[c] = "drain"
  PROVE  DrainPlaced(c)'
BY DEF DrainPlaced

\* and a canceller.
LEMMA CancelSame ==
  ASSUME IInv, CancelPlaced, pending_cancels' = pending_cancels,
         \A c \in Clients : cpc'[c] = "cancel" /\ sem'[c] = 0 <=> cpc[c] = "cancel" /\ sem[c] = 0,
         \A w \in Works : "CANCELING" \in flags[w] => "CANCELING" \in flags'[w]
  PROVE  CancelPlaced'
<1>1. \A p \in pending_cancels : p[2] \in Works
  BY DEF IInv, TypeOK
<1> QED
  BY <1>1 DEF CancelPlaced, CancellerIsRecorded

\* A step that leaves the clients alone, and their flushers where they are.
LEMMA PlacedSame ==
  ASSUME IInv, Placed, UNCHANGED <<drainq, clientVars>>, \A c \in Clients : FlushKept(c),
         \A w \in Works : "CANCELING" \in flags[w] => "CANCELING" \in flags'[w]
  PROVE  Placed'
<1>1. drainq' = drainq /\ pending_cancels' = pending_cancels /\ sem' = sem /\ cpc' = cpc
  BY DEF clientVars
<1>2. CancelPlaced'
  BY <1>1, CancelSame DEF Placed
<1>3. \A c \in Clients : FlushPlaced(c)'
  BY FlushSame DEF Placed
<1>4. \A c \in Clients : DrainPlaced(c)'
  BY <1>1, DrainSame DEF Placed
<1> QED
  BY <1>2, <1>3, <1>4 DEF Placed

\* Lists of items change; the flushers on them stay.
LEMMA ListsKept ==
  ASSUME IInv, NEW q \in Queues, NEW s \in Seq(Items), pending' = [pending EXCEPT ![q] = s],
         NEW c \in Clients, IsIn(s, c) <=> IsIn(pending[q], c),
         Once(pending[q], c) => Once(s, c)
  PROVE  \A r \in Queues : /\ IsIn(pending'[r], c) <=> IsIn(pending[r], c)
                           /\ Once(pending[r], c) => Once(pending'[r], c)
<1>1. \A r \in Queues : pending'[r] = IF r = q THEN s ELSE pending[r]
  BY DEF IInv, TypeOK
<1> QED
  BY <1>1

\* The wake-up of a queue's thread does not touch a handler.
LEMMA NotifiedKept ==
  ASSUME IInv, NEW q \in Queues, wpc' = Notified(q)
  PROVE  \A r \in Queues : wpc'[r] = "handler" <=> wpc[r] = "handler"
BY DEF Notified, IInv, TypeOK

\* An item is put on a list.
LEMMA PlacedSubmitted ==
  ASSUME IInv, Placed, NEW w \in Works, NEW to \in Queues, Submitted(w, to)
  PROVE  Placed'
<1>0. w \in Items /\ pending[to] \in Seq(Items) /\ \A c \in Clients : c # w
  BY WorkQAssumption DEF Items, IInv, TypeOK
<1>1. \A c \in Clients : FlushKept(c)
  <2> SUFFICES ASSUME NEW c \in Clients PROVE FlushKept(c)
    OBVIOUS
  <2> DEFINE s == Append(pending[to], w)
  <2>1. /\ s \in Seq(Items) /\ (IsIn(s, c) <=> IsIn(pending[to], c))
        /\ Once(pending[to], c) => Once(s, c)
    BY <1>0, AppendFacts
  <2>2. pending' = [pending EXCEPT ![to] = s]
    BY DEF Submitted
  <2> HIDE DEF s
  <2>3. \A r \in Queues : /\ IsIn(pending'[r], c) <=> IsIn(pending[r], c)
                          /\ Once(pending[r], c) => Once(pending'[r], c)
    BY <2>1, <2>2, ListsKept
  <2> QED
    BY <2>3, NotifiedKept DEF Submitted, FlushKept, clientVars
<1>2. \A v \in Works : "CANCELING" \in flags[v] => "CANCELING" \in flags'[v]
  BY DEF Submitted, Queued, Same
<1> QED
  BY <1>1, <1>2, PlacedSame DEF Submitted

\* Taking an item out leaves the flushers, those behind it included.
LEMMA WithdrawnKept ==
  ASSUME IInv, NEW w \in Works, Withdrawn(w), NEW c \in Clients
  PROVE  \A r \in Queues : /\ IsIn(pending'[r], c) <=> IsIn(pending[r], c)
                           /\ Once(pending[r], c) => Once(pending'[r], c)
<1>1. CASE "QUEUED" \in flags[w]
  <2> DEFINE q == wqueue[w]
             s == RemoveItem(pending[q], w)
  <2>1. q \in Queues /\ pending' = [pending EXCEPT ![q] = s] /\ c # w
    BY <1>1, WorkQAssumption DEF Withdrawn
  <2>2. pending[q] \in Seq(Items) /\ IsIn(pending[q], w) /\ Once(pending[q], w)
    BY <1>1, <2>1 DEF IInv, TypeOK, QueuedIffPending
  <2>3. /\ s \in Seq(Items) /\ (IsIn(s, c) <=> IsIn(pending[q], c))
        /\ Once(pending[q], c) => Once(s, c)
    BY <2>1, <2>2, RemoveFacts
  <2> HIDE DEF q, s
  <2> QED
    BY <2>1, <2>3, ListsKept
<1>2. CASE "QUEUED" \notin flags[w]
  BY <1>2 DEF Withdrawn
<1> QED
  BY <1>1, <1>2

\* An item is cancelled, and the caller may begin to wait.
LEMMA PlacedCancelled ==
  ASSUME IInv, Placed, NEW w \in Works, Cancelled(w)
  PROVE  Placed'
<1>1. /\ Withdrawn(w) /\ UNCHANGED <<drainq, running, wpc>>
      /\ \A v \in Works : "CANCELING" \in flags[v] => "CANCELING" \in flags'[v]
  BY DEF Cancelled, Withdrawn, Same
<1>2. CASE UNCHANGED clientVars
  <2>1. \A c \in Clients : FlushKept(c)
    BY <1>1, <1>2, WithdrawnKept DEF FlushKept, clientVars
  <2> QED
    BY <1>1, <1>2, <2>1, PlacedSame
<1>3. ASSUME NEW c \in Clients, cpc[c] = "idle", "CANCELING" \in flags'[w],
             pending_cancels' = pending_cancels \cup {<<c, w>>},
             sem' = [sem EXCEPT ![c] = 0],
             cpc' = [cpc EXCEPT ![c] = "cancel"]
      PROVE  Placed'
  <2>1. /\ cpc'[c] = "cancel" /\ sem'[c] = 0
        /\ \A d \in Clients : d # c => cpc'[d] = cpc[d] /\ sem'[d] = sem[d]
    BY <1>3 DEF IInv, TypeOK
  <2>2. \A d \in Clients : FlushKept(d)
    BY <1>1, <1>3, <2>1, WithdrawnKept DEF FlushKept
  <2>3. \A d \in Clients : FlushPlaced(d)' /\ DrainPlaced(d)'
    BY <1>1, <1>3, <2>1, <2>2, FlushSame, DrainSame DEF Placed
  <2>4. CancelPlaced'
    <3>1. /\ \A v \in Works : <<c, v>> \notin pending_cancels
          /\ \A p \in pending_cancels : "CANCELING" \in flags[p[2]] /\ p[2] \in Works
      BY <1>3 DEF Placed, CancelPlaced, CancellerIsRecorded, IInv, TypeOK
    <3>2. \A p \in pending_cancels' : "CANCELING" \in flags'[p[2]]
      BY <1>1, <1>3, <3>1
    <3>3. \A d \in Clients : cpc'[d] = "cancel" /\ sem'[d] = 0 <=>
                             \E v \in Works : <<d, v>> \in pending_cancels'
      <4> SUFFICES ASSUME NEW d \in Clients
                   PROVE  cpc'[d] = "cancel" /\ sem'[d] = 0 <=>
                          \E v \in Works : <<d, v>> \in pending_cancels'
        OBVIOUS
      <4>1. CASE d = c
        BY <1>3, <2>1, <4>1
      <4>2. CASE d # c
        <5>1. \A v \in Works : <<d, v>> \in pending_cancels' <=> <<d, v>> \in pending_cancels
          BY <1>3, <4>2
        <5> QED
          BY <2>1, <4>2, <5>1 DEF Placed, CancelPlaced, CancellerIsRecorded
      <4> QED
        BY <4>1, <4>2
    <3>4. \A d \in Clients : \A u, v \in Works :
            {<<d, u>>, <<d, v>>} \subseteq pending_cancels' => u = v
      <4> SUFFICES ASSUME NEW d \in Clients, NEW u \in Works, NEW v \in Works,
                          <<d, u>> \in pending_cancels', <<d, v>> \in pending_cancels'
                   PROVE  u = v
        OBVIOUS
      <4>1. CASE d = c
        BY <1>3, <3>1, <4>1
      <4>2. CASE d # c
        BY <1>3, <4>2 DEF Placed, CancelPlaced
      <4> QED
        BY <4>1, <4>2
    <3> QED
      BY <3>2, <3>3, <3>4 DEF CancelPlaced, CancellerIsRecorded
  <2> QED
    BY <2>3, <2>4 DEF Placed
<1> QED
  BY <1>2, <1>3 DEF Cancelled, CancelSyncLocked

\* A flusher is put behind its item, or in front.
LEMMA FlusherIsPut ==
  ASSUME NEW s \in Seq(Items), NEW w \in Works, NEW c \in Clients
  PROVE  LET r == FlusherQueued(s, w, c) IN
         /\ r \in Seq(Items) /\ IsIn(r, c)
         /\ \A d : d # c => (IsIn(r, d) <=> IsIn(s, d)) /\ (Once(s, d) => Once(r, d))
         /\ ~IsIn(s, c) => Once(r, c)
         /\ \A a, b : a # c /\ b # c => (Before(r, a, b) <=> Before(s, a, b))
         /\ IsIn(s, w) => Before(r, w, c)
<1>1. c \in Items /\ c # w
  BY WorkQAssumption DEF Items
<1>2. CASE IsIn(s, w)
  BY <1>1, <1>2, InsertFacts, InsertBefore DEF FlusherQueued
<1>3. CASE ~IsIn(s, w)
  BY <1>1, <1>3, PrependFacts, PrependBefore DEF FlusherQueued
<1> QED
  BY <1>2, <1>3

\* A flusher is queued, and its client begins to wait.
LEMMA PlacedFlushed ==
  ASSUME IInv, Placed, NEW c \in Clients, NEW w \in Works, NEW q \in Queues,
         NEW s \in {pending[q], Append(pending[q], w)}, Flushed(c, w, q, s)
  PROVE  Placed'
<1> DEFINE t == FlusherQueued(s, w, c)
<1>0. w \in Items /\ pending[q] \in Seq(Items) /\ \A d \in Clients : d # w
  BY WorkQAssumption DEF Items, IInv, TypeOK
<1>1. /\ s \in Seq(Items)
      /\ \A d \in Clients : /\ IsIn(s, d) <=> IsIn(pending[q], d)
                            /\ Once(pending[q], d) => Once(s, d)
  <2>1. CASE s = pending[q]
    BY <1>0, <2>1
  <2>2. CASE s = Append(pending[q], w)
    BY <1>0, <2>2, AppendFacts
  <2> QED
    BY <2>1, <2>2
<1>2. /\ t \in Seq(Items) /\ IsIn(t, c)
      /\ ~IsIn(s, c) => Once(t, c)
      /\ \A d \in Clients : d # c => /\ IsIn(t, d) <=> IsIn(s, d)
                                     /\ Once(s, d) => Once(t, d)
  BY <1>1, FlusherIsPut
<1>3. /\ cpc[c] = "idle" /\ pending' = [pending EXCEPT ![q] = t]
      /\ cpc'[c] = "flush" /\ sem'[c] = 0
      /\ \A d \in Clients : d # c => cpc'[d] = cpc[d] /\ sem'[d] = sem[d]
      /\ running' = running /\ drainq' = drainq /\ pending_cancels' = pending_cancels
  BY DEF Flushed, IInv, TypeOK
<1>4. \A r \in Queues : wpc'[r] = "handler" <=> wpc[r] = "handler"
  BY NotifiedKept DEF Flushed
<1> HIDE DEF t
<1>5. \A d \in Clients : d # c => FlushPlaced(d)'
  <2> SUFFICES ASSUME NEW d \in Clients, d # c PROVE FlushPlaced(d)'
    OBVIOUS
  <2>1. \A r \in Queues : /\ IsIn(pending'[r], d) <=> IsIn(pending[r], d)
                          /\ Once(pending[r], d) => Once(pending'[r], d)
    BY <1>1, <1>2, <1>3, ListsKept
  <2>2. FlushKept(d)
    BY <1>3, <1>4, <2>1 DEF FlushKept
  <2> QED
    BY <2>2, FlushSame DEF Placed
<1>6. FlushPlaced(c)'
  <2>1. \A r \in Queues : ~FlusherIn(c, r) /\ Once(pending[r], c)
    BY <1>3 DEF Placed, FlushPlaced
  <2>2. \A r \in Queues : pending'[r] = IF r = q THEN t ELSE pending[r]
    BY <1>3 DEF IInv, TypeOK
  <2>3. \A r \in Queues : ~(running'[r] = c /\ wpc'[r] = "handler")
    BY <1>3, <1>4, <2>1 DEF FlusherIn
  <2>4. \A r \in Queues : IsIn(pending'[r], c) <=> r = q
    BY <1>2, <2>1, <2>2 DEF FlusherIn
  <2>5. \A r \in Queues : Once(pending'[r], c)
    BY <1>1, <1>2, <2>1, <2>2 DEF FlusherIn
  <2>6. \A r \in Queues : FlusherIn(c, r)' <=> r = q
    BY <2>3, <2>4 DEF FlusherIn
  <2> QED
    BY <1>3, <2>3, <2>5, <2>6 DEF FlushPlaced
<1>7. \A d \in Clients : DrainPlaced(d)'
  BY <1>3, DrainSame DEF Placed
<1>8. CancelPlaced'
  <2>1. \A v \in Works : "CANCELING" \in flags[v] => "CANCELING" \in flags'[v]
    BY DEF Flushed, Queued, Same
  <2>2. \A d \in Clients : cpc'[d] = "cancel" /\ sem'[d] = 0 <=> cpc[d] = "cancel" /\ sem[d] = 0
    BY <1>3
  <2> QED
    BY <1>3, <2>1, <2>2, CancelSame DEF Placed
<1> QED
  BY <1>5, <1>6, <1>7, <1>8 DEF Placed

\* The calls on queues.
LEMMA PlacedQueueCalls ==
  ASSUME IInv, Placed, QueueCalls
  PROVE  Placed'
<1>1. ASSUME NEW q \in Queues, QueueStart(q) PROVE Placed'
  <2>1. wpc[q] = "off" /\ pending[q] = <<>>
    BY <1>1 DEF QueueStart, IInv, WorkerState
  <2>2. /\ pending' = pending /\ running' = running /\ UNCHANGED clientVars
        /\ \A r \in Queues : wpc'[r] = "handler" <=> wpc[r] = "handler"
        /\ drainq' = [drainq EXCEPT ![q] = {}] /\ flags' = flags
    BY <1>1, <2>1 DEF QueueStart, IInv, TypeOK, workVars
  <2>3. \A c \in Clients : FlushKept(c)
    BY <2>2 DEF FlushKept, clientVars
  <2>4. \A c \in Clients : FlushPlaced(c)'
    BY <2>3, FlushSame DEF Placed
  <2>5. \A c \in Clients : DrainPlaced(c)'
    BY <2>2 DEF Placed, DrainPlaced, clientVars, IInv, TypeOK
  <2>6. CancelPlaced'
    BY <2>2, CancelSame DEF Placed, clientVars
  <2> QED
    BY <2>4, <2>5, <2>6 DEF Placed
<1>2. ASSUME NEW q \in Queues, Unplug(q) PROVE Placed'
  <2>1. \A c \in Clients : FlushKept(c)
    BY <1>2 DEF Unplug, FlushKept, clientVars
  <2> QED
    BY <1>2, <2>1, PlacedSame DEF Unplug, workVars
<1>3. ASSUME NEW q \in Queues, NEW c \in Clients, NEW plug \in BOOLEAN, Drain(c, q, plug)
      PROVE  Placed'
  <2>1. /\ cpc[c] = "idle" /\ cpc'[c] = "drain" /\ \A d \in Clients : d # c => cpc'[d] = cpc[d]
        /\ UNCHANGED <<flags, pending, running, pending_cancels, sem>>
        /\ wpc' = Notified(q)
        /\ drainq' = [drainq EXCEPT ![q] = @ \cup {c}]
    BY <1>3 DEF Drain, IInv, TypeOK, workVars
  <2>2. \A d \in Clients : FlushKept(d)
    BY <2>1, NotifiedKept DEF FlushKept
  <2>3. \A d \in Clients : FlushPlaced(d)'
    BY <2>2, FlushSame DEF Placed
  <2>4. \A d \in Clients : DrainPlaced(d)'
    <3>1. \A r \in Queues : c \notin drainq[r]
      BY <2>1 DEF Placed, DrainPlaced
    <3>2. \A r \in Queues : drainq'[r] = IF r = q THEN drainq[q] \cup {c} ELSE drainq[r]
      BY <2>1 DEF IInv, TypeOK
    <3> QED
      BY <2>1, <3>1, <3>2 DEF Placed, DrainPlaced
  <2>5. CancelPlaced'
    BY <2>1, CancelSame DEF Placed
  <2> QED
    BY <2>3, <2>4, <2>5 DEF Placed
<1> QED
  BY <1>1, <1>2, <1>3 DEF QueueCalls

\* The queue thread takes an item.
LEMMA PlacedTake ==
  ASSUME IInv, Placed, NEW q \in Queues, WorkerTake(q)
  PROVE  Placed'
<1> DEFINE i == Head(pending[q])
           t == Tail(pending[q])
<1>1. /\ wpc[q] = "loop" /\ pending[q] # <<>> /\ pending[q] \in Seq(Items)
      /\ pending' = [pending EXCEPT ![q] = t]
      /\ running' = [running EXCEPT ![q] = i] /\ wpc' = [wpc EXCEPT ![q] = "handler"]
      /\ flags' = [flags EXCEPT ![i] = (@ \cup {"RUNNING"}) \ {"QUEUED"}]
      /\ UNCHANGED <<drainq, clientVars>>
  BY DEF WorkerTake, IInv, TypeOK
<1>2. /\ i \in Items /\ t \in Seq(Items) /\ IsIn(pending[q], i)
      /\ \A y : Once(pending[q], y) => Once(t, y)
      /\ \A y : Once(pending[q], y) => (IsIn(t, y) <=> IsIn(pending[q], y) /\ y # i)
  BY <1>1, TailFacts
<1> HIDE DEF i, t
<1>3. \A r \in Queues : /\ pending'[r] = IF r = q THEN t ELSE pending[r]
                        /\ running'[r] = IF r = q THEN i ELSE running[r]
                        /\ wpc'[r] = IF r = q THEN "handler" ELSE wpc[r]
  BY <1>1 DEF IInv, TypeOK
<1>4. \A v \in Works : "CANCELING" \in flags[v] => "CANCELING" \in flags'[v]
  BY <1>1 DEF IInv, TypeOK, Items
<1>5. ASSUME NEW c \in Clients PROVE FlushPlaced(c)'
  <2>1. FlushPlaced(c) /\ cpc' = cpc /\ sem' = sem
    BY <1>1 DEF Placed, clientVars
  <2>2. \A r \in Queues : Once(pending[r], c) /\ Once(pending'[r], c)
    BY <1>2, <1>3, <2>1 DEF FlushPlaced
  <2>3. \A r \in Queues : FlusherIn(c, r)' <=> FlusherIn(c, r)
    BY <1>1, <1>2, <1>3, <2>2 DEF FlusherIn
  <2>4. \A r \in Queues : IsIn(pending'[r], c) => ~(running'[r] = c /\ wpc'[r] = "handler")
    BY <1>2, <1>3, <2>1, <2>2 DEF FlushPlaced
  <2> QED
    BY <2>1, <2>2, <2>3, <2>4 DEF FlushPlaced
<1>6. CancelPlaced' /\ \A c \in Clients : DrainPlaced(c)'
  BY <1>1, <1>4, CancelSame, DrainSame DEF Placed, clientVars
<1> QED
  BY <1>5, <1>6 DEF Placed

\* The queue thread finds its list empty, and drainers are woken.
LEMMA PlacedSleep ==
  ASSUME IInv, Placed, NEW q \in Queues, WorkerSleep(q)
  PROVE  Placed'
<1>1. /\ wpc[q] = "loop" /\ wpc' = [wpc EXCEPT ![q] = "wait"]
      /\ UNCHANGED <<flags, pending, running, pending_cancels, sem>>
  BY DEF WorkerSleep, workVars
<1>2. \A r \in Queues : wpc'[r] = "handler" <=> wpc[r] = "handler"
  BY <1>1 DEF IInv, TypeOK
<1>3. \/ /\ drainq' = [drainq EXCEPT ![q] = {}]
         /\ \A c \in Clients : cpc'[c] = IF c \in drainq[q] THEN "idle" ELSE cpc[c]
      \/ drainq' = drainq /\ cpc' = cpc
  <2>1. CASE "DRAIN" \in qflags[q]
    BY <2>1 DEF WorkerSleep, Drainers
  <2>2. CASE "DRAIN" \notin qflags[q]
    BY <2>2 DEF WorkerSleep
  <2> QED
    BY <2>1, <2>2
<1>4. ASSUME NEW c \in Clients
      PROVE  cpc'[c] = cpc[c] \/ (c \in drainq[q] /\ cpc[c] = "drain" /\ cpc'[c] = "idle")
  BY <1>3 DEF Placed, DrainPlaced
<1>5. \A c \in Clients : FlushKept(c)
  BY <1>1, <1>2, <1>4 DEF FlushKept
<1>6. \A c \in Clients : FlushPlaced(c)'
  BY <1>5, FlushSame DEF Placed
<1>7. CancelPlaced'
  BY <1>1, <1>4, CancelSame DEF Placed
<1>8. ASSUME NEW c \in Clients PROVE DrainPlaced(c)'
  <2>1. CASE drainq' = drainq /\ cpc' = cpc
    BY <2>1, DrainSame DEF Placed
  <2>2. CASE /\ drainq' = [drainq EXCEPT ![q] = {}]
             /\ \A d \in Clients : cpc'[d] = IF d \in drainq[q] THEN "idle" ELSE cpc[d]
    <3>1. \A r \in Queues : drainq'[r] = IF r = q THEN {} ELSE drainq[r]
      BY <2>2 DEF IInv, TypeOK
    <3>2. \A r \in Queues : c \in drainq'[r] => c \notin drainq[q] /\ c \in drainq[r]
      BY <3>1 DEF Placed, DrainPlaced
    <3> QED
      BY <2>2, <3>2 DEF Placed, DrainPlaced
  <2> QED
    BY <1>3, <2>1, <2>2
<1> QED
  BY <1>6, <1>7, <1>8 DEF Placed

\* A flusher is handled, and its client is woken.
LEMMA PlacedFlushHandler ==
  ASSUME IInv, Placed, NEW q \in Queues, FlushHandler(q)
  PROVE  Placed'
<1>1. PICK c \in Clients : running[q] = c
  BY DEF FlushHandler
<1>2. /\ c \in Clients /\ wpc[q] = "handler" /\ wpc' = [wpc EXCEPT ![q] = "flushed"]
      /\ sem' = [sem EXCEPT ![c] = 1]
      /\ UNCHANGED <<flags, pending, drainq, running, pending_cancels, cpc>>
  BY <1>1 DEF FlushHandler, workVars
<1>3. FlusherIn(c, q)
  BY <1>2, <1>1 DEF FlusherIn
<1>4. FlushPlaced(c) /\ cpc[c] = "flush"
  BY <1>2, <1>3 DEF Placed, FlushPlaced
<1>5. sem'[c] = 1 /\ \A d \in Clients : d # c => sem'[d] = sem[d]
  BY <1>2 DEF IInv, TypeOK
<1>6. \A r \in Queues : wpc'[r] = IF r = q THEN "flushed" ELSE wpc[r]
  BY <1>2 DEF IInv, TypeOK
<1>7. \A d \in Clients : d # c => FlushPlaced(d)'
  <2>1. \A d \in Clients : d # c => FlushKept(d)
    BY <1>2, <1>5, <1>6, <1>1 DEF FlushKept
  <2> QED
    BY <2>1, FlushSame DEF Placed
<1>8. FlushPlaced(c)'
  <2>1. ~IsIn(pending[q], c)
    BY <1>2, <1>4, <1>1 DEF FlushPlaced
  <2>2. \A r \in Queues : ~FlusherIn(c, r)'
    BY <1>2, <1>3, <1>4, <1>6, <1>1, <2>1 DEF FlusherIn, FlushPlaced
  <2> QED
    BY <1>2, <1>4, <1>5, <2>2 DEF FlushPlaced, FlusherIn
<1>9. CancelPlaced'
  BY <1>2, <1>4, <1>5, CancelSame DEF Placed
<1>10. \A d \in Clients : DrainPlaced(d)'
  BY <1>2, DrainSame DEF Placed
<1> QED
  BY <1>7, <1>8, <1>9, <1>10 DEF Placed

\* A handler returns, and cancellers are woken.
LEMMA PlacedFinish ==
  ASSUME IInv, Placed, NEW q \in Queues, WorkerFinish(q)
  PROVE  Placed'
<1> DEFINE i == running[q]
<1>1. /\ wpc[q] = "flushed" \/ (wpc[q] = "handler" /\ i \in Works)
      /\ flags' = [flags EXCEPT ![i] = @ \ {"RUNNING", "CANCELING"}]
      /\ pending_cancels' = pending_cancels \ {<<c, i>> : c \in Cancelers(i)}
      /\ sem' = [c \in Clients |-> IF c \in Cancelers(i) THEN 1 ELSE sem[c]]
      /\ running' = [running EXCEPT ![q] = NULL] /\ wpc' = [wpc EXCEPT ![q] = "loop"]
      /\ UNCHANGED <<pending, drainq, cpc>>
  BY DEF WorkerFinish
<1> HIDE DEF i
<1>2. running[q] = i
  BY DEF i
<1>3. \A c \in Clients : <<c, i>> \in pending_cancels <=> c \in Cancelers(i)
  BY DEF Placed, CancelPlaced, CancellerIsRecorded, Cancelers
<1>4. \A c \in Clients, w \in Works :
        <<c, w>> \in pending_cancels' <=> <<c, w>> \in pending_cancels /\ w # i
  BY <1>1, <1>3
<1>5. \A c \in Clients : c \in Cancelers(i) => cpc[c] = "cancel" /\ i \in Works
  <2> SUFFICES ASSUME NEW c \in Clients, <<c, i>> \in pending_cancels
               PROVE  cpc[c] = "cancel" /\ i \in Works
    BY <1>3
  <2>1. i \in Works
    BY DEF IInv, TypeOK
  <2> QED
    BY <2>1 DEF Placed, CancelPlaced, CancellerIsRecorded
<1>6. \A c \in Clients : FlushKept(c)
  <2>1. \A c \in Clients : cpc'[c] = "flush" /\ sem'[c] = 0 <=> cpc[c] = "flush" /\ sem[c] = 0
    BY <1>1, <1>5
  <2>2. \A c \in Clients, r \in Queues :
          running'[r] = c /\ wpc'[r] = "handler" <=> running[r] = c /\ wpc[r] = "handler"
    BY <1>1, <1>2, WorkQAssumption DEF IInv, TypeOK
  <2> QED
    BY <1>1, <2>1, <2>2 DEF FlushKept
<1>7. CancelPlaced'
  <2>1. ASSUME NEW p \in pending_cancels' PROVE "CANCELING" \in flags'[p[2]]
    <3>1. PICK c \in Clients, w \in Works : p = <<c, w>>
      BY <1>1, <2>1 DEF IInv, TypeOK
    <3>2. <<c, w>> \in pending_cancels /\ w # i /\ p[2] = w
      BY <1>4, <2>1, <3>1
    <3>3. flags'[w] = flags[w] /\ "CANCELING" \in flags[w]
      BY <1>1, <3>2 DEF IInv, TypeOK, Items, Placed, CancelPlaced, CancellerIsRecorded
    <3> QED
      BY <3>2, <3>3
  <2>2. ASSUME NEW c \in Clients
        PROVE  cpc'[c] = "cancel" /\ sem'[c] = 0 <=> \E w \in Works : <<c, w>> \in pending_cancels'
    <3>1. CASE c \in Cancelers(i)
      <4>1. <<c, i>> \in pending_cancels /\ i \in Works /\ sem'[c] = 1
        BY <1>1, <1>3, <1>5, <3>1
      <4>2. \A w \in Works : <<c, w>> \in pending_cancels => w = i
        BY <4>1 DEF Placed, CancelPlaced
      <4>3. \A w \in Works : <<c, w>> \notin pending_cancels'
        BY <1>4, <4>2
      <4>4. sem'[c] # 0
        BY <4>1
      <4>5. ~\E w \in Works : <<c, w>> \in pending_cancels'
        BY <4>3
      <4> QED
        BY <4>4, <4>5
    <3>2. CASE c \notin Cancelers(i)
      BY <1>1, <1>3, <1>4, <3>2 DEF Placed, CancelPlaced, CancellerIsRecorded
    <3> QED
      BY <3>1, <3>2
  <2>3. \A c \in Clients : \A v, w \in Works :
          {<<c, v>>, <<c, w>>} \subseteq pending_cancels' => v = w
    BY <1>4 DEF Placed, CancelPlaced
  <2> QED
    BY <2>1, <2>2, <2>3 DEF CancelPlaced, CancellerIsRecorded
<1>8. \A c \in Clients : FlushPlaced(c)' /\ DrainPlaced(c)'
  BY <1>1, <1>6, FlushSame, DrainSame DEF Placed
<1> QED
  BY <1>7, <1>8 DEF Placed

\* Every step leaves each waiting client where its wakeup will come from.
LEMMA PlacedStep ==
  ASSUME IInv, Placed, [Next]_vars
  PROVE  Placed'
<1>1. CASE FlagsOnly
  <2>1. \A c \in Clients : FlushKept(c)
    BY <1>1 DEF FlagsOnly, FlushKept, queueVars, clientVars
  <2> QED
    BY <1>1, <2>1, PlacedSame DEF FlagsOnly, queueVars, Same
<1>2. CASE \E c \in Clients : SyncReturn(c)
  <2>1. PICK c \in Clients : SyncReturn(c)
    BY <1>2
  <2>2. /\ cpc[c] # "drain" /\ sem[c] = 1 /\ cpc'[c] = "idle"
        /\ \A d \in Clients : d # c => cpc'[d] = cpc[d] /\ sem'[d] = sem[d]
        /\ UNCHANGED <<flags, pending, drainq, running, wpc, pending_cancels>>
    BY <2>1 DEF SyncReturn, IInv, TypeOK, workVars, queueVars
  <2>3. \A d \in Clients : FlushKept(d)
    BY <2>2 DEF FlushKept
  <2>4. \A d \in Clients : FlushPlaced(d)' /\ DrainPlaced(d)'
    BY <2>2, <2>3, FlushSame, DrainSame DEF Placed
  <2>5. CancelPlaced'
    BY <2>2, CancelSame DEF Placed
  <2> QED
    BY <2>4, <2>5 DEF Placed
<1> QED
  BY <1>1, <1>2, ShapeNext, PlacedSubmitted, PlacedCancelled, PlacedFlushed, PlacedQueueCalls,
     PlacedTake, PlacedSleep, PlacedFlushHandler, PlacedFinish DEF Worker

\* Nobody waits at first.
LEMMA WaitersInit == Init => WaitersInv
<1> SUFFICES ASSUME Init PROVE WaitersInv
  OBVIOUS
<1>1. \A c \in Clients, q \in Queues :
        ~FlusherIn(c, q) /\ ~IsIn(pending[q], c) /\ Once(pending[q], c)
  BY DEF Init, FlusherIn, IsIn, Once
<1>2. WaitersPlaced
  BY <1>1 DEF Init, WaitersPlaced
<1> QED
  BY <1>2 DEF Init, WaitersInv, CancellerIsRecorded, NoLostWakeup, PluggedIsQuiet

\* Every step keeps the invariant of those who wait.
LEMMA WaitersStep == IInv /\ WaitersInv /\ [Next]_vars => WaitersInv'
<1> SUFFICES ASSUME IInv, WaitersInv, [Next]_vars PROVE WaitersInv'
  OBVIOUS
<1>1. Placed' /\ Quiet'
  BY PlacedParts, PlacedStep, QuietStep DEF WaitersInv, Quiet
<1> QED
  BY <1>1, PlacedParts DEF WaitersInv, Quiet

\* Whoever waits is where its wake-up will look for it, queue threads sleep
\* only with nothing to do, and a drained plugged queue is quiet: whatever
\* flushes, cancellations, drains, submissions and handlers interleave.
THEOREM NobodyIsForgotten == Spec => []WaitersInv
BY WaitersInit, WaitersStep, Invariance, PTL DEF Spec

(***************************************************************************)
(* A delayed item has a timeout                                            *)
(***************************************************************************)
\* DelayedHasTimeout made inductive: where no other code runs in between, the
\* timeout whose callback is due is not linked.
Timers ==
  /\ "FOREVER" \notin Delays =>
       \A w \in DelayWorks : "DELAYED" \in flags[w] => linked[w] \/ firing = w
  /\ ~timeout_gap =>
       /\ \A w \in DelayWorks : linked[w] => "DELAYED" \in flags[w]
       /\ \A w \in DelayWorks : firing = w => ~linked[w]

\* The step leaves the timeouts and the DELAYED flags alone.
LEMMA TimersKept ==
  ASSUME Timers, linked' = linked, firing' = firing, timeout_gap' = timeout_gap,
         \A v \in DelayWorks : "DELAYED" \in flags'[v] <=> "DELAYED" \in flags[v]
  PROVE  Timers'
BY DEF Timers

\* The step settles the timeout of w and leaves those of the others alone.
LEMMA TimerSettled ==
  ASSUME Timers, NoCallback, firing' = firing, timeout_gap' = timeout_gap, NEW w \in DelayWorks,
         "FOREVER" \notin Delays /\ "DELAYED" \in flags'[w] => linked'[w],
         ~timeout_gap /\ linked'[w] => "DELAYED" \in flags'[w],
         \A v \in DelayWorks : v # w => flags'[v] = flags[v] /\ linked'[v] = linked[v]
  PROVE  Timers'
BY WorkQAssumption DEF Timers, NoCallback, Items, Works

\* unschedule_locked() touches no other timeout.
LEMMA UnlinkedOthers ==
  ASSUME IInv, NEW w \in DelayWorks
  PROVE  /\ Unlinked(w) \in [DelayWorks -> BOOLEAN]
         /\ \A v \in DelayWorks : v # w => Unlinked(w)[v] = linked[v]
         /\ Timers /\ ~timeout_gap => ~Unlinked(w)[w]
BY DEF Unlinked, IInv, TypeOK, Timers

\* Scheduling adds a timeout, or submits at once.
LEMMA TimerSchedule ==
  ASSUME IInv, Timers, NoCallback, timeout_gap' = timeout_gap,
         NEW w \in DelayWorks, NEW q \in Callers, NEW caller \in Callers, NEW d \in Delays,
         NEW f \in SUBSET WorkFlags, "DELAYED" \notin f,
         NEW tl \in [DelayWorks -> BOOLEAN], \A v \in DelayWorks : v # w => tl[v] = linked[v],
         ~timeout_gap => ~tl[w],
         ScheduleLocked(caller, q, w, d, f, tl), firing' = firing
  PROVE  Timers'
<1>0. w \in Items /\ flags \in [Items -> SUBSET WorkFlags] /\ \A v \in DelayWorks : v \in Items
  BY DEF IInv, TypeOK, Items, Works
<1>1. CASE d = "NO_WAIT"
  <2>1. linked' = tl /\ SubmitLocked(w, q, caller, f)
    BY <1>1 DEF ScheduleLocked
  <2>2. \E g \in {f, f \cup {"QUEUED"}} : flags' = [flags EXCEPT ![w] = g]
    BY <2>1 DEF SubmitLocked
  <2> QED
    BY <1>0, <2>1, <2>2, TimerSettled
<1>2. CASE d # "NO_WAIT"
  <2>1. "FOREVER" \notin Delays => d = "TICKS"
    BY <1>2, WorkQAssumption
  <2>2. /\ flags' = [flags EXCEPT ![w] = f \cup {"DELAYED"}]
        /\ linked' = [tl EXCEPT ![w] = TRUE] \/ (linked' = tl /\ d = "FOREVER")
    BY <1>2 DEF ScheduleLocked
  <2> QED
    BY <1>0, <2>1, <2>2, TimerSettled
<1> QED
  BY <1>1, <1>2

\* Cancelling or flushing clears DELAYED.
LEMMA TimerCancel ==
  ASSUME IInv, Timers, NEW w \in DelayWorks, CancelAsyncLocked(w, Unscheduled(w)),
         NoCallback, timeout_gap' = timeout_gap, linked' = Unlinked(w), firing' = firing
  PROVE  Timers'
<1>1. flags \in [Items -> SUBSET WorkFlags] /\ \A v \in DelayWorks : v \in Items
  BY DEF IInv, TypeOK, Items, Works
<1>2. "DELAYED" \notin CancelledFlags(Unscheduled(w))
  BY DEF CancelledFlags, Unscheduled
<1>3. /\ "DELAYED" \notin flags'[w]
      /\ \A v \in DelayWorks : v # w => flags'[v] = flags[v]
  BY <1>1, <1>2 DEF CancelAsyncLocked
<1> QED
  BY <1>3, UnlinkedOthers, TimerSettled

\* A flush takes the timeout with the flag.
LEMMA TimerFlush ==
  ASSUME IInv, Timers, NEW w \in DelayWorks, NEW c \in Clients, FlushDelayable(c, w),
         timeout_gap' = timeout_gap
  PROVE  Timers'
<1>1. /\ flags \in [Items -> SUBSET WorkFlags] /\ c \in Items
      /\ \A v \in DelayWorks : v \in Items /\ v # c
  BY WorkQAssumption DEF IInv, TypeOK, Items, Works
<1>2. linked' = Unlinked(w) /\ firing' = firing /\ NoCallback
  BY DEF FlushDelayable
<1>3. PICK g \in {Unscheduled(w), Unscheduled(w) \cup {"QUEUED"}} :
        flags' = [flags EXCEPT ![w] = g, ![c] = {}] \/ flags' = [flags EXCEPT ![w] = g]
  BY DEF FlushDelayable
<1>4. /\ "DELAYED" \notin flags'[w]
      /\ \A v \in DelayWorks : v # w => flags'[v] = flags[v]
  BY <1>1, <1>3 DEF Unscheduled
<1> QED
  BY <1>2, <1>4, UnlinkedOthers, TimerSettled

\* Every step leaves a DELAYED item a timeout.
LEMMA TimerStep ==
  ASSUME IInv, Timers, [Next]_vars
  PROVE  Timers'
<1>g. timeout_gap' = timeout_gap
  BY DEF Next, vars
<1>0. /\ flags \in [Items -> SUBSET WorkFlags] /\ linked \in [DelayWorks -> BOOLEAN]
      /\ firing \in DelayWorks \cup {NULL} /\ NULL \notin Items
      /\ PlainWorks \cap DelayWorks = {} /\ Clients \cap DelayWorks = {}
      /\ \A v \in DelayWorks : v \in Items
  BY WorkQAssumption DEF IInv, TypeOK, Items, Works
<1>1. CASE PlainCalls
  <2>1. PICK w \in PlainWorks :
          \/ \E caller \in Callers, q \in Callers : Submit(caller, q, w)
          \/ \E c \in Clients : Flush(c, w) \/ CancelSync(c, w)
          \/ Cancel(w)
    BY <1>1 DEF PlainCalls
  <2>2. /\ linked' = linked /\ firing' = firing
        /\ \A v \in DelayWorks : flags'[v] = flags[v]
    BY <1>0, <2>1 DEF Submit, SubmitLocked, Flush, CancelSync, Cancel, CancelAsyncLocked, timerVars
  <2> QED
    BY <2>2, <1>g, TimersKept
<1>2. CASE DelayCalls
  <2>1. ASSUME NEW w \in DelayWorks, NEW caller \in Callers, NEW q \in Callers, NEW d \in Delays,
               Schedule(caller, q, w, d)
        PROVE  Timers'
    BY <1>0, <2>1, <1>g, TimerSchedule DEF Schedule, Timers
  <2>2. ASSUME NEW w \in DelayWorks, NEW caller \in Callers, NEW q \in Callers, NEW d \in Delays,
               Reschedule(caller, q, w, d)
        PROVE  Timers'
    <3>1. Unscheduled(w) \in SUBSET WorkFlags /\ "DELAYED" \notin Unscheduled(w)
      BY <1>0 DEF Unscheduled
    <3> QED
      BY <2>2, <3>1, UnlinkedOthers, <1>g, TimerSchedule DEF Reschedule
  <2>3. ASSUME NEW w \in DelayWorks, NEW c \in Clients, FlushDelayable(c, w)
        PROVE  Timers'
    BY <2>3, <1>g, TimerFlush
  <2>4. ASSUME NEW w \in DelayWorks, NEW c \in Clients, CancelDelayableSync(c, w)
        PROVE  Timers'
    BY <2>4, <1>g, TimerCancel DEF CancelDelayableSync
  <2>5. ASSUME NEW w \in DelayWorks, CancelDelayable(w)
        PROVE  Timers'
    BY <2>5, <1>g, TimerCancel DEF CancelDelayable
  <2> QED
    BY <1>2, <2>1, <2>2, <2>3, <2>4, <2>5 DEF DelayCalls
<1>3. CASE QueueCalls
  BY <1>3, <1>g, TimersKept DEF QueueCalls, QueueStart, Drain, Unplug, workVars, timerVars
<1>4. ASSUME NEW q \in Queues, Worker(q) PROVE Timers'
  <2>1. /\ linked' = linked /\ firing' = firing
    BY <1>4 DEF Worker, WorkerTake, WorkerSleep, FlushHandler, WorkerFinish, timerVars
  <2>2. CASE WorkerTake(q)
    BY <1>0, <2>1, <2>2, <1>g, TimersKept DEF WorkerTake
  <2>3. CASE WorkerFinish(q)
    BY <1>0, <2>1, <2>3, <1>g, TimersKept DEF WorkerFinish
  <2>4. CASE WorkerSleep(q) \/ FlushHandler(q)
    BY <2>1, <2>4, <1>g, TimersKept DEF WorkerSleep, FlushHandler, workVars
  <2> QED
    BY <1>4, <2>2, <2>3, <2>4 DEF Worker
<1>5. ASSUME NEW c \in Clients, SyncReturn(c) PROVE Timers'
  BY <1>5, <1>g, TimersKept DEF SyncReturn, workVars, timerVars
<1>6. ASSUME NEW w \in DelayWorks, TimeoutExpires(w) PROVE Timers'
  BY <1>g, <1>0, <1>6 DEF TimeoutExpires, Timers, workVars
<1>7. CASE WorkTimeout
  <2> DEFINE w == firing
  <2>1. w \in DelayWorks /\ linked' = linked
    BY <1>0, <1>7 DEF WorkTimeout
  <2>2. "DELAYED" \notin Unscheduled(w) \cup {"QUEUED"}
    BY DEF Unscheduled
  <2>3. /\ "DELAYED" \notin flags'[w]
        /\ \A v \in DelayWorks : v # w => flags'[v] = flags[v]
    BY <1>0, <1>7, <2>1, <2>2 DEF WorkTimeout, SubmitLocked
  <2> QED
    BY <1>g, <1>0, <1>7, <2>1, <2>3 DEF Timers, WorkTimeout
<1>8. CASE UNCHANGED vars
  BY <1>8, <1>g, TimersKept DEF vars, stateVars, workVars, timerVars
<1> QED
  BY <1>1, <1>2, <1>3, <1>4, <1>5, <1>6, <1>7, <1>8 DEF Next

\* Whatever reschedulings, cancellations and callbacks interleave, an item
\* scheduled with a finite delay keeps a timeout that will submit it; and
\* where no other code runs between the dequeue of a timeout and its callback,
\* no item that is not scheduled has one, so that z_add_timeout() never finds
\* the timeout linked.
THEOREM DelayedWillFire == Spec => []DelayedHasTimeout
<1>1. Init => Timers
  BY WorkQAssumption DEF Init, Timers, Items, Works
<1>2. IInv /\ Timers /\ [Next]_vars => Timers'
  BY TimerStep
<1>3. Timers => DelayedHasTimeout
  BY DEF Timers, DelayedHasTimeout
<1> QED
  BY <1>1, <1>2, <1>3, Invariance, PTL DEF Spec

(***************************************************************************)
(* Items start in the order in which they were queued                      *)
(***************************************************************************)
LEMMA BeforeIn ==
  ASSUME NEW s, NEW a, NEW b, Before(s, a, b)
  PROVE  IsIn(s, a) /\ IsIn(s, b)
BY DEF Before, IsIn

\* The step puts w in front of v, which was and stays queued, or starts it.
Overtakes(q, v, w) ==
  /\ IsIn(pending[q], v) /\ IsIn(pending'[q], v) /\ ~Before(pending[q], w, v)
  /\ Before(pending'[q], w, v) \/ (running'[q] = w /\ running[q] # w)

\* An item that is not queued goes to the end.
LEMMA AppendKeepsOrder ==
  ASSUME IInv, NEW q \in Queues, NEW u \in Works, "QUEUED" \notin flags[u],
         NEW v \in Works, NEW w \in Works, IsIn(pending[q], v)
  PROVE  Before(Append(pending[q], u), w, v) <=> Before(pending[q], w, v)
<1>1. pending[q] \in Seq(Items) /\ u \in Items /\ v # u
  BY DEF IInv, TypeOK, QueuedIffPending, Items
<1> QED
  BY <1>1, AppendBefore

\* No step takes an item before one that was submitted earlier.
LEMMA NoOvertaking ==
  ASSUME IInv, [Next]_vars, NEW q \in Queues, NEW v \in Works, NEW w \in Works, v # w
  PROVE  ~Overtakes(q, v, w)
<1>0. /\ pending \in [Queues -> Seq(Items)] /\ running \in [Queues -> Items \cup {NULL}]
      /\ pending[q] \in Seq(Items) /\ v \in Items /\ w # NULL
      /\ \A c \in Clients : c # v /\ c # w
  BY WorkQAssumption DEF IInv, TypeOK, Items, Works
<1> SUFFICES ASSUME IsIn(pending[q], v), IsIn(pending'[q], v)
             PROVE  /\ Before(pending'[q], w, v) => Before(pending[q], w, v)
                    /\ running'[q] = w => running[q] = w \/ Before(pending[q], w, v)
  BY DEF Overtakes
<1>1. CASE pending' = pending /\ (running'[q] = running[q] \/ running'[q] = NULL)
  BY <1>0, <1>1
<1>2. ASSUME NEW u \in Works, NEW to \in Queues, Submitted(u, to)
      PROVE  \/ pending'[q] = pending[q]
             \/ pending'[q] = Append(pending[q], u) /\ "QUEUED" \notin flags[u]
  BY <1>0, <1>2 DEF Submitted, Queued
<1>3. CASE \E u \in Works, to \in Queues : Submitted(u, to)
  <2>1. PICK u \in Works, to \in Queues : Submitted(u, to)
    BY <1>3
  <2>2. Before(pending'[q], w, v) => Before(pending[q], w, v)
    BY <1>2, <2>1, AppendKeepsOrder
  <2> QED
    BY <2>1, <2>2 DEF Submitted
<1>4. CASE \E u \in Works : Cancelled(u)
  <2>1. PICK u \in Works : Withdrawn(u)
    BY <1>4 DEF Cancelled
  <2>2. CASE pending'[q] = pending[q]
    BY <2>1, <2>2 DEF Withdrawn
  <2>3. CASE pending'[q] # pending[q]
    <3>1. wqueue[u] = q /\ "QUEUED" \in flags[u] /\ pending'[q] = RemoveItem(pending[q], u)
      BY <1>0, <2>1, <2>3 DEF Withdrawn
    <3>2. IsIn(pending[q], u) /\ Once(pending[q], u)
      BY <3>1 DEF IInv, QueuedIffPending
    <3>3. ~IsIn(pending'[q], u)
      BY <1>0, <3>1, <3>2, RemoveFacts
    <3>4. v # u /\ (Before(pending'[q], w, v) => w # u)
      BY <3>3, BeforeIn
    <3>5. Before(pending'[q], w, v) => Before(pending[q], w, v)
      BY <1>0, <3>1, <3>2, <3>4, RemoveBefore
    <3> QED
      BY <2>1, <3>5 DEF Withdrawn
  <2> QED
    BY <2>2, <2>3
<1>5. CASE \E c \in Clients, u \in Works, r \in Queues :
             \E s \in {pending[r], Append(pending[r], u)} : Flushed(c, u, r, s)
  <2>1. PICK c \in Clients, u \in Works, r \in Queues :
               \E s \in {pending[r], Append(pending[r], u)} : Flushed(c, u, r, s)
    BY <1>5
  <2>2. PICK s \in {pending[r], Append(pending[r], u)} : Flushed(c, u, r, s)
    BY <2>1
  <2>3. CASE r # q
    BY <1>0, <2>2, <2>3 DEF Flushed
  <2>4. CASE r = q
    <3>1. pending'[q] = FlusherQueued(s, u, c) /\ running' = running
      BY <1>0, <2>2, <2>4 DEF Flushed
    <3>2. s \in Seq(Items)
      BY <1>0, <2>4, AppendFacts DEF Items
    <3>3. Before(pending'[q], w, v) <=> Before(s, w, v)
      BY <1>0, <3>1, <3>2, FlusherIsPut
    <3>4. s = pending[q] \/ (s = Append(pending[q], u) /\ "QUEUED" \notin flags[u])
      BY <2>2, <2>4 DEF Flushed, Queued
    <3>5. Before(s, w, v) <=> Before(pending[q], w, v)
      BY <3>4, AppendKeepsOrder
    <3> QED
      BY <3>1, <3>3, <3>5
  <2> QED
    BY <2>3, <2>4
<1>6. CASE QueueCalls
  <2>1. pending' = pending /\ running' = running
    <3>1. ASSUME NEW r \in Queues, QueueStart(r) PROVE pending' = pending
      BY <1>0, <3>1 DEF QueueStart, IInv, WorkerState
    <3> QED
      BY <1>6, <3>1 DEF QueueCalls, QueueStart, Drain, Unplug
  <2> QED
    BY <1>1, <2>1
<1>7. CASE \E r \in Queues : WorkerTake(r)
  <2>1. PICK r \in Queues : WorkerTake(r)
    BY <1>7
  <2>2. CASE r # q
    BY <1>0, <2>1, <2>2 DEF WorkerTake
  <2>3. CASE r = q
    <3>1. /\ pending[q] # <<>> /\ pending'[q] = Tail(pending[q])
          /\ running'[q] = Head(pending[q])
      BY <1>0, <2>1, <2>3 DEF WorkerTake
    <3> QED
      BY <1>0, <3>1, TailBefore
  <2> QED
    BY <2>2, <2>3
<1>8. CASE \E r \in Queues : WorkerSleep(r) \/ FlushHandler(r) \/ WorkerFinish(r)
  <2>1. pending' = pending /\ (running'[q] = running[q] \/ running'[q] = NULL)
    BY <1>0, <1>8 DEF WorkerSleep, FlushHandler, WorkerFinish
  <2> QED
    BY <1>1, <2>1
<1>9. CASE FlagsOnly \/ \E c \in Clients : SyncReturn(c)
  BY <1>1, <1>9 DEF FlagsOnly, SyncReturn, queueVars
<1> QED
  BY <1>3, <1>4, <1>5, <1>6, <1>7, <1>8, <1>9, ShapeNext DEF Worker

\* A pending list is first in, first out for its items: no submission,
\* cancellation or flusher lets one start before another that was queued
\* earlier and still waits.
THEOREM FirstInFirstOut == Spec => FifoOrder
<1>1. IInv /\ [Next]_vars =>
        [\A q \in Queues, v \in Works, w \in Works :
           v # w /\ IsIn(pending[q], v) /\ IsIn(pending'[q], v) /\ ~Before(pending[q], w, v) =>
             /\ ~Before(pending'[q], w, v)
             /\ running'[q] = w => running[q] = w]_vars
  BY NoOvertaking DEF Overtakes
<1> QED
  BY <1>1, Invariance, PTL DEF Spec, FifoOrder

(***************************************************************************)
(* Flushes and cancellations do not return early                           *)
(***************************************************************************)
\* What a waiting client is owed comes before its wake-up: a queued instance
\* is in front of its flusher, a running one is what the queue's thread has
\* in hand while the flusher is on the list, or what the cancellation record
\* of the client is for.  A client that does not wait is owed nothing.
FlusherBehind(c) ==
  \A q \in Queues, w \in Works :
    FlusherIn(c, q) =>
      /\ <<w, "queued">> \in owed[c] => Before(pending[q], w, c)
      /\ <<w, "running">> \in owed[c] => IsIn(pending[q], c) /\ running[q] = w

RecordBehind(c) ==
  cpc[c] = "cancel" =>
    \A w \in Works : /\ <<w, "queued">> \notin owed[c]
                     /\ <<w, "running">> \in owed[c] => <<c, w>> \in pending_cancels

OwedInv ==
  /\ owed \in [Clients -> SUBSET (Works \X {"queued", "running"})]
  /\ \A c \in Clients :
       /\ ~(cpc[c] \in {"flush", "cancel"} /\ sem[c] = 0) => owed[c] = {}
       /\ FlusherBehind(c)
       /\ RecordBehind(c)

\* Nothing owed, nothing to show.
LEMMA NothingOwed ==
  ASSUME NEW c \in Clients, owed'[c] = {}
  PROVE  FlusherBehind(c)' /\ RecordBehind(c)'
BY DEF FlusherBehind, RecordBehind

\* What a caller still has to wait for after a step.
LEMMA AgedFacts ==
  ASSUME NEW o \in SUBSET (Works \X {"queued", "running"})
  PROVE  /\ Aged(o) \in SUBSET (Works \X {"queued", "running"})
         /\ \A w \in Works :
              /\ <<w, "queued">> \in Aged(o) <=> <<w, "queued">> \in o /\ "QUEUED" \in flags'[w]
              /\ <<w, "running">> \in Aged(o) <=>
                   \/ <<w, "running">> \in o /\ "RUNNING" \in flags'[w]
                   \/ <<w, "queued">> \in o /\ Begins(w)
         /\ o = {} => Aged(o) = {}
         /\ (\A w \in Works : <<w, "queued">> \notin Aged(o) /\ <<w, "running">> \notin Aged(o))
              => Aged(o) = {}
<1>1. "queued" # "running"
  OBVIOUS
<1>2. /\ \A w \in Works : w \in StillQueued(o) <=> <<w, "queued">> \in o /\ "QUEUED" \in flags'[w]
      /\ \A w \in Works : w \in StillRunning(o) <=>
                   \/ <<w, "running">> \in o /\ "RUNNING" \in flags'[w]
                   \/ <<w, "queued">> \in o /\ Begins(w)
      /\ StillQueued(o) \subseteq Works /\ StillRunning(o) \subseteq Works
  BY DEF StillQueued, StillRunning
<1>3. /\ \A w \in Works : <<w, "queued">> \in Aged(o) <=> w \in StillQueued(o)
      /\ \A w \in Works : <<w, "running">> \in Aged(o) <=> w \in StillRunning(o)
  BY <1>1 DEF Aged
<1>4. /\ Aged(o) \in SUBSET (Works \X {"queued", "running"})
      /\ StillQueued(o) = {} /\ StillRunning(o) = {} => Aged(o) = {}
  BY <1>2 DEF Aged
<1>5. o = {} => StillQueued(o) = {} /\ StillRunning(o) = {}
  BY DEF StillQueued, StillRunning
<1>6. (\A w \in Works : <<w, "queued">> \notin Aged(o) /\ <<w, "running">> \notin Aged(o))
        => StillQueued(o) = {} /\ StillRunning(o) = {}
  BY <1>2, <1>3
<1> QED
  BY <1>2, <1>3, <1>4, <1>5, <1>6

\* The history variable adds no steps.
LEMMA NextSNext == ASSUME [NextS]_varsS PROVE [Next]_vars
<1>1. ASSUME NEW c \in Clients, NEW w \in Works, SyncCall(c, w), UNCHANGED timeout_gap PROVE Next
  BY <1>1 DEF SyncCall, Next, PlainCalls, DelayCalls
<1> QED
  BY <1>1 DEF NextS, varsS

\* What a caller has to wait for when it begins.
LEMMA BusyFacts ==
  ASSUME NEW w \in Works
  PROVE  /\ Busy(w) \in SUBSET (Works \X {"queued", "running"})
         /\ \A v \in Works : /\ <<v, "queued">> \in Busy(w) => v = w /\ "QUEUED" \in flags'[w]
                             /\ <<v, "running">> \in Busy(w) => v = w /\ "RUNNING" \in flags'[w]
         /\ "QUEUED" \notin flags'[w] /\ "RUNNING" \notin flags'[w] => Busy(w) = {}
<1>1. "queued" # "running"
  OBVIOUS
<1> QED
  BY <1>1 DEF Busy

\* The caller of k_work_flush() is owed what is in front of its flusher.
LEMMA FlushOwes ==
  ASSUME IInv, IInv', Placed', NEW c \in Clients, NEW w \in Works, NEW q \in Queues,
         NEW s \in {pending[q], Append(pending[q], w)}, Flushed(c, w, q, s), owed'[c] = Busy(w)
  PROVE  /\ cpc'[c] = "flush" /\ sem'[c] = 0
         /\ FlusherBehind(c)' /\ RecordBehind(c)'
<1>0. /\ w \in Items /\ pending[q] \in Seq(Items) /\ pending \in [Queues -> Seq(Items)]
      /\ wqueue \in [Works -> Callers]
  BY DEF Items, IInv, TypeOK
<1>1. /\ cpc'[c] = "flush" /\ sem'[c] = 0 /\ pending'[q] = FlusherQueued(s, w, c)
      /\ wqueue'[w] = q /\ running' = running
  BY <1>0 DEF Flushed, IInv, TypeOK
<1>2. s \in Seq(Items) /\ ("QUEUED" \in flags'[w] => IsIn(s, w))
  <2>1. CASE s = Append(pending[q], w)
    BY <1>0, <2>1, AppendFacts
  <2>2. CASE s = pending[q] /\ Same(w) /\ wqueue[w] = q
    BY <1>0, <2>2 DEF Same, IInv, QueuedIffPending
  <2> QED
    BY <2>1, <2>2 DEF Flushed
<1>3. IsIn(pending'[q], c) /\ ("QUEUED" \in flags'[w] => Before(pending'[q], w, c))
  BY <1>1, <1>2, FlusherIsPut
<1>4. "RUNNING" \in flags'[w] => running'[q] = w
  BY <1>1 DEF IInv, NoReentrancy
<1>5. \A r \in Queues : FlusherIn(c, r)' => r = q
  <2>1. FlusherIn(c, q)'
    BY <1>3 DEF FlusherIn
  <2> QED
    BY <2>1 DEF Placed, FlushPlaced
<1>6. FlusherBehind(c)'
  BY <1>3, <1>4, <1>5, BusyFacts DEF FlusherBehind
<1>7. RecordBehind(c)'
  BY <1>1 DEF RecordBehind
<1> QED
  BY <1>1, <1>6, <1>7

Owes(c) ==
  /\ ~(cpc[c] \in {"flush", "cancel"} /\ sem[c] = 0) => owed[c] = {}
  /\ FlusherBehind(c)
  /\ RecordBehind(c)

\* A waiting canceller is owed the instance its record is for.
LEMMA CancelOwes ==
  ASSUME Placed', NEW c \in Clients, NEW w \in Works, cpc[c] = "idle", IInv,
         Withdrawn(w), CancelSyncLocked(c, w), owed'[c] = Busy(w)
  PROVE  Owes(c)'
<1>1. CASE "CANCELING" \in flags'[w]
  <2>1. cpc'[c] = "cancel" /\ sem'[c] = 0 /\ <<c, w>> \in pending_cancels'
    BY <1>1 DEF CancelSyncLocked, IInv, TypeOK
  <2>2. \A q \in Queues : ~FlusherIn(c, q)'
    BY <2>1 DEF Placed, FlushPlaced
  <2>3. FlusherBehind(c)'
    BY <2>2 DEF FlusherBehind
  <2>4. RecordBehind(c)'
    <3>1. \A v \in Works : /\ <<v, "queued">> \notin owed'[c]
                           /\ <<v, "running">> \in owed'[c] => v = w
      <4>1. "QUEUED" \notin flags'[w]
        BY DEF Withdrawn
      <4>2. \A v \in Works :
              /\ <<v, "queued">> \in Busy(w) => v = w /\ "QUEUED" \in flags'[w]
              /\ <<v, "running">> \in Busy(w) => v = w
        BY BusyFacts
      <4> QED
        BY <4>1, <4>2
    <3>2. ASSUME NEW v \in Works, <<v, "running">> \in owed'[c]
          PROVE  <<c, v>> \in pending_cancels'
      <4>1. v = w
        BY <3>1, <3>2
      <4> QED
        BY <2>1, <4>1
    <3> QED
      BY <3>1, <3>2 DEF RecordBehind
  <2> QED
    BY <2>1, <2>3, <2>4 DEF Owes
<1>2. CASE "CANCELING" \notin flags'[w]
  BY <1>2, BusyFacts, NothingOwed DEF Withdrawn, Owes
<1> QED
  BY <1>1, <1>2

\* A call that begins to wait is behind all it has to wait for.
LEMMA CallerOwes ==
  ASSUME IInv, IInv', Placed', NEW c \in Clients, NEW w \in Works, SyncCall(c, w),
         owed'[c] = Busy(w)
  PROVE  Owes(c)'
<1>1. ASSUME w \in PlainWorks, Flush(c, w) PROVE Owes(c)'
  <2>1. PICK q \in Queues : Flushed(c, w, q, pending[q])
    BY <1>1, ShapeFlush
  <2> QED
    BY <2>1, FlushOwes DEF Owes
<1>2. ASSUME w \in PlainWorks, CancelSync(c, w) PROVE Owes(c)'
  <2>1. flags[w] \ {"DELAYED"} = flags[w]
    BY <1>2 DEF IInv, PlainNotDelayed
  <2>2. Withdrawn(w)
    BY <1>2, <2>1, ShapeCancel DEF CancelSync
  <2> QED
    BY <1>2, <2>2, CancelOwes DEF CancelSync
<1>3. ASSUME w \in DelayWorks, FlushDelayable(c, w) PROVE Owes(c)'
  <2>1. CASE "QUEUED" \notin flags'[w] /\ "RUNNING" \notin flags'[w]
    BY <2>1, BusyFacts, NothingOwed DEF Owes
  <2>2. CASE \E q \in Queues : \E s \in {pending[q], Append(pending[q], w)} : Flushed(c, w, q, s)
    <3>1. PICK q \in Queues : \E s \in {pending[q], Append(pending[q], w)} : Flushed(c, w, q, s)
      BY <2>2
    <3>2. PICK s \in {pending[q], Append(pending[q], w)} : Flushed(c, w, q, s)
      BY <3>1
    <3> QED
      BY <3>2, FlushOwes DEF Owes
  <2> QED
    BY <1>3, <2>1, <2>2, ShapeFlushDelayable
<1>4. ASSUME w \in DelayWorks, CancelDelayableSync(c, w) PROVE Owes(c)'
  <2>1. Withdrawn(w)
    BY <1>4, ShapeCancel DEF CancelDelayableSync, Unscheduled
  <2> QED
    BY <1>4, <2>1, CancelOwes DEF CancelDelayableSync
<1> QED
  BY <1>1, <1>2, <1>3, <1>4 DEF SyncCall

\* A client that goes on waiting for its flusher, nothing it is owed being
\* started, overtaken or dropped from the thread's hands.
LEMMA KeptOwed ==
  ASSUME Placed', NEW c \in Clients, NEW q \in Queues, FlusherIn(c, q), FlusherBehind(c),
         owed[c] \in SUBSET (Works \X {"queued", "running"}), owed'[c] = Aged(owed[c]),
         cpc'[c] = "flush", sem'[c] = 0,
         IsIn(pending[q], c) => IsIn(pending'[q], c),
         running[q] = c /\ wpc[q] = "handler" => running'[q] = c /\ wpc'[q] = "handler",
         \A w \in Works : "RUNNING" \in flags'[w] =>
                            "RUNNING" \in flags[w] /\ (running[q] = w => running'[q] = w),
         \A w \in Works : Before(pending[q], w, c) /\ "QUEUED" \in flags'[w] =>
                            Before(pending'[q], w, c)
  PROVE  Owes(c)'
<1>1. \A r \in Queues : FlusherIn(c, r)' => r = q
  <2>1. FlusherIn(c, q)'
    BY DEF FlusherIn
  <2> QED
    BY <2>1 DEF Placed, FlushPlaced
<1>2. ASSUME NEW w \in Works
      PROVE  /\ <<w, "queued">> \in owed'[c] => Before(pending'[q], w, c)
             /\ <<w, "running">> \in owed'[c] => IsIn(pending'[q], c) /\ running'[q] = w
  <2>1. /\ <<w, "queued">> \in owed'[c] => <<w, "queued">> \in owed[c] /\ "QUEUED" \in flags'[w]
        /\ <<w, "running">> \in owed'[c] => <<w, "running">> \in owed[c] /\ "RUNNING" \in flags'[w]
    BY AgedFacts DEF Begins
  <2> QED
    BY <2>1 DEF FlusherBehind
<1>3. FlusherBehind(c)'
  BY <1>1, <1>2 DEF FlusherBehind
<1>4. RecordBehind(c)'
  BY DEF RecordBehind
<1> QED
  BY <1>3, <1>4 DEF Owes

\* The queue's thread takes the flusher itself, or what it waits behind.
LEMMA TakeOwed ==
  ASSUME IInv, IInv', Placed, Placed', NEW c \in Clients, NEW q \in Queues, FlusherIn(c, q),
         FlusherBehind(c), owed[c] \in SUBSET (Works \X {"queued", "running"}),
         owed'[c] = Aged(owed[c]), NEW r \in Queues, WorkerTake(r),
         cpc'[c] = "flush", sem'[c] = 0
  PROVE  Owes(c)'
<1> DEFINE i == Head(pending[r])
           t == Tail(pending[r])
<1>1. /\ wpc[r] = "loop" /\ pending[r] # <<>> /\ pending[r] \in Seq(Items)
      /\ pending' = [pending EXCEPT ![r] = t]
      /\ running' = [running EXCEPT ![r] = i] /\ wpc' = [wpc EXCEPT ![r] = "handler"]
      /\ flags' = [flags EXCEPT ![i] = (@ \cup {"RUNNING"}) \ {"QUEUED"}]
      /\ wqueue' = wqueue
  BY DEF WorkerTake, IInv, TypeOK
<1>2. /\ i \in Items /\ t \in Seq(Items) /\ IsIn(pending[r], i)
      /\ \A y : Once(pending[r], y) => (IsIn(t, y) <=> IsIn(pending[r], y) /\ y # i)
  BY <1>1, TailFacts
<1>3. \A a, b : Before(pending[r], a, b) /\ a # i => Before(t, a, b)
  BY <1>1, TailBefore
<1>4. \A a, b : Before(t, a, b) => Before(pending[r], a, b)
  BY <1>1, TailBefore
<1>5. running[r] = NULL
  BY <1>1 DEF IInv, WorkerState
<1>6. \A b : IsIn(pending[r], b) /\ b # i => Before(pending[r], i, b)
  BY <1>1, TailBefore
<1> HIDE DEF i, t
<1>7. \A p \in Queues : /\ pending'[p] = IF p = r THEN t ELSE pending[p]
                        /\ running'[p] = IF p = r THEN i ELSE running[p]
                        /\ wpc'[p] = IF p = r THEN "handler" ELSE wpc[p]
  BY <1>1 DEF IInv, TypeOK
<1>8. \A w \in Works : /\ w # i => flags'[w] = flags[w]
                       /\ w = i => "QUEUED" \notin flags'[w]
  BY <1>1, <1>2 DEF IInv, TypeOK, Items
<1>9. i \in Works => wqueue[i] = r /\ "QUEUED" \in flags[i]
  BY <1>2 DEF IInv, QueuedIffPending
<1>10. \A w \in Works : w # NULL
  BY WorkQAssumption DEF Items
<1>11. CASE r # q
  <2>1. \A w \in Works : <<w, "queued">> \in owed[c] => w # i
    <3> SUFFICES ASSUME NEW w \in Works, <<w, "queued">> \in owed[c], w = i PROVE FALSE
      OBVIOUS
    <3>1. Before(pending[q], w, c)
      BY DEF FlusherBehind
    <3>2. IsIn(pending[q], w)
      BY <3>1, BeforeIn
    <3> QED
      BY <1>9, <1>11, <3>2 DEF IInv, QueuedIffPending
  <2>2. \A p \in Queues : FlusherIn(c, p)' => p = q
    <3>1. FlusherIn(c, q)'
      BY <1>7, <1>11 DEF FlusherIn
    <3> QED
      BY <3>1 DEF Placed, FlushPlaced
  <2>3. ASSUME NEW w \in Works
        PROVE  /\ <<w, "queued">> \in owed'[c] => Before(pending'[q], w, c)
               /\ <<w, "running">> \in owed'[c] => IsIn(pending'[q], c) /\ running'[q] = w
    <3>1. /\ <<w, "queued">> \in owed'[c] => <<w, "queued">> \in owed[c]
          /\ <<w, "running">> \in owed'[c] =>
               <<w, "running">> \in owed[c] \/ (<<w, "queued">> \in owed[c] /\ Begins(w))
      BY AgedFacts
    <3>2. <<w, "running">> \in owed'[c] => <<w, "running">> \in owed[c]
      BY <1>8, <2>1, <3>1 DEF Begins
    <3> QED
      BY <1>7, <1>11, <3>1, <3>2 DEF FlusherBehind
  <2>4. FlusherBehind(c)'
    BY <2>2, <2>3 DEF FlusherBehind
  <2> QED
    BY <2>4 DEF Owes, RecordBehind
<1>12. CASE r = q /\ i = c
  <2>1. \A w \in Works : <<w, "running">> \notin owed[c]
    BY <1>5, <1>10, <1>12 DEF FlusherBehind
  <2>2. \A w \in Works : <<w, "queued">> \notin owed[c]
    <3> SUFFICES ASSUME NEW w \in Works, <<w, "queued">> \in owed[c] PROVE FALSE
      OBVIOUS
    <3>0. w # c
      BY WorkQAssumption
    <3>1. Before(pending[q], w, c) /\ w # c
      BY <3>0 DEF FlusherBehind
    <3>2. Before(t, w, c)
      BY <1>3, <1>12, <3>1
    <3>3. IsIn(t, c)
      BY <3>2, BeforeIn
    <3> QED
      BY <1>2, <1>12, <3>3 DEF Placed, FlushPlaced
  <2>3. owed'[c] = {}
    BY <2>1, <2>2, AgedFacts
  <2> QED
    BY <2>3, NothingOwed DEF Owes
<1>13. CASE r = q /\ i # c
  <2>1. IsIn(pending[q], c) /\ IsIn(pending'[q], c) /\ Once(pending[q], c)
    BY <1>1, <1>2, <1>7, <1>13 DEF FlusherIn, Placed, FlushPlaced
  <2>2. \A p \in Queues : FlusherIn(c, p)' => p = q
    <3>1. FlusherIn(c, q)'
      BY <2>1 DEF FlusherIn
    <3> QED
      BY <3>1 DEF Placed, FlushPlaced
  <2>3. ASSUME NEW w \in Works
        PROVE  /\ <<w, "queued">> \in owed'[c] => Before(pending'[q], w, c)
               /\ <<w, "running">> \in owed'[c] => IsIn(pending'[q], c) /\ running'[q] = w
    <3>1. /\ <<w, "queued">> \in owed'[c] => <<w, "queued">> \in owed[c] /\ "QUEUED" \in flags'[w]
          /\ <<w, "running">> \in owed'[c] =>
               <<w, "running">> \in owed[c] \/ (<<w, "queued">> \in owed[c] /\ Begins(w))
      BY AgedFacts
    <3>2. <<w, "running">> \notin owed[c]
      BY <1>5, <1>10, <1>13 DEF FlusherBehind
    <3>3. Begins(w) => w = i
      BY <1>8 DEF Begins
    <3>4. <<w, "queued">> \in owed'[c] => Before(pending[q], w, c) /\ w # i
      BY <1>8, <3>1 DEF FlusherBehind
    <3> QED
      BY <1>3, <1>7, <1>13, <2>1, <3>1, <3>2, <3>3, <3>4
  <2>4. FlusherBehind(c)'
    BY <2>2, <2>3 DEF FlusherBehind
  <2> QED
    BY <2>4 DEF Owes, RecordBehind
<1> QED
  BY <1>11, <1>12, <1>13

\* A client that waits for its flusher, at a step of anybody.
LEMMA FlusherOwed ==
  ASSUME IInv, IInv', Placed, Placed', [Next]_vars, NEW c \in Clients, NEW q \in Queues,
         FlusherIn(c, q), FlusherBehind(c),
         owed[c] \in SUBSET (Works \X {"queued", "running"}), owed'[c] = Aged(owed[c])
  PROVE  Owes(c)'
<1>0. /\ cpc[c] = "flush" /\ sem[c] = 0 /\ Once(pending[q], c)
      /\ \A r \in Queues : FlusherIn(c, r) => r = q
      /\ IsIn(pending[q], c) => ~(running[q] = c /\ wpc[q] = "handler")
      /\ \A r \in Queues : c \notin drainq[r]
  BY DEF Placed, FlushPlaced, DrainPlaced
<1>1. /\ pending \in [Queues -> Seq(Items)] /\ pending[q] \in Seq(Items)
      /\ \A w \in Works : w # c /\ w \in Items /\ w # NULL
      /\ c \in Items /\ cpc \in [Clients -> {"idle", "flush", "cancel", "drain"}]
      /\ sem \in [Clients -> {0, 1}]
  BY WorkQAssumption DEF IInv, TypeOK, Items
\* Steps that change no list.
<1>2. ASSUME pending' = pending, running' = running, cpc'[c] = cpc[c], sem'[c] = sem[c],
             \A r \in Queues : wpc'[r] = "handler" <=> wpc[r] = "handler",
             \A w \in Works : "RUNNING" \in flags'[w] => "RUNNING" \in flags[w]
      PROVE  Owes(c)'
  BY <1>0, <1>2, KeptOwed
<1>3. CASE FlagsOnly
  BY <1>2, <1>3 DEF FlagsOnly, Same, queueVars, clientVars
<1>4. ASSUME NEW u \in Works, NEW to \in Queues, Submitted(u, to)
      PROVE  Owes(c)'
  <2>1. pending'[q] = pending[q] \/ pending'[q] = Append(pending[q], u)
    BY <1>1, <1>4 DEF Submitted
  <2>2. /\ IsIn(pending[q], c) => IsIn(pending'[q], c)
        /\ \A w \in Works : Before(pending[q], w, c) => Before(pending'[q], w, c)
    <3>1. CASE pending'[q] = pending[q]
      BY <3>1
    <3>2. CASE pending'[q] = Append(pending[q], u)
      BY <1>1, <3>2, AppendFacts, AppendBefore
    <3> QED
      BY <2>1, <3>1, <3>2
  <2>3. /\ \A w \in Works : "RUNNING" \in flags'[w] => "RUNNING" \in flags[w]
        /\ running' = running /\ cpc'[c] = "flush" /\ sem'[c] = 0
        /\ wpc'[q] = "handler" <=> wpc[q] = "handler"
    BY <1>0, <1>4, NotifiedKept DEF Submitted, Queued, Same, clientVars
  <2> QED
    BY <2>2, <2>3, KeptOwed
<1>5. ASSUME NEW u \in Works, Cancelled(u)
      PROVE  Owes(c)'
  <2>1. Withdrawn(u)
    BY <1>5 DEF Cancelled
  <2>2. cpc'[c] = "flush" /\ sem'[c] = 0
    BY <1>0, <1>1, <1>5 DEF Cancelled, CancelSyncLocked, clientVars
  <2>3. IsIn(pending[q], c) => IsIn(pending'[q], c)
    BY <2>1, WithdrawnKept
  <2>4. ASSUME NEW w \in Works, Before(pending[q], w, c), "QUEUED" \in flags'[w]
        PROVE  Before(pending'[q], w, c)
    <3>1. w # u /\ c # u
      BY <1>1, <2>1, <2>4 DEF Withdrawn
    <3>2. CASE pending'[q] = pending[q]
      BY <2>4, <3>2
    <3>3. CASE pending'[q] # pending[q]
      <4>1. wqueue[u] = q /\ "QUEUED" \in flags[u] /\ pending'[q] = RemoveItem(pending[q], u)
        BY <1>1, <2>1, <3>3 DEF Withdrawn
      <4>2. IsIn(pending[q], u) /\ Once(pending[q], u)
        BY <4>1 DEF IInv, QueuedIffPending
      <4> QED
        BY <1>1, <2>4, <3>1, <4>1, <4>2, RemoveBefore
    <3> QED
      BY <3>2, <3>3
  <2>5. /\ \A w \in Works : "RUNNING" \in flags'[w] => "RUNNING" \in flags[w]
        /\ running' = running /\ wpc' = wpc
    BY <2>1 DEF Withdrawn, Same
  <2> QED
    BY <2>2, <2>3, <2>4, <2>5, KeptOwed
<1>6. ASSUME NEW d \in Clients, NEW u \in Works, NEW r \in Queues,
             NEW s \in {pending[r], Append(pending[r], u)}, Flushed(d, u, r, s)
      PROVE  Owes(c)'
  <2>1. d # c /\ cpc'[c] = "flush" /\ sem'[c] = 0
    BY <1>0, <1>1, <1>6 DEF Flushed
  <2>2. /\ IsIn(pending[q], c) => IsIn(pending'[q], c)
        /\ \A w \in Works : Before(pending[q], w, c) => Before(pending'[q], w, c)
    <3>1. CASE r # q
      BY <1>1, <1>6, <3>1 DEF Flushed
    <3>2. CASE r = q
      <4>1. pending'[q] = FlusherQueued(s, u, d)
        BY <1>1, <1>6, <3>2 DEF Flushed
      <4>2. /\ s \in Seq(Items)
            /\ IsIn(pending[q], c) => IsIn(s, c)
            /\ \A w \in Works : Before(pending[q], w, c) => Before(s, w, c)
        <5>1. CASE s = pending[q]
          BY <1>1, <5>1
        <5>2. CASE s = Append(pending[q], u)
          BY <1>1, <5>2, AppendFacts, AppendBefore
        <5> QED
          BY <3>2, <5>1, <5>2
      <4>3. /\ IsIn(s, c) => IsIn(pending'[q], c)
            /\ \A w \in Works : Before(s, w, c) => Before(pending'[q], w, c)
        <5>1. \A w \in Works : w # d
          BY WorkQAssumption
        <5> QED
          BY <2>1, <4>1, <4>2, <5>1, FlusherIsPut
      <4> QED
        BY <4>2, <4>3
    <3> QED
      BY <3>1, <3>2
  <2>3. /\ \A w \in Works : "RUNNING" \in flags'[w] => "RUNNING" \in flags[w]
        /\ running' = running
        /\ wpc'[q] = "handler" <=> wpc[q] = "handler"
    BY <1>6, NotifiedKept DEF Flushed, Queued, Same
  <2> QED
    BY <2>1, <2>2, <2>3, KeptOwed
<1>7. ASSUME NEW r \in Queues, QueueStart(r) PROVE Owes(c)'
  <2>1. wpc[r] = "off" /\ pending[r] = <<>>
    BY <1>7 DEF QueueStart, IInv, WorkerState
  <2>2. /\ pending' = pending /\ running' = running /\ UNCHANGED clientVars
        /\ \A p \in Queues : wpc'[p] = "handler" <=> wpc[p] = "handler"
        /\ flags' = flags
    BY <1>7, <2>1 DEF QueueStart, IInv, TypeOK, workVars
  <2> QED
    BY <1>2, <2>2 DEF clientVars
<1>8. ASSUME NEW r \in Queues, Unplug(r) PROVE Owes(c)'
  BY <1>2, <1>8 DEF Unplug, workVars, clientVars
<1>9. ASSUME NEW r \in Queues, NEW d \in Clients, NEW plug \in BOOLEAN, Drain(d, r, plug)
      PROVE  Owes(c)'
  <2>1. /\ pending' = pending /\ running' = running /\ flags' = flags
        /\ cpc'[c] = cpc[c] /\ sem'[c] = sem[c]
        /\ \A p \in Queues : wpc'[p] = "handler" <=> wpc[p] = "handler"
    BY <1>0, <1>1, <1>9, NotifiedKept DEF Drain, workVars
  <2> QED
    BY <1>2, <2>1
<1>10. ASSUME NEW r \in Queues, WorkerTake(r) PROVE Owes(c)'
  BY <1>0, <1>10, TakeOwed DEF WorkerTake, clientVars
<1>11. ASSUME NEW r \in Queues, WorkerSleep(r) PROVE Owes(c)'
  <2>1. cpc'[c] = cpc[c]
    BY <1>0, <1>11 DEF WorkerSleep, Drainers
  <2>2. \A p \in Queues : wpc'[p] = "handler" <=> wpc[p] = "handler"
    BY <1>11 DEF WorkerSleep, IInv, TypeOK
  <2> QED
    BY <1>2, <1>11, <2>1, <2>2 DEF WorkerSleep, workVars
<1>12. ASSUME NEW r \in Queues, FlushHandler(r) PROVE Owes(c)'
  <2>1. CASE running[r] = c
    <3>1. r = q /\ ~IsIn(pending[q], c)
      BY <1>0, <1>12, <2>1 DEF FlushHandler, FlusherIn
    <3>2. \A w \in Works : <<w, "queued">> \notin owed[c] /\ <<w, "running">> \notin owed[c]
      BY <3>1, BeforeIn DEF FlusherBehind
    <3>3. owed'[c] = {}
      BY <3>2, AgedFacts
    <3> QED
      BY <3>3, NothingOwed DEF Owes
  <2>2. CASE running[r] # c
    <3>1. /\ pending' = pending /\ running' = running /\ flags' = flags
          /\ cpc'[c] = "flush" /\ sem'[c] = 0
          /\ running[q] = c => wpc'[q] = wpc[q]
      BY <1>0, <1>1, <1>12, <2>2 DEF FlushHandler, workVars, IInv, TypeOK
    <3> QED
      BY <3>1, KeptOwed
  <2> QED
    BY <2>1, <2>2
<1>13. ASSUME NEW r \in Queues, WorkerFinish(r) PROVE Owes(c)'
  <2> DEFINE i == running[r]
  <2>1. /\ wpc[r] = "flushed" \/ (wpc[r] = "handler" /\ i \in Works)
        /\ flags' = [flags EXCEPT ![i] = @ \ {"RUNNING", "CANCELING"}]
        /\ sem' = [d \in Clients |-> IF d \in Cancelers(i) THEN 1 ELSE sem[d]]
        /\ running' = [running EXCEPT ![r] = NULL] /\ wpc' = [wpc EXCEPT ![r] = "loop"]
        /\ UNCHANGED <<pending, cpc>>
    BY <1>13 DEF WorkerFinish
  <2>2. c \notin Cancelers(i)
    <3> SUFFICES ASSUME <<c, i>> \in pending_cancels PROVE FALSE
      BY DEF Cancelers
    <3>1. i \in Works
      BY DEF IInv, TypeOK
    <3> QED
      BY <1>0, <3>1 DEF Placed, CancelPlaced, CancellerIsRecorded
  <2>3. cpc'[c] = "flush" /\ sem'[c] = 0
    BY <1>0, <2>1, <2>2
  <2>4. running[q] = c /\ wpc[q] = "handler" => running'[q] = c /\ wpc'[q] = "handler"
    BY <1>1, <2>1 DEF IInv, TypeOK
  <2>5. \A w \in Works : "RUNNING" \in flags'[w] =>
                           "RUNNING" \in flags[w] /\ (running[q] = w => running'[q] = w)
    BY <1>1, <2>1 DEF IInv, TypeOK
  <2> QED
    BY <2>1, <2>3, <2>4, <2>5, KeptOwed
<1>14. ASSUME NEW d \in Clients, SyncReturn(d) PROVE Owes(c)'
  <2>1. cpc'[c] = cpc[c] /\ sem'[c] = sem[c]
    BY <1>0, <1>1, <1>14 DEF SyncReturn
  <2> QED
    BY <1>2, <1>14, <2>1 DEF SyncReturn, workVars, queueVars
<1>15. CASE \E d \in Clients, u \in Works, r \in Queues :
              \E s \in {pending[r], Append(pending[r], u)} : Flushed(d, u, r, s)
  BY <1>6, <1>15
<1>16. CASE QueueCalls
  BY <1>7, <1>8, <1>9, <1>16 DEF QueueCalls
<1>17. CASE \E r \in Queues : Worker(r)
  BY <1>10, <1>11, <1>12, <1>13, <1>17 DEF Worker
<1> QED
  BY <1>3, <1>4, <1>5, <1>14, <1>15, <1>16, <1>17, ShapeNext

\* A client that waits for a cancellation, at a step of anybody.
LEMMA CancellerOwed ==
  ASSUME IInv, IInv', Placed, Placed', [Next]_vars, NEW c \in Clients, cpc[c] = "cancel",
         sem[c] = 0, RecordBehind(c),
         owed[c] \in SUBSET (Works \X {"queued", "running"}), owed'[c] = Aged(owed[c])
  PROVE  Owes(c)'
<1>0. /\ cpc \in [Clients -> {"idle", "flush", "cancel", "drain"}] /\ sem \in [Clients -> {0, 1}]
      /\ \A r \in Queues : c \notin drainq[r] /\ ~FlusherIn(c, r)
  BY DEF IInv, TypeOK, Placed, FlushPlaced, DrainPlaced
<1>1. \A w \in Works :
        /\ <<w, "queued">> \notin owed'[c]
        /\ <<w, "running">> \in owed'[c] => <<c, w>> \in pending_cancels /\ "RUNNING" \in flags'[w]
  <2>1. \A w \in Works : /\ <<w, "queued">> \notin owed[c]
                         /\ <<w, "running">> \in owed[c] => <<c, w>> \in pending_cancels
    BY DEF RecordBehind
  <2>2. \A w \in Works :
          /\ <<w, "queued">> \in owed'[c] => <<w, "queued">> \in owed[c]
          /\ <<w, "running">> \in owed'[c] =>
               \/ <<w, "running">> \in owed[c] /\ "RUNNING" \in flags'[w]
               \/ <<w, "queued">> \in owed[c] /\ Begins(w)
    <3> DEFINE o == owed[c]
    <3> HIDE DEF o
    <3>1. o \in SUBSET (Works \X {"queued", "running"}) /\ owed'[c] = Aged(o)
      BY DEF o
    <3>2. \A w \in Works :
            /\ <<w, "queued">> \in Aged(o) => <<w, "queued">> \in o
            /\ <<w, "running">> \in Aged(o) =>
                 \/ <<w, "running">> \in o /\ "RUNNING" \in flags'[w]
                 \/ <<w, "queued">> \in o /\ Begins(w)
      BY <3>1, AgedFacts
    <3> QED
      BY <3>1, <3>2 DEF o
  <2>3. \A w \in Works : <<w, "queued">> \notin owed'[c]
    BY <2>1, <2>2
  <2>4. ASSUME NEW w \in Works, <<w, "running">> \in owed'[c]
        PROVE  <<c, w>> \in pending_cancels /\ "RUNNING" \in flags'[w]
    <3>1. <<w, "running">> \in owed[c] /\ "RUNNING" \in flags'[w]
      BY <2>1, <2>2, <2>4
    <3> QED
      BY <2>1, <3>1
  <2> QED
    BY <2>3, <2>4
<1>2. ASSUME cpc'[c] = "cancel", sem'[c] = 0,
             \A w \in Works : <<c, w>> \in pending_cancels => <<c, w>> \in pending_cancels'
      PROVE  Owes(c)'
  <2>1. \A r \in Queues : ~FlusherIn(c, r)'
    BY <1>2 DEF Placed, FlushPlaced
  <2> QED
    BY <1>1, <1>2, <2>1 DEF Owes, FlusherBehind, RecordBehind
<1>3. CASE UNCHANGED clientVars
  BY <1>2, <1>3 DEF clientVars
<1>4. CASE \E u \in Works : Cancelled(u)
  <2>1. CASE UNCHANGED clientVars
    BY <1>3, <2>1
  <2>2. ASSUME NEW d \in Clients, NEW u \in Works, cpc[d] = "idle", CancelSyncLocked(d, u)
        PROVE  Owes(c)'
    BY <1>0, <1>2, <2>2 DEF CancelSyncLocked, clientVars
  <2> QED
    BY <1>4, <2>1, <2>2 DEF Cancelled
<1>5. CASE \E d \in Clients, u \in Works, q \in Queues :
             \E s \in {pending[q], Append(pending[q], u)} : Flushed(d, u, q, s)
  BY <1>0, <1>2, <1>5 DEF Flushed
<1>6. CASE QueueCalls
  <2>1. ASSUME NEW q \in Queues, QueueStart(q) \/ Unplug(q) PROVE Owes(c)'
    BY <1>3, <2>1 DEF QueueStart, Unplug
  <2>2. ASSUME NEW q \in Queues, NEW d \in Clients, NEW plug \in BOOLEAN, Drain(d, q, plug)
        PROVE  Owes(c)'
    BY <1>0, <1>2, <2>2 DEF Drain
  <2> QED
    BY <1>6, <2>1, <2>2 DEF QueueCalls
<1>7. ASSUME NEW q \in Queues, WorkerTake(q) PROVE Owes(c)'
  BY <1>3, <1>7 DEF WorkerTake
<1>8. ASSUME NEW q \in Queues, WorkerSleep(q) PROVE Owes(c)'
  BY <1>0, <1>2, <1>8 DEF WorkerSleep, Drainers
<1>9. ASSUME NEW q \in Queues, FlushHandler(q) PROVE Owes(c)'
  <2>1. running[q] # c
    BY <1>0, <1>9 DEF FlushHandler, FlusherIn
  <2> QED
    BY <1>0, <1>2, <1>9, <2>1 DEF FlushHandler
<1>10. ASSUME NEW q \in Queues, WorkerFinish(q) PROVE Owes(c)'
  <2> DEFINE i == running[q]
  <2>1. /\ flags' = [flags EXCEPT ![i] = @ \ {"RUNNING", "CANCELING"}]
        /\ sem' = [d \in Clients |-> IF d \in Cancelers(i) THEN 1 ELSE sem[d]]
        /\ pending_cancels' = pending_cancels \ {<<d, i>> : d \in Cancelers(i)}
        /\ cpc' = cpc
    BY <1>10 DEF WorkerFinish
  <2>2. CASE c \in Cancelers(i)
    <3>1. <<c, i>> \in pending_cancels
      BY <2>2 DEF Cancelers
    <3>2. i \in Works
      BY <3>1 DEF IInv, TypeOK
    <3>3. \A w \in Works : <<c, w>> \in pending_cancels => w = i
      BY <3>1, <3>2 DEF Placed, CancelPlaced
    <3>4. "RUNNING" \notin flags'[i]
      BY <2>1, <3>2 DEF IInv, TypeOK, Items
    <3>5. \A w \in Works : <<w, "running">> \notin owed'[c]
      BY <1>1, <3>3, <3>4
    <3>6. owed'[c] = {}
      <4>1. (\A w \in Works : <<w, "queued">> \notin owed'[c] /\ <<w, "running">> \notin owed'[c])
              => owed'[c] = {}
        BY AgedFacts
      <4> QED
        BY <1>1, <3>5, <4>1
    <3> QED
      BY <3>6, NothingOwed DEF Owes
  <2>3. CASE c \notin Cancelers(i)
    <3>1. \A w \in Works : <<c, w>> \in pending_cancels => <<c, w>> \in pending_cancels'
      BY <2>1, <2>3
    <3> QED
      BY <1>2, <2>1, <2>3, <3>1
  <2> QED
    BY <2>2, <2>3
<1>11. ASSUME NEW d \in Clients, SyncReturn(d) PROVE Owes(c)'
  <2>1. c # d
    BY <1>11 DEF SyncReturn
  <2> QED
    BY <1>0, <1>2, <1>11, <2>1 DEF SyncReturn
<1>12. CASE FlagsOnly \/ \E u \in Works, to \in Queues : Submitted(u, to)
  BY <1>3, <1>12 DEF FlagsOnly, Submitted
<1> QED
  BY <1>4, <1>5, <1>6, <1>7, <1>8, <1>9, <1>10, <1>11, <1>12, ShapeNext DEF Worker

\* Every step leaves each waiting caller behind all it has to wait for.
LEMMA OwedStep ==
  ASSUME IInv, IInv', Placed, Placed', OwedInv, [NextS]_varsS
  PROVE  OwedInv'
<1>0. [Next]_vars
  BY NextSNext
<1>1. ASSUME NEW c \in Clients, owed'[c] = Aged(owed[c]) PROVE Owes(c)'
  <2>0. owed[c] \in SUBSET (Works \X {"queued", "running"}) /\ FlusherBehind(c) /\ RecordBehind(c)
    BY DEF OwedInv
  <2>1. CASE owed[c] = {}
    <3>1. owed'[c] = {}
      BY <1>1, <2>0, <2>1, AgedFacts
    <3> QED
      BY <3>1, NothingOwed DEF Owes
  <2>2. CASE cpc[c] = "flush" /\ sem[c] = 0
    <3>1. PICK q \in Queues : FlusherIn(c, q)
      BY <2>2 DEF Placed, FlushPlaced
    <3> QED
      BY <1>0, <1>1, <2>0, <3>1, FlusherOwed
  <2>3. CASE cpc[c] = "cancel" /\ sem[c] = 0
    BY <1>0, <1>1, <2>0, <2>3, CancellerOwed
  <2> QED
    BY <2>1, <2>2, <2>3 DEF OwedInv
<1>2. ASSUME NEW c \in Clients, owed'[c] = Aged(owed[c])
      PROVE  owed'[c] \in SUBSET (Works \X {"queued", "running"})
  BY <1>2, AgedFacts DEF OwedInv
<1>3. ASSUME NEW c \in Clients, NEW w \in Works, SyncCall(c, w),
             owed' = [x \in Clients |-> IF x = c THEN Busy(w) ELSE Aged(owed[x])]
      PROVE  OwedInv'
  <2>1. owed'[c] = Busy(w) /\ \A x \in Clients : x # c => owed'[x] = Aged(owed[x])
    BY <1>3
  <2>2. \A x \in Clients : owed'[x] \in SUBSET (Works \X {"queued", "running"})
    BY <1>2, <2>1, BusyFacts
  <2>3. owed' \in [Clients -> SUBSET (Works \X {"queued", "running"})]
    <3>1. owed' = [x \in Clients |-> owed'[x]]
      BY <1>3
    <3> QED
      BY <2>2, <3>1
  <2>4. Owes(c)'
    BY <1>3, <2>1, CallerOwes
  <2>5. \A x \in Clients : Owes(x)'
    BY <1>1, <2>1, <2>4
  <2> QED
    BY <2>3, <2>5 DEF OwedInv, Owes
<1>4. ASSUME owed' = [c \in Clients |-> Aged(owed[c])] PROVE OwedInv'
  <2>1. \A x \in Clients : owed'[x] = Aged(owed[x])
    BY <1>4
  <2>2. owed' \in [Clients -> SUBSET (Works \X {"queued", "running"})]
    <3>1. owed' = [x \in Clients |-> owed'[x]]
      BY <1>4, <2>1
    <3>2. \A x \in Clients : owed'[x] \in SUBSET (Works \X {"queued", "running"})
      BY <1>2, <2>1
    <3> QED
      BY <3>1, <3>2
  <2>3. \A x \in Clients : Owes(x)'
    BY <1>1, <2>1
  <2> QED
    BY <2>2, <2>3 DEF OwedInv, Owes
<1>5. ASSUME UNCHANGED varsS PROVE OwedInv'
  BY <1>5 DEF varsS, vars, stateVars, queueVars, clientVars, OwedInv, FlusherBehind, RecordBehind, FlusherIn
<1> QED
  BY <1>3, <1>4, <1>5 DEF NextS

\* k_work_flush(), k_work_cancel_sync() and their delayable counterparts
\* never return early: when their semaphore is given, the instances of the
\* item that were queued or running at the call have completed or been
\* cancelled, whatever was submitted, cancelled or flushed in between.
THEOREM NoEarlyReturn == SpecS => []SyncWaits
<1> DEFINE All == IInv /\ WaitersInv /\ OwedInv
<1>1. InitS => All
  <2> SUFFICES ASSUME InitS PROVE All
    OBVIOUS
  <2>1. IInv
    BY IInvInit DEF InitS
  <2>2. WaitersInv
    BY WaitersInit DEF InitS
  <2>3. OwedInv
    BY DEF InitS, OwedInv, FlusherBehind, RecordBehind
  <2> QED
    BY <2>1, <2>2, <2>3
<1>2. All /\ [NextS]_varsS => All'
  <2> SUFFICES ASSUME All, [NextS]_varsS PROVE All'
    OBVIOUS
  <2>1. [Next]_vars
    BY NextSNext
  <2>2. IInv' /\ WaitersInv'
    BY <2>1, IInvStep, WaitersStep
  <2>3. Placed /\ Placed'
    BY <2>2, PlacedParts DEF WaitersInv
  <2>4. OwedInv'
    BY <2>2, <2>3, OwedStep
  <2> QED
    BY <2>2, <2>4
<1>3. All => SyncWaits
  BY DEF OwedInv, SyncWaits
<1> QED
  BY <1>1, <1>2, <1>3, PTL DEF SpecS
====
