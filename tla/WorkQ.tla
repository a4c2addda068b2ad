------------------------------- MODULE WorkQ -------------------------------
(***************************************************************************)
(* The kernel work queues (kernel/work.c): work items, delayable work      *)
(* items, the threads that animate the queues, and the flush, cancel and   *)
(* drain operations that wait for them.                                    *)
(*                                                                         *)
(* Every section of work.c that holds the work module's spinlock is one    *)
(* step.  The steps between two such sections (a handler running, a        *)
(* timeout dequeued whose callback has not taken the lock yet, a client    *)
(* woken but not yet running) are what the threads interleave.             *)
(***************************************************************************)
EXTENDS Naturals, Sequences, Lists

CONSTANTS
  Queues,       \* struct k_work_q objects
  PlainWorks,   \* struct k_work objects
  DelayWorks,   \* struct k_work_delayable objects
  Clients,      \* threads that call the blocking operations; a client also
                \* names the k_work_sync object it passes to them
  NULL,
  Apis,         \* the API calls the application makes
  Delays,       \* the delays it passes: K_NO_WAIT, ticks, K_FOREVER
  Gaps          \* what timeout_gap may be

Works   == PlainWorks \cup DelayWorks
Items   == Works \cup Clients       \* what a pending list can hold
Callers == Queues \cup {NULL}       \* a queue's thread in a handler, or NULL
                                    \* for any other thread or an ISR
WorkFlags  == {"RUNNING", "CANCELING", "QUEUED", "DELAYED"}
QueueFlags == {"STARTED", "BUSY", "DRAIN", "PLUGGED"}
AllApis == {"submit", "flush", "cancel", "cancel_sync", "drain", "unplug",
            "schedule", "reschedule", "flush_delayable",
            "cancel_delayable", "cancel_delayable_sync",
            "chain"}   \* submissions made by a handler

ASSUME WorkQAssumption ==
  /\ PlainWorks \cap DelayWorks = {}
  /\ Works \cap Clients = {}
  /\ NULL \notin Queues \cup Items
  /\ Apis \subseteq AllApis
  /\ Delays \subseteq {"NO_WAIT", "TICKS", "FOREVER"}
  /\ Gaps \subseteq BOOLEAN

VARIABLES
  timeout_gap,     \* TRUE on a machine on which other code runs between
                   \* sys_clock_announce() dequeuing a timeout and its
                   \* callback taking the work lock (SMP, or nested
                   \* interrupts); FALSE where it cannot
  flags,           \* work->flags; for a client, the flags of its flusher
  wqueue,          \* work->queue: the queue of the last submission
  dqueue,          \* dwork->queue: where the delayed submission will go
  linked,          \* the dwork's timeout is on the timeout list
  firing,          \* the dwork whose timeout was dequeued, callback pending
  qflags,          \* queue->flags
  pending,         \* queue->pending
  drainq,          \* queue->drainq, a set: its waiters are woken together
  running,         \* the item the queue's thread is processing
  wpc,             \* where the queue's thread is in work_queue_main()
  pending_cancels, \* <<client, work>> records of waiting cancellers
  sem,             \* the semaphore in the client's k_work_sync
  cpc              \* the blocking call the client is in

workVars   == <<flags, wqueue, dqueue>>
timerVars  == <<linked, firing>>
queueVars  == <<qflags, pending, drainq, running, wpc>>
clientVars == <<pending_cancels, sem, cpc>>
stateVars == <<workVars, timerVars, queueVars, clientVars>>
vars == <<timeout_gap, stateVars>>

Init ==
  /\ timeout_gap \in Gaps
  /\ flags = [i \in Items |-> {}]
  /\ wqueue = [w \in Works |-> NULL]
  /\ dqueue = [w \in DelayWorks |-> NULL]
  /\ linked = [w \in DelayWorks |-> FALSE]
  /\ firing = NULL
  /\ qflags = [q \in Queues |-> {}]
  /\ pending = [q \in Queues |-> <<>>]
  /\ drainq = [q \in Queues |-> {}]
  /\ running = [q \in Queues |-> NULL]
  /\ wpc = [q \in Queues |-> "off"]
  /\ pending_cancels = {}
  /\ sem = [c \in Clients |-> 0]
  /\ cpc = [c \in Clients |-> "idle"]

(***************************************************************************)
(* Helpers                                                                 *)
(***************************************************************************)
\* Who may call a non-blocking operation now: a thread that is not a work
\* queue thread, an ISR, or the handler a queue thread is in.
MayCall(caller) ==
  \/ caller = NULL
  \/ /\ "chain" \in Apis
     /\ caller \in Queues
     /\ wpc[caller] = "handler"
     /\ running[caller] \in Works

\* No step of other code falls between the dequeue of a timeout and its
\* callback unless timeout_gap allows it.
NoCallback == timeout_gap \/ firing = NULL

\* Faulty variant: the queue's thread is not woken.
NotifiesNobody(q) == wpc

\* notify_queue_locked(): z_sched_wake() on the notifyq of the queue.
Notified(q) == [wpc EXCEPT ![q] = IF @ = "wait" THEN "loop" ELSE @]

\* queue_submit_locked()'s tests: started, not draining unless chained, not
\* plugged unless draining.
Accepts(q, caller) ==
  /\ q # NULL
  /\ "STARTED" \in qflags[q]
  /\ "DRAIN" \in qflags[q] => caller = q
  /\ "PLUGGED" \in qflags[q] => "DRAIN" \in qflags[q]

\* Faulty variant: a running item goes to the queue that was asked for.
SubmitQueueAsAsked(w, q) == IF q = NULL THEN wqueue[w] ELSE q

\* The queue submit_to_queue_locked() settles on: a running item stays on
\* the queue that runs it; with no queue given, the last one is used.
SubmitQueue(w, q) ==
  IF "RUNNING" \in flags[w] \/ q = NULL THEN wqueue[w] ELSE q

\* Faulty variant: an item that is already queued is queued again.
SubmittableTwice(w, q, caller) ==
  /\ "CANCELING" \notin flags[w]
  /\ Accepts(SubmitQueue(w, q), caller)

Submittable(w, q, caller) ==
  /\ flags[w] \cap {"CANCELING", "QUEUED"} = {}
  /\ Accepts(SubmitQueue(w, q), caller)

\* Faulty variant: the item goes to the front of the list.
QueuedFirst(s, w) == <<w>> \o s

\* queue_submit_locked() appends the item to the pending list.
Enqueued(s, w) == Append(s, w)

\* submit_to_queue_locked(), f being the item's flags at that point.
SubmitLocked(w, q, caller, f) ==
  LET to == SubmitQueue(w, q) IN
  \/ /\ Submittable(w, q, caller)
     /\ flags' = [flags EXCEPT ![w] = f \cup {"QUEUED"}]
     /\ wqueue' = [wqueue EXCEPT ![w] = to]
     /\ pending' = [pending EXCEPT ![to] = Enqueued(@, w)]
     /\ wpc' = Notified(to)
  \/ /\ ~Submittable(w, q, caller)
     /\ flags' = [flags EXCEPT ![w] = f]
     /\ UNCHANGED <<wqueue, pending, wpc>>

\* cancel_async_locked() on an item with flags f: dequeue it unless a
\* cancellation is already under way, and mark it CANCELING if still busy.
CancelledFlags(f) ==
  LET left == IF "CANCELING" \in f THEN f ELSE f \ {"QUEUED"}
  IN  IF left = {} THEN {} ELSE left \cup {"CANCELING"}

CancelAsyncLocked(w, f) ==
  /\ flags' = [flags EXCEPT ![w] = CancelledFlags(f)]
  /\ pending' = IF "QUEUED" \in f /\ "CANCELING" \notin f
                THEN [pending EXCEPT ![wqueue[w]] = RemoveItem(@, w)]
                ELSE pending

\* cancel_sync_locked(): wait for the canceller's semaphore if the item is
\* still CANCELING.
CancelSyncLocked(c, w) ==
  \/ /\ "CANCELING" \in flags'[w]
     /\ pending_cancels' = pending_cancels \cup {<<c, w>>}
     /\ sem' = [sem EXCEPT ![c] = 0]
     /\ cpc' = [cpc EXCEPT ![c] = "cancel"]
  \/ /\ "CANCELING" \notin flags'[w]
     /\ UNCHANGED clientVars

\* Faulty variants: the flusher always goes first; or only a queued item
\* gets one.
FlusherFirst(s, w, c) == <<c>> \o s
FlusherIfQueued(s, w, c) == IF IsIn(s, w) THEN InsertAfter(s, w, c) ELSE s

\* queue_flusher_locked(): behind the item if it is queued, else in front.
FlusherQueued(s, w, c) == IF IsIn(s, w) THEN InsertAfter(s, w, c) ELSE <<c>> \o s

\* Faulty variant: only one of several cancellers is released.
OneCanceler(i) ==
  LET waiting == {c \in Clients : <<c, i>> \in pending_cancels}
  IN  IF waiting = {} THEN {} ELSE {CHOOSE c \in waiting : TRUE}

\* The clients finalize_cancel_locked() releases.
Cancelers(i) ==
  {c \in Clients : "CANCELING" \in flags[i] /\ <<c, i>> \in pending_cancels}

\* Faulty variant: z_sched_wake(), which wakes one thread.
OneDrainer(q) == IF drainq[q] = {} THEN {} ELSE {CHOOSE c \in drainq[q] : TRUE}

\* The threads z_sched_wake_all() takes off the drainq.
Drainers(q) == drainq[q]

(***************************************************************************)
(* Plain work items                                                        *)
(***************************************************************************)
QueueStart(q) ==
  /\ NoCallback
  /\ "STARTED" \notin qflags[q]
  /\ qflags' = [qflags EXCEPT ![q] = {"STARTED"}]
  /\ pending' = [pending EXCEPT ![q] = <<>>]
  /\ drainq' = [drainq EXCEPT ![q] = {}]
  /\ wpc' = [wpc EXCEPT ![q] = "loop"]
  /\ UNCHANGED <<workVars, timerVars, running, clientVars>>

Submit(caller, q, w) ==
  /\ NoCallback
  /\ "submit" \in Apis
  /\ MayCall(caller)
  /\ SubmitLocked(w, q, caller, flags[w])
  /\ UNCHANGED <<dqueue, timerVars, qflags, drainq, running, clientVars>>

\* k_work_flush(): returns at once if the item is neither queued nor
\* running, else queues the client's flusher and waits for it.
Flush(c, w) ==
  /\ NoCallback
  /\ "flush" \in Apis
  /\ cpc[c] = "idle"
  /\ flags[w] \cap {"QUEUED", "RUNNING"} # {}
  /\ flags' = [flags EXCEPT ![c] = {}]
  /\ pending' = [pending EXCEPT ![wqueue[w]] = FlusherQueued(@, w, c)]
  /\ wpc' = Notified(wqueue[w])
  /\ sem' = [sem EXCEPT ![c] = 0]
  /\ cpc' = [cpc EXCEPT ![c] = "flush"]
  /\ UNCHANGED <<wqueue, dqueue, timerVars, qflags, drainq, running, pending_cancels>>

Cancel(w) ==
  /\ NoCallback
  /\ "cancel" \in Apis
  /\ CancelAsyncLocked(w, flags[w])
  /\ UNCHANGED <<wqueue, dqueue, timerVars, qflags, drainq, running, wpc, clientVars>>

CancelSync(c, w) ==
  /\ NoCallback
  /\ "cancel_sync" \in Apis
  /\ cpc[c] = "idle"
  /\ flags[w] # {}
  /\ CancelAsyncLocked(w, flags[w])
  /\ CancelSyncLocked(c, w)
  /\ UNCHANGED <<wqueue, dqueue, timerVars, qflags, drainq, running, wpc>>

\* The client's k_sem_take() on its k_work_sync returns.
SyncReturn(c) ==
  /\ NoCallback
  /\ cpc[c] \in {"flush", "cancel"}
  /\ sem[c] = 1
  /\ sem' = [sem EXCEPT ![c] = 0]
  /\ cpc' = [cpc EXCEPT ![c] = "idle"]
  /\ UNCHANGED <<workVars, timerVars, queueVars, pending_cancels>>

(***************************************************************************)
(* Queue operations                                                        *)
(***************************************************************************)
\* k_work_queue_drain() when it has something to wait for.  The queue must
\* have been started: its wait queues are initialised there.
Drain(c, q, plug) ==
  /\ NoCallback
  /\ "drain" \in Apis
  /\ cpc[c] = "idle"
  /\ "STARTED" \in qflags[q]
  /\ \/ qflags[q] \cap {"BUSY", "DRAIN"} # {}
     \/ plug
     \/ pending[q] # <<>>
  /\ qflags' = [qflags EXCEPT ![q] = @ \cup {"DRAIN"} \cup
                                     (IF plug THEN {"PLUGGED"} ELSE {})]
  /\ wpc' = Notified(q)
  /\ drainq' = [drainq EXCEPT ![q] = @ \cup {c}]
  /\ cpc' = [cpc EXCEPT ![c] = "drain"]
  /\ UNCHANGED <<workVars, timerVars, pending, running, pending_cancels, sem>>

Unplug(q) ==
  /\ NoCallback
  /\ "unplug" \in Apis
  /\ qflags' = [qflags EXCEPT ![q] = @ \ {"PLUGGED"}]
  /\ UNCHANGED <<workVars, timerVars, pending, drainq, running, wpc, clientVars>>

(***************************************************************************)
(* The queue's thread: work_queue_main()                                   *)
(***************************************************************************)
\* There is pending work: take it and call its handler.
WorkerTake(q) ==
  /\ NoCallback
  /\ wpc[q] = "loop"
  /\ pending[q] # <<>>
  /\ LET i == Head(pending[q]) IN
     /\ flags' = [flags EXCEPT ![i] = (@ \cup {"RUNNING"}) \ {"QUEUED"}]
     /\ running' = [running EXCEPT ![q] = i]
  /\ pending' = [pending EXCEPT ![q] = Tail(@)]
  /\ qflags' = [qflags EXCEPT ![q] = @ \cup {"BUSY"}]
  /\ wpc' = [wpc EXCEPT ![q] = "handler"]
  /\ UNCHANGED <<wqueue, dqueue, timerVars, drainq, clientVars>>

\* Nothing is pending: finish a drain if one is under way, and sleep.
WorkerSleep(q) ==
  /\ NoCallback
  /\ wpc[q] = "loop"
  /\ pending[q] = <<>>
  /\ wpc' = [wpc EXCEPT ![q] = "wait"]
  /\ \/ /\ "DRAIN" \in qflags[q]
        /\ qflags' = [qflags EXCEPT ![q] = @ \ {"DRAIN"}]
        /\ drainq' = [drainq EXCEPT ![q] = @ \ Drainers(q)]
        /\ cpc' = [c \in Clients |-> IF c \in Drainers(q) THEN "idle" ELSE cpc[c]]
     \/ /\ "DRAIN" \notin qflags[q]
        /\ UNCHANGED <<qflags, drainq, cpc>>
  /\ UNCHANGED <<workVars, timerVars, pending, running, pending_cancels, sem>>

\* handle_flush(), the handler of a flusher, gives the client's semaphore.
FlushHandler(q) ==
  /\ NoCallback
  /\ wpc[q] = "handler"
  /\ running[q] \in Clients
  /\ sem' = [sem EXCEPT ![running[q]] = 1]
  /\ wpc' = [wpc EXCEPT ![q] = "flushed"]
  /\ UNCHANGED <<workVars, timerVars, qflags, pending, drainq, running, pending_cancels, cpc>>

\* A handler returned: clear RUNNING, finalize_cancel_locked() if the item
\* is being cancelled, clear BUSY.
WorkerFinish(q) ==
  LET i == running[q] IN
  /\ NoCallback
  /\ \/ wpc[q] = "flushed"
     \/ wpc[q] = "handler" /\ i \in Works
  /\ flags' = [flags EXCEPT ![i] = @ \ {"RUNNING", "CANCELING"}]
  /\ pending_cancels' = pending_cancels \ {<<c, i>> : c \in Cancelers(i)}
  /\ sem' = [c \in Clients |-> IF c \in Cancelers(i) THEN 1 ELSE sem[c]]
  /\ running' = [running EXCEPT ![q] = NULL]
  /\ qflags' = [qflags EXCEPT ![q] = @ \ {"BUSY"}]
  /\ wpc' = [wpc EXCEPT ![q] = "loop"]
  /\ UNCHANGED <<wqueue, dqueue, timerVars, pending, drainq, cpc>>

(***************************************************************************)
(* Delayable work items                                                    *)
(***************************************************************************)
\* Faulty variants: the DELAYED flag is left set; the caller is told that
\* nothing was scheduled.
UnscheduledNot(w) == flags[w]

\* unschedule_locked(): the item's flags, and its timeout, afterwards; it
\* succeeds if the item was DELAYED and its timeout was still linked.
Unscheduled(w) == flags[w] \ {"DELAYED"}
Unlinked(w) == IF "DELAYED" \in flags[w] THEN [linked EXCEPT ![w] = FALSE] ELSE linked
Unschedules(w) == "DELAYED" \in flags[w] /\ linked[w]

\* schedule_for_queue_locked() on an item with flags f and timeouts tl.  A
\* K_FOREVER delay sets DELAYED but z_add_timeout() links nothing.
\* z_add_timeout() asserts that the timeout it links is not linked already; a
\* behaviour does not go past a failed assertion.
ScheduleLocked(caller, q, w, d, f, tl) ==
  \/ /\ d = "NO_WAIT"
     /\ SubmitLocked(w, q, caller, f)
     /\ linked' = tl
     /\ UNCHANGED dqueue
  \/ /\ d # "NO_WAIT"
     /\ flags' = [flags EXCEPT ![w] = f \cup {"DELAYED"}]
     /\ dqueue' = [dqueue EXCEPT ![w] = q]
     /\ \/ d = "TICKS" /\ ~tl[w] /\ linked' = [tl EXCEPT ![w] = TRUE]
        \/ d = "FOREVER" /\ linked' = tl
     /\ UNCHANGED <<wqueue, pending, wpc>>

\* k_work_schedule_for_queue(): only an idle or merely running item.
Schedule(caller, q, w, d) ==
  /\ NoCallback
  /\ "schedule" \in Apis
  /\ MayCall(caller)
  /\ flags[w] \subseteq {"RUNNING"}
  /\ ScheduleLocked(caller, q, w, d, flags[w], linked)
  /\ UNCHANGED <<firing, qflags, drainq, running, clientVars>>

Reschedule(caller, q, w, d) ==
  /\ NoCallback
  /\ "reschedule" \in Apis
  /\ MayCall(caller)
  /\ ScheduleLocked(caller, q, w, d, Unscheduled(w), Unlinked(w))
  /\ UNCHANGED <<firing, qflags, drainq, running, clientVars>>

CancelDelayable(w) ==
  /\ NoCallback
  /\ "cancel_delayable" \in Apis
  /\ CancelAsyncLocked(w, Unscheduled(w))
  /\ linked' = Unlinked(w)
  /\ UNCHANGED <<wqueue, dqueue, firing, qflags, drainq, running, wpc, clientVars>>

CancelDelayableSync(c, w) ==
  /\ NoCallback
  /\ "cancel_delayable_sync" \in Apis
  /\ cpc[c] = "idle"
  /\ flags[w] # {}
  /\ CancelAsyncLocked(w, Unscheduled(w))
  /\ CancelSyncLocked(c, w)
  /\ linked' = Unlinked(w)
  /\ UNCHANGED <<wqueue, dqueue, firing, qflags, drainq, running, wpc>>

\* k_work_flush_delayable() on a busy item: submit it if it was still
\* scheduled, then flush as k_work_flush() does.
FlushDelayable(c, w) ==
  LET submit == Unschedules(w) /\ Submittable(w, dqueue[w], NULL)
      to     == SubmitQueue(w, dqueue[w])
      f      == Unscheduled(w) \cup (IF submit THEN {"QUEUED"} ELSE {})
      wq     == IF submit THEN to ELSE wqueue[w]
      pend   == IF submit THEN [pending EXCEPT ![to] = Enqueued(@, w)] ELSE pending
  IN
  /\ NoCallback
  /\ "flush_delayable" \in Apis
  /\ cpc[c] = "idle"
  /\ flags[w] # {}
  /\ linked' = Unlinked(w)
  /\ wqueue' = [wqueue EXCEPT ![w] = wq]
  /\ \/ /\ f \cap {"QUEUED", "RUNNING"} # {}
        /\ flags' = [flags EXCEPT ![w] = f, ![c] = {}]
        /\ pending' = [pend EXCEPT ![wq] = FlusherQueued(@, w, c)]
        /\ wpc' = Notified(wq)
        /\ sem' = [sem EXCEPT ![c] = 0]
        /\ cpc' = [cpc EXCEPT ![c] = "flush"]
     \/ /\ f \cap {"QUEUED", "RUNNING"} = {}
        /\ flags' = [flags EXCEPT ![w] = f]
        /\ UNCHANGED <<pending, wpc, sem, cpc>>
  /\ UNCHANGED <<dqueue, firing, qflags, drainq, running, pending_cancels>>

\* sys_clock_announce() dequeues an expired timeout ...
TimeoutExpires(w) ==
  /\ NoCallback
  /\ firing = NULL
  /\ linked[w]
  /\ linked' = [linked EXCEPT ![w] = FALSE]
  /\ firing' = w
  /\ UNCHANGED <<workVars, queueVars, clientVars>>

\* ... and calls work_timeout(), which submits the item if it is DELAYED.
WorkTimeout ==
  /\ firing # NULL
  /\ firing' = NULL
  /\ \/ /\ "DELAYED" \in flags[firing]
        /\ SubmitLocked(firing, dqueue[firing], NULL, Unscheduled(firing))
     \/ /\ "DELAYED" \notin flags[firing]
        /\ UNCHANGED <<flags, wqueue, pending, wpc>>
  /\ UNCHANGED <<dqueue, linked, qflags, drainq, running, clientVars>>

(***************************************************************************)
(* The specification                                                       *)
(***************************************************************************)
PlainCalls ==
  \E w \in PlainWorks :
    \/ \E caller \in Callers, q \in Callers : Submit(caller, q, w)
    \/ \E c \in Clients : Flush(c, w) \/ CancelSync(c, w)
    \/ Cancel(w)

DelayCalls ==
  \E w \in DelayWorks :
    \/ \E caller \in Callers, q \in Callers, d \in Delays :
          Schedule(caller, q, w, d) \/ Reschedule(caller, q, w, d)
    \/ \E c \in Clients : FlushDelayable(c, w) \/ CancelDelayableSync(c, w)
    \/ CancelDelayable(w)

QueueCalls ==
  \E q \in Queues :
    \/ QueueStart(q)
    \/ \E c \in Clients, plug \in BOOLEAN : Drain(c, q, plug)
    \/ Unplug(q)

Worker(q) == WorkerTake(q) \/ WorkerSleep(q) \/ FlushHandler(q) \/ WorkerFinish(q)

Next ==
  /\ UNCHANGED timeout_gap
  /\ \/ PlainCalls
     \/ DelayCalls
     \/ QueueCalls
     \/ \E q \in Queues : Worker(q)
     \/ \E c \in Clients : SyncReturn(c)
     \/ \E w \in DelayWorks : TimeoutExpires(w)
     \/ WorkTimeout

Spec == Init /\ [][Next]_vars

\* A started queue's thread is scheduled and its handlers return; a woken
\* client runs; timeouts expire and their callbacks run.  Fairness is strong
\* for what a callback in progress holds up: callbacks end, and timeouts
\* leave time between ticks.
Fairness ==
  /\ \A q \in Queues : SF_stateVars(Worker(q))
  /\ \A c \in Clients : SF_stateVars(SyncReturn(c))
  /\ \A w \in DelayWorks : SF_stateVars(TimeoutExpires(w))
  /\ WF_stateVars(WorkTimeout)

FairSpec == Spec /\ Fairness

(***************************************************************************)
(* Properties                                                              *)
(***************************************************************************)
\* Every variable has the type its C declaration and use give it
\* (timeout_gap, which tells the machines apart, never changes).
TypeOK ==
  /\ flags \in [Items -> SUBSET WorkFlags]
  /\ wqueue \in [Works -> Callers]
  /\ dqueue \in [DelayWorks -> Callers]
  /\ linked \in [DelayWorks -> BOOLEAN]
  /\ firing \in DelayWorks \cup {NULL}
  /\ qflags \in [Queues -> SUBSET QueueFlags]
  /\ pending \in [Queues -> Seq(Items)]
  /\ drainq \in [Queues -> SUBSET Clients]
  /\ running \in [Queues -> Items \cup {NULL}]
  /\ wpc \in [Queues -> {"off", "loop", "wait", "handler", "flushed"}]
  /\ pending_cancels \subseteq Clients \X Works
  /\ sem \in [Clients -> {0, 1}]
  /\ cpc \in [Clients -> {"idle", "flush", "cancel", "drain"}]

\* An item is on a pending list exactly when it is QUEUED, on the list of
\* its own queue, and only once: the one sys_snode_t in a k_work is never
\* linked twice, whatever submit, cancel, flush and timeouts interleave.
QueuedIffPending ==
  \A q \in Queues, w \in Works :
    /\ IsIn(pending[q], w) <=> ("QUEUED" \in flags[w] /\ wqueue[w] = q)
    /\ Once(pending[q], w)

\* The RUNNING flag is that of the one queue thread that has the item, and
\* that is the queue the item says it is on: no item's handler is ever
\* entered by two queues at once.
NoReentrancy ==
  \A w \in Works :
    /\ "RUNNING" \in flags[w] <=> \E q \in Queues : running[q] = w
    /\ \A q \in Queues : running[q] = w => wqueue[w] = q

\* A cancellation is under way only while a queue thread is in the handler
\* and will finalize it, and a CANCELING item is not queued again.
CancelingIsRunning ==
  \A w \in Works :
    "CANCELING" \in flags[w] => "RUNNING" \in flags[w] /\ "QUEUED" \notin flags[w]

\* The queue thread's place in work_queue_main() agrees with the item it
\* has, and a queue that was not started is empty.
WorkerState ==
  \A q \in Queues :
    /\ wpc[q] = "off" <=> "STARTED" \notin qflags[q]
    /\ wpc[q] = "off" => pending[q] = <<>>
    /\ running[q] = NULL <=> wpc[q] \notin {"handler", "flushed"}
    /\ wpc[q] = "flushed" => running[q] \in Clients

\* A k_work that is not delayable is never DELAYED.
PlainNotDelayed == \A w \in PlainWorks : "DELAYED" \notin flags[w]

\* A queued item has a queue.
QueuedHasQueue == \A w \in Works : "QUEUED" \in flags[w] => wqueue[w] # NULL

\* The invariant of items, inductive as it stands: flags, pending lists and
\* queue threads agree whatever submissions, cancellations, flushes, drains
\* and timeouts interleave.
IInv ==
  /\ TypeOK
  /\ QueuedIffPending
  /\ NoReentrancy
  /\ CancelingIsRunning
  /\ WorkerState
  /\ PlainNotDelayed
  /\ QueuedHasQueue

\* A canceller still waiting for its semaphore has its record on
\* pending_cancels, for an item whose cancellation is not finalized yet: it
\* cannot be left behind.
CancellerIsRecorded ==
  /\ \A c \in Clients :
       cpc[c] = "cancel" /\ sem[c] = 0 <=> \E w \in Works : <<c, w>> \in pending_cancels
  /\ \A p \in pending_cancels : "CANCELING" \in flags[p[2]]

\* A queue thread sleeps on notifyq only when there is nothing to do: no
\* submission, flush or drain request is missed by it.
NoLostWakeup ==
  \A q \in Queues :
    wpc[q] = "wait" => pending[q] = <<>> /\ "DRAIN" \notin qflags[q]

\* Once a plugged queue has drained nothing is pending or running on it
\* until it is unplugged.
PluggedIsQuiet ==
  \A q \in Queues :
    "PLUGGED" \in qflags[q] /\ "DRAIN" \notin qflags[q] =>
      pending[q] = <<>> /\ running[q] = NULL

\* The client's flusher is on the list of q, or q's thread is about to give
\* its semaphore.
FlusherIn(c, q) == IsIn(pending[q], c) \/ (running[q] = c /\ wpc[q] = "handler")

\* A flusher is in one place, exactly while its client waits for it; a client
\* waits on one drainq at most, and then for the drain; a canceller waits for
\* one item.  So no wake-up reaches a client that waits for something else.
WaitersPlaced ==
  \A c \in Clients :
    /\ cpc[c] = "flush" /\ sem[c] = 0 <=> \E q \in Queues : FlusherIn(c, q)
    /\ \A q \in Queues :
         /\ Once(pending[q], c)
         /\ FlusherIn(c, q) => \A r \in Queues : FlusherIn(c, r) => r = q
         /\ IsIn(pending[q], c) => ~(running[q] = c /\ wpc[q] = "handler")
         /\ c \in drainq[q] => cpc[c] = "drain" /\ \A r \in Queues : c \in drainq[r] => r = q
    /\ \A v, w \in Works : {<<c, v>>, <<c, w>>} \subseteq pending_cancels => v = w

\* The invariant of those who wait: cancellers are recorded and every waiter
\* is in its place, queue threads sleep only with nothing to do, and plugged
\* queues are quiet.
WaitersInv == CancellerIsRecorded /\ WaitersPlaced /\ NoLostWakeup /\ PluggedIsQuiet

\* Without K_FOREVER delays, a DELAYED item has a timeout that will submit
\* it, or whose callback is about to.  Where no other code runs between the
\* dequeue of a timeout and its callback, only a DELAYED item has a linked
\* timeout, so that the assertion of z_add_timeout() holds when an item is
\* scheduled; where it does, rescheduling in the gap leaves a timeout linked
\* to an item that the callback then submits, and the assertion can fail.
DelayedHasTimeout ==
  /\ "FOREVER" \notin Delays =>
       \A w \in DelayWorks : "DELAYED" \in flags[w] => linked[w] \/ firing = w
  /\ ~timeout_gap =>
       \A w \in DelayWorks : linked[w] => "DELAYED" \in flags[w]

\* Items of a queue start in the order in which they were queued: no step
\* puts an item in front of one that was queued before it, or starts it
\* while the earlier one is still pending.
FifoOrder ==
  [][\A q \in Queues, v \in Works, w \in Works :
       v # w /\ IsIn(pending[q], v) /\ IsIn(pending'[q], v) /\ ~Before(pending[q], w, v) =>
         /\ ~Before(pending'[q], w, v)
         /\ running'[q] = w => running[q] = w]_vars

\* k_work_flush(), k_work_cancel_sync() and their delayable counterparts
\* return, whatever the other callers do.
SyncReturns ==
  \A c \in Clients : cpc[c] \in {"flush", "cancel"} ~> cpc[c] = "idle"

\* A queued item is taken by the queue's thread or cancelled: none starves.
QueuedIsTaken ==
  \A w \in Works : "QUEUED" \in flags[w] ~> "QUEUED" \notin flags[w]

\* k_work_queue_drain() returns, unless handlers go on submitting chained
\* work for ever.
DrainReturns ==
  \/ []<><<\E q \in Queues, w \in Works :
            /\ "DRAIN" \in qflags[q]
            /\ ~IsIn(pending[q], w) /\ IsIn(pending[q], w)'>>_vars
  \/ \A c \in Clients : cpc[c] = "drain" ~> cpc[c] = "idle"

\* An item scheduled for a started queue is queued, by its timeout or by
\* k_work_flush_delayable(), when nothing cancels it, unless the queue is
\* draining or plugged by then.
ScheduledIsQueued ==
  \A w \in DelayWorks, q \in Queues :
    ("DELAYED" \in flags[w] /\ dqueue[w] = q /\ "STARTED" \in qflags[q])
      ~> "QUEUED" \in flags[w] \/ qflags[q] \cap {"DRAIN", "PLUGGED"} # {}


(***************************************************************************)
(* The work queues implement WorkPromise                                   *)
(***************************************************************************)
waitingOn == [w \in Works |-> IF "QUEUED" \in flags[w] THEN wqueue[w] ELSE NULL]
executing == [q \in Queues |-> IF running[q] \in Works THEN running[q] ELSE NULL]

Promise == INSTANCE WorkPromise WITH todo <- waitingOn, exec <- executing

\* Whatever flushers, cancellations, drains and timeouts do, an item behaves
\* as one that is submitted, withdrawn, begun and ended.
ImplementsPromise == Promise!Spec
=============================================================================
