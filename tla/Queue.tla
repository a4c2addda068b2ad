------------------------------- MODULE Queue -------------------------------
(***************************************************************************)
(* Queues, and the FIFOs and LIFOs made of them (kernel/queue.c): a list   *)
(* of data items without a limit.  An item of k_queue_alloc_append() is    *)
(* linked by a node of its own; when none can be allocated nothing happens.*)
(***************************************************************************)
EXTENDS Blocking

KQueue == [kind |-> "queue", data_q |-> <<>>]

InsertedAt(s, k, x) == SubSeq(s, 1, k) \o <<x>> \o SubSeq(s, k + 1, Len(s))

\* queue_insert(): after the k first items; k_queue_append() inserts after
\* all of them, k_queue_prepend() after none.
QueueInsert(x, k) ==
  /\ x \in Outside(obj.data_q)
  /\ \/ ServeFirst(x) /\ UNCHANGED obj
     \/ /\ Waiters = <<>>
        /\ obj' = [obj EXCEPT !.data_q = InsertedAt(@, k, x)]
        /\ UNCHANGED <<schedVars, swap_data>>
  /\ UNCHANGED call

\* k_queue_append_list(): the items go to the threads that wait, and what
\* is left to the end of the queue.
QueueAppendList(x, y) ==
  LET n == Len(Waiters)
      S == {Waiters[k] : k \in 1..n \cap 1..2}
  IN
  /\ {x, y} \subseteq Outside(obj.data_q) /\ x # y
  /\ Serve(S, "0", [t \in S |-> IF t = First THEN x ELSE y])
  /\ obj' = [obj EXCEPT !.data_q = @ \o SubSeq(<<x, y>>, n + 1, 2)]
  /\ UNCHANGED call

\* k_queue_get()
QueueGet ==
  /\ obj.data_q # <<>>
  /\ obj' = [obj EXCEPT !.data_q = Tail(@)]
  /\ UNCHANGED <<schedVars, call, swap_data>>

QueueGetWait(t, timed) ==
  /\ obj.data_q = <<>>
  /\ Wait(t, "get", NONE, timed)
  /\ UNCHANGED obj

\* k_queue_cancel_wait(), with a thread to wake: its call returns NULL.
QueueCancelWait ==
  /\ ServeFirst(NONE)
  /\ UNCHANGED <<obj, call>>

QueueNext ==
  /\ obj.kind = "queue"
  /\ \/ \E x \in Items : \E k \in 0..Len(obj.data_q) : QueueInsert(x, k)
     \/ \E x, y \in Items : QueueAppendList(x, y)
     \/ QueueGet \/ QueueCancelWait
     \/ \E t \in Threads, timed \in BOOLEAN : QueueGetWait(t, timed)

(***************************************************************************)
(* Properties                                                              *)
(***************************************************************************)
\* No thread waits while there is an item to be had.
QueueWaits == obj.kind = "queue" => Waiters = <<>> \/ obj.data_q = <<>>
=============================================================================
