---------------------------- MODULE WorkPromise ----------------------------
(***************************************************************************)
(* What the work queues promise a user of work items (the documentation of *)
(* k_work_submit_to_queue() and k_work_cancel() in kernel.h): an item waits *)
(* on at most one queue, is executed by the queue it waits on, by one       *)
(* queue at a time, and once for each time it was submitted; a submission   *)
(* made while the item executes goes to the queue that executes it.         *)
(***************************************************************************)
CONSTANTS Queues, Works, NULL

VARIABLES
  todo,   \* todo[w]: the queue on which w waits, or NULL
  exec    \* exec[q]: the item q executes, or NULL

Init ==
  /\ todo = [w \in Works |-> NULL]
  /\ exec = [q \in Queues |-> NULL]

Submit(w, q) ==
  /\ todo[w] = NULL
  /\ \A r \in Queues : exec[r] = w => r = q
  /\ todo' = [todo EXCEPT ![w] = q]
  /\ UNCHANGED exec

Withdraw(w) ==
  /\ todo[w] # NULL
  /\ todo' = [todo EXCEPT ![w] = NULL]
  /\ UNCHANGED exec

Begin(w, q) ==
  /\ todo[w] = q
  /\ exec[q] = NULL
  /\ \A r \in Queues : exec[r] # w
  /\ todo' = [todo EXCEPT ![w] = NULL]
  /\ exec' = [exec EXCEPT ![q] = w]

End(q) ==
  /\ exec[q] # NULL
  /\ exec' = [exec EXCEPT ![q] = NULL]
  /\ UNCHANGED todo

Next ==
  \/ \E w \in Works : Withdraw(w) \/ \E q \in Queues : Submit(w, q) \/ Begin(w, q)
  \/ \E q \in Queues : End(q)

Spec == Init /\ [][Next]_<<todo, exec>>
=============================================================================
