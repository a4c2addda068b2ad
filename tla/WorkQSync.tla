----------------------------- MODULE WorkQSync -----------------------------
(***************************************************************************)
(* WorkQ with a history variable: the instances of an item that a thread   *)
(* blocked in a flush or a cancellation of it has yet to see completed.    *)
(***************************************************************************)
EXTENDS WorkQ

VARIABLE owed   \* owed[c]: <<item, "queued">> and <<item, "running">>

varsS == <<vars, owed>>

\* The blocking calls on an item.
SyncCall(c, w) ==
  \/ w \in PlainWorks /\ (Flush(c, w) \/ CancelSync(c, w))
  \/ w \in DelayWorks /\ (FlushDelayable(c, w) \/ CancelDelayableSync(c, w))

\* What the call must wait for: what is queued or running when it releases
\* the lock.
Busy(w) ==
  (IF "QUEUED" \in flags'[w] THEN {<<w, "queued">>} ELSE {}) \cup
  (IF "RUNNING" \in flags'[w] THEN {<<w, "running">>} ELSE {})

\* The same instances after a step: a queued one is taken or cancelled, a
\* running one finishes.
Begins(w) == "RUNNING" \notin flags[w] /\ "RUNNING" \in flags'[w]
StillQueued(o) == {w \in Works : <<w, "queued">> \in o /\ "QUEUED" \in flags'[w]}
StillRunning(o) ==
  {w \in Works : \/ <<w, "running">> \in o /\ "RUNNING" \in flags'[w]
                 \/ <<w, "queued">> \in o /\ Begins(w)}
Aged(o) ==
  {<<w, "queued">> : w \in StillQueued(o)} \cup {<<w, "running">> : w \in StillRunning(o)}

InitS == Init /\ owed = [c \in Clients |-> {}]

NextS ==
  \/ \E c \in Clients, w \in Works :
       /\ SyncCall(c, w) /\ UNCHANGED timeout_gap
       /\ owed' = [x \in Clients |-> IF x = c THEN Busy(w) ELSE Aged(owed[x])]
  \/ /\ Next
     /\ ~\E c \in Clients : cpc[c] = "idle" /\ cpc'[c] \in {"flush", "cancel"}
     /\ owed' = [c \in Clients |-> Aged(owed[c])]

SpecS == InitS /\ [][NextS]_varsS
FairSpecS == SpecS /\ Fairness

\* When the semaphore of a k_work_flush() or of a cancellation is given, the
\* instances of the item that were queued or running at the call have
\* completed or been cancelled: neither call returns early.
SyncWaits ==
  \A c \in Clients : cpc[c] \in {"flush", "cancel"} /\ sem[c] = 1 => owed[c] = {}
=============================================================================
