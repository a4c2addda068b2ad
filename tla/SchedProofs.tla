---------------------------- MODULE SchedProofs ----------------------------
(***************************************************************************)
(* Theorems about the scheduler, for any number of threads and any         *)
(* priorities.  What each function of sched.c does to the record k is      *)
(* proved once; an action's step then follows from the functions it calls. *)
(***************************************************************************)
EXTENDS Sched, ListFacts, TLAPS

Queues == Threads \cup {wait_q}
Flags == {"QUEUED", "PENDING", "PRESTART", "DEAD", "SUSPENDED"}
Ops == [at : {"suspend", "abort_timeout", "mark", "ready"}, on : Threads]

\* The values of k.
K ==
  [current   : Threads \cup {idle},
   cache     : Threads \cup {idle},
   runq      : Seq(Threads),
   state     : [Threads -> SUBSET Flags],
   prio      : [Threads -> Int],
   locked    : [Threads -> Nat],
   pended_on : [Threads -> Queues \cup {NONE}],
   waitq     : [Queues -> Seq(Threads)],
   linked    : [Threads -> BOOLEAN]]

\* Each thread is on the queues that its flags say, once, and a thread on the
\* run queue is ready.
Nodes(s) ==
  /\ \A t \in Threads :
       /\ IsIn(s.runq, t) <=> "QUEUED" \in s.state[t]
       /\ Once(s.runq, t)
       /\ "PENDING" \in s.state[t] <=> s.pended_on[t] # NONE
       /\ "QUEUED" \in s.state[t] => z_is_thread_ready(s, t)
  /\ \A t \in Threads, q \in Queues :
       (IsIn(s.waitq[q], t) <=> s.pended_on[t] = q) /\ Once(s.waitq[q], t)
  /\ Sorted(s.runq, s.prio)

\* Inside the calls: every thread that is ready is queued, but for those of X
\* that are still to be readied, and threads that have ended are nowhere, but
\* for those of D that are still ending.
Inv(s, X, D) ==
  /\ s \in K
  /\ Nodes(s)
  /\ \A t \in Threads : z_is_thread_ready(s, t) => "QUEUED" \in s.state[t] \/ t \in X
  /\ \A t \in Threads \ D :
       "DEAD" \in s.state[t] =>
         /\ ~s.linked[t] /\ s.pended_on[t] = NONE
         /\ \A u \in Threads : s.pended_on[u] # t

(***************************************************************************)
(* The fields of the records that the functions return                     *)
(***************************************************************************)
\* A record of K is known by its fields.
LEMMA KFields ==
  ASSUME NEW s \in K
  PROVE  /\ s.current \in Threads \cup {idle} /\ s.cache \in Threads \cup {idle}
         /\ s.runq \in Seq(Threads)
         /\ s.state \in [Threads -> SUBSET Flags]
         /\ s.prio \in [Threads -> Int]
         /\ s.locked \in [Threads -> Nat]
         /\ s.pended_on \in [Threads -> Queues \cup {NONE}]
         /\ s.waitq \in [Queues -> Seq(Threads)]
         /\ s.linked \in [Threads -> BOOLEAN]
  BY DEF K

\* queue_thread() adds the flag and the node.
LEMMA QueueFields ==
  ASSUME NEW s \in K, NEW t \in Threads
  PROVE  LET r == queue_thread(s, t) IN
         /\ r \in K
         /\ r.state = [s.state EXCEPT ![t] = @ \cup {"QUEUED"}]
         /\ r.runq = Inserted(s.runq, s.prio, t)
         /\ r.current = s.current /\ r.cache = s.cache /\ r.prio = s.prio
         /\ r.locked = s.locked /\ r.pended_on = s.pended_on
         /\ r.waitq = s.waitq /\ r.linked = s.linked
<1>1. Inserted(s.runq, s.prio, t) \in Seq(Threads)
  BY KFields, InsertedFacts
<1>2. [s.state EXCEPT ![t] = @ \cup {"QUEUED"}] \in [Threads -> SUBSET Flags]
  BY KFields DEF Flags
<1> QED
  BY <1>1, <1>2 DEF queue_thread, K

\* dequeue_thread() takes them away again, if they are there.
LEMMA DequeueFields ==
  ASSUME NEW s \in K, Nodes(s), NEW t \in Threads
  PROVE  LET r == dequeue_thread(s, t) IN
         /\ r \in K
         /\ r.state = [s.state EXCEPT ![t] = @ \ {"QUEUED"}]
         /\ r.runq = IF "QUEUED" \in s.state[t] THEN RemoveItem(s.runq, t) ELSE s.runq
         /\ r.current = s.current /\ r.cache = s.cache /\ r.prio = s.prio
         /\ r.locked = s.locked /\ r.pended_on = s.pended_on
         /\ r.waitq = s.waitq /\ r.linked = s.linked
<1>1. CASE "QUEUED" \notin s.state[t]
  <2>1. [s.state EXCEPT ![t] = @ \ {"QUEUED"}] = s.state
    <3>1. s.state \in [Threads -> SUBSET Flags] /\ s.state[t] \ {"QUEUED"} = s.state[t]
      BY <1>1, KFields
    <3> QED
      BY <3>1
  <2>2. dequeue_thread(s, t) = s
    BY <1>1 DEF dequeue_thread
  <2> QED
    BY <1>1, <2>1, <2>2
<1>2. CASE "QUEUED" \in s.state[t]
  <2>1. RemoveItem(s.runq, t) \in Seq(Threads)
    BY <1>2, KFields, RemoveFacts DEF Nodes
  <2>2. [s.state EXCEPT ![t] = @ \ {"QUEUED"}] \in [Threads -> SUBSET Flags]
    BY KFields
  <2> QED
    BY <1>2, <2>1, <2>2 DEF dequeue_thread, K
<1> QED
  BY <1>1, <1>2

\* Flags that are cleared, and flags that are set.
LEMMA StateFields ==
  ASSUME NEW s \in K, NEW t \in Threads, NEW f \in SUBSET Flags
  PROVE  LET r == [s EXCEPT !.state[t] = f] IN
         /\ r \in K
         /\ r.state = [s.state EXCEPT ![t] = f]
         /\ r.current = s.current /\ r.cache = s.cache /\ r.prio = s.prio
         /\ r.locked = s.locked /\ r.pended_on = s.pended_on /\ r.runq = s.runq
         /\ r.waitq = s.waitq /\ r.linked = s.linked
<1>2. [s.state EXCEPT ![t] = f] \in [Threads -> SUBSET Flags]
  BY KFields
<1> QED
  BY <1>2 DEF K

\* Clear() takes flags away from one thread only.
LEMMA ClearFields ==
  ASSUME NEW s \in K, NEW t \in Threads, NEW f
  PROVE  LET r == Clear(s, t, f) IN
         /\ r \in K
         /\ r.state = [s.state EXCEPT ![t] = @ \ f]
         /\ r.current = s.current /\ r.cache = s.cache /\ r.prio = s.prio
         /\ r.locked = s.locked /\ r.pended_on = s.pended_on /\ r.runq = s.runq
         /\ r.waitq = s.waitq /\ r.linked = s.linked
<1>1. [s.state EXCEPT ![t] = @ \ f] \in [Threads -> SUBSET Flags]
  BY KFields
<1> QED
  BY <1>1 DEF Clear, K

\* The timeout of a thread is added or aborted.
LEMMA LinkFields ==
  ASSUME NEW s \in K, NEW t \in Threads, NEW b \in BOOLEAN
  PROVE  LET r == [s EXCEPT !.linked[t] = b] IN
         /\ r \in K
         /\ r.linked = [s.linked EXCEPT ![t] = b]
         /\ r.current = s.current /\ r.cache = s.cache /\ r.prio = s.prio
         /\ r.locked = s.locked /\ r.pended_on = s.pended_on /\ r.runq = s.runq
         /\ r.waitq = s.waitq /\ r.state = s.state
<1>1. [s.linked EXCEPT ![t] = b] \in [Threads -> BOOLEAN]
  BY KFields
<1> QED
  BY <1>1 DEF K

\* The first thread of the run queue.
LEMMA NextUp ==
  ASSUME NEW s \in K, Nodes(s)
  PROVE  /\ next_up(s) \in Threads \cup {idle}
         /\ next_up(s) # idle => /\ next_up(s) \in Threads /\ "QUEUED" \in s.state[next_up(s)]
                                 /\ z_is_thread_ready(s, next_up(s))
<1>1. CASE s.runq = <<>>
  BY <1>1 DEF next_up
<1>2. CASE s.runq # <<>>
  <2>1. s.runq \in Seq(Threads) /\ Head(s.runq) \in Threads /\ IsIn(s.runq, Head(s.runq))
    BY <1>2, KFields, TailFacts DEF IsIn
  <2> QED
    BY <1>2, <2>1 DEF next_up, Nodes
<1> QED
  BY <1>1, <1>2

\* update_cache() changes the cache only.
LEMMA CacheFields ==
  ASSUME NEW s \in K, NEW b \in BOOLEAN
  PROVE  LET r == update_cache(s, b) IN
         /\ r \in K
         /\ r.cache = IF should_preempt(s, b) THEN next_up(s) ELSE s.current
         /\ r.current = s.current /\ r.state = s.state /\ r.prio = s.prio
         /\ r.locked = s.locked /\ r.pended_on = s.pended_on /\ r.runq = s.runq
         /\ r.waitq = s.waitq /\ r.linked = s.linked
<1>1. next_up(s) \in Threads \cup {idle}
  BY KFields DEF next_up
<1>2. (IF should_preempt(s, b) THEN next_up(s) ELSE s.current) \in Threads \cup {idle}
  BY <1>1, KFields
<1> QED
  BY <1>2 DEF update_cache, K

\* unpend_thread_no_timeout() takes the thread off its wait queue.
LEMMA UnpendFields ==
  ASSUME NEW s \in K, Nodes(s), NEW t \in Threads
  PROVE  LET r == unpend_thread_no_timeout(s, t) IN
         /\ r \in K
         /\ r.state = [s.state EXCEPT ![t] = @ \ {"PENDING"}]
         /\ r.pended_on = [s.pended_on EXCEPT ![t] = NONE]
         /\ r.waitq = IF s.pended_on[t] = NONE THEN s.waitq
                      ELSE [s.waitq EXCEPT ![s.pended_on[t]] = RemoveItem(@, t)]
         /\ r.current = s.current /\ r.cache = s.cache /\ r.prio = s.prio
         /\ r.locked = s.locked /\ r.runq = s.runq /\ r.linked = s.linked
<1>0. s.state \in [Threads -> SUBSET Flags] /\ s.pended_on \in [Threads -> Queues \cup {NONE}]
  BY KFields
<1>1. CASE s.pended_on[t] = NONE
  <2>1. "PENDING" \notin s.state[t]
    BY <1>1 DEF Nodes
  <2>2. [s.state EXCEPT ![t] = @ \ {"PENDING"}] = s.state
    BY <1>0, <2>1
  <2>3. [s.pended_on EXCEPT ![t] = NONE] = s.pended_on
    BY <1>0, <1>1
  <2> QED
    BY <1>1, <2>2, <2>3 DEF unpend_thread_no_timeout
<1>2. CASE s.pended_on[t] # NONE
  <2> DEFINE q == s.pended_on[t]
  <2>1. q \in Queues /\ s.waitq[q] \in Seq(Threads) /\ s.waitq \in [Queues -> Seq(Threads)]
    BY <1>0, <1>2, KFields
  <2>2. RemoveItem(s.waitq[q], t) \in Seq(Threads)
    BY <2>1, RemoveFacts DEF Nodes
  <2> HIDE DEF q
  <2>3. [s.waitq EXCEPT ![q] = RemoveItem(@, t)] \in [Queues -> Seq(Threads)]
    BY <2>1, <2>2
  <2>4. /\ [s.state EXCEPT ![t] = @ \ {"PENDING"}] \in [Threads -> SUBSET Flags]
        /\ [s.pended_on EXCEPT ![t] = NONE] \in [Threads -> Queues \cup {NONE}]
    BY <1>0
  <2> QED
    BY <1>2, <2>3, <2>4 DEF unpend_thread_no_timeout, K, q
<1> QED
  BY <1>1, <1>2

(***************************************************************************)
(* What the functions keep                                                 *)
(***************************************************************************)
\* Nothing but the flags and the timeout of t differ.
Others(r, s, t) ==
  \A u \in Threads \ {t} :
    r.state[u] = s.state[u] /\ r.linked[u] = s.linked[u] /\ r.pended_on[u] = s.pended_on[u]

\* Whether a thread is ready depends on its flags and its timeout.
LEMMA ReadyFacts ==
  ASSUME NEW s, NEW t \in Threads
  PROVE  z_is_thread_ready(s, t) <=>
           /\ "PENDING" \notin s.state[t] /\ "PRESTART" \notin s.state[t]
           /\ "DEAD" \notin s.state[t] /\ "SUSPENDED" \notin s.state[t] /\ ~s.linked[t]
<1>1. t # idle
  BY SchedAssumption
<1> QED
  BY <1>1 DEF z_is_thread_ready, z_is_thread_prevented_from_running

\* The flags that keep a thread from running, or the timeout, of a thread
\* change, and its nodes stay where they are.
LEMMA InvFlags ==
  ASSUME NEW X, NEW D, NEW s, Inv(s, X, D), NEW r \in K, NEW t \in Threads,
         r.runq = s.runq, r.waitq = s.waitq, r.prio = s.prio, r.pended_on = s.pended_on,
         Others(r, s, t),
         "QUEUED" \in r.state[t] <=> "QUEUED" \in s.state[t],
         "PENDING" \in r.state[t] <=> "PENDING" \in s.state[t],
         "QUEUED" \in r.state[t] => z_is_thread_ready(r, t),
         t \in D \/ "DEAD" \notin r.state[t] \/ ("DEAD" \in s.state[t] /\ (r.linked[t] => s.linked[t]))
  PROVE  Inv(r, X \cup {t}, D)
<1>1. \A u \in Threads \ {t} : z_is_thread_ready(r, u) <=> z_is_thread_ready(s, u)
  BY ReadyFacts DEF Others
<1>2. Nodes(r)
  <2>1. ASSUME NEW u \in Threads
        PROVE  /\ IsIn(r.runq, u) <=> "QUEUED" \in r.state[u]
               /\ Once(r.runq, u)
               /\ "PENDING" \in r.state[u] <=> r.pended_on[u] # NONE
               /\ "QUEUED" \in r.state[u] => z_is_thread_ready(r, u)
    <3>1. CASE u = t
      BY <3>1 DEF Inv, Nodes
    <3>2. CASE u # t
      BY <3>2, <1>1 DEF Inv, Nodes, Others
    <3> QED
      BY <3>1, <3>2
  <2> QED
    BY <2>1 DEF Inv, Nodes
<1>3. \A u \in Threads : z_is_thread_ready(r, u) => "QUEUED" \in r.state[u] \/ u \in X \cup {t}
  BY <1>1 DEF Inv, Others
<1>4. ASSUME NEW u \in Threads \ D, "DEAD" \in r.state[u]
      PROVE  /\ ~r.linked[u] /\ r.pended_on[u] = NONE
             /\ \A v \in Threads : r.pended_on[v] # u
  <2>1. "DEAD" \in s.state[u] /\ (r.linked[u] => s.linked[u])
    BY <1>4 DEF Others
  <2> QED
    BY <2>1 DEF Inv
<1> QED
  BY <1>2, <1>3, <1>4 DEF Inv

\* A thread is not prevented from running by some flags any more: it is to be readied.
LEMMA InvClear ==
  ASSUME NEW X, NEW D, NEW s, Inv(s, X, D), NEW t \in Threads, NEW f \in SUBSET {"PRESTART", "SUSPENDED"}
  PROVE  Inv(Clear(s, t, f), X \cup {t}, D)
<1> DEFINE r == Clear(s, t, f)
<1>0. s \in K /\ s.state \in [Threads -> SUBSET Flags]
  BY KFields DEF Inv
<1>1. /\ r \in K /\ r.state = [s.state EXCEPT ![t] = @ \ f]
      /\ r.runq = s.runq /\ r.waitq = s.waitq /\ r.prio = s.prio /\ r.pended_on = s.pended_on
      /\ r.linked = s.linked
  BY <1>0, ClearFields
<1> HIDE DEF r
<1>2. r.state[t] = s.state[t] \ f /\ Others(r, s, t)
  BY <1>0, <1>1 DEF Others
<1>3. "QUEUED" \in r.state[t] => z_is_thread_ready(r, t)
  BY <1>1, <1>2, ReadyFacts DEF Inv, Nodes
<1>4. Inv(r, X \cup {t}, D)
  BY <1>1, <1>2, <1>3, InvFlags
<1> QED
  BY <1>4 DEF r

\* The same for a thread whose timeout is aborted.
LEMMA InvUnlink ==
  ASSUME NEW X, NEW D, NEW s, Inv(s, X, D), NEW t \in Threads
  PROVE  Inv(z_abort_thread_timeout(s, t), X \cup {t}, D)
<1> DEFINE r == z_abort_thread_timeout(s, t)
<1>0. s \in K /\ s.linked \in [Threads -> BOOLEAN]
  BY KFields DEF Inv
<1>1. /\ r \in K /\ r.linked = [s.linked EXCEPT ![t] = FALSE]
      /\ r.runq = s.runq /\ r.waitq = s.waitq /\ r.prio = s.prio /\ r.pended_on = s.pended_on
      /\ r.state = s.state
  BY <1>0, LinkFields DEF z_abort_thread_timeout
<1> HIDE DEF r
<1>2. ~r.linked[t] /\ Others(r, s, t)
  BY <1>0, <1>1 DEF Others
<1>3. "QUEUED" \in r.state[t] => z_is_thread_ready(r, t)
  BY <1>1, <1>2, ReadyFacts DEF Inv, Nodes
<1>4. Inv(r, X \cup {t}, D)
  BY <1>1, <1>2, <1>3, InvFlags
<1> QED
  BY <1>4 DEF r

\* The cache is no part of it.
LEMMA InvCache ==
  ASSUME NEW X, NEW D, NEW s, Inv(s, X, D), NEW b \in BOOLEAN
  PROVE  Inv(update_cache(s, b), X, D)
<1> DEFINE r == update_cache(s, b)
<1>1. /\ r \in K /\ r.state = s.state /\ r.prio = s.prio
      /\ r.pended_on = s.pended_on /\ r.runq = s.runq
      /\ r.waitq = s.waitq /\ r.linked = s.linked
  BY CacheFields DEF Inv
<1> HIDE DEF r
<1>2. \A u \in Threads : z_is_thread_ready(r, u) <=> z_is_thread_ready(s, u)
  BY <1>1, ReadyFacts
<1>3. Inv(r, X, D)
  BY <1>1, <1>2 DEF Inv, Nodes
<1> QED
  BY <1>3 DEF r

\* A thread that is taken off its wait queue is to be readied.
LEMMA InvUnpend ==
  ASSUME NEW X, NEW D, NEW s, Inv(s, X, D), NEW t \in Threads
  PROVE  Inv(unpend_thread_no_timeout(s, t), X \cup {t}, D)
<1> DEFINE r == unpend_thread_no_timeout(s, t)
           q == s.pended_on[t]
<1>0. /\ s \in K /\ Nodes(s)
      /\ s.state \in [Threads -> SUBSET Flags] /\ s.pended_on \in [Threads -> Queues \cup {NONE}]
      /\ s.waitq \in [Queues -> Seq(Threads)]
  BY KFields DEF Inv
<1>1. /\ r \in K
      /\ r.state = [s.state EXCEPT ![t] = @ \ {"PENDING"}]
      /\ r.pended_on = [s.pended_on EXCEPT ![t] = NONE]
      /\ r.waitq = IF q = NONE THEN s.waitq ELSE [s.waitq EXCEPT ![q] = RemoveItem(@, t)]
      /\ r.prio = s.prio /\ r.runq = s.runq /\ r.linked = s.linked
  BY <1>0, UnpendFields
<1> HIDE DEF r
<1>2. /\ r.state[t] = s.state[t] \ {"PENDING"} /\ r.pended_on[t] = NONE
      /\ Others(r, s, t)
  BY <1>0, <1>1 DEF Others
<1>3. \A u \in Threads \ {t} : z_is_thread_ready(r, u) <=> z_is_thread_ready(s, u)
  BY <1>2, ReadyFacts DEF Others
<1>4. "QUEUED" \in r.state[t] => z_is_thread_ready(r, t)
  BY <1>0, <1>1, <1>2, ReadyFacts DEF Nodes
<1>5. ASSUME NEW u \in Threads, NEW p \in Queues
      PROVE  (IsIn(r.waitq[p], u) <=> r.pended_on[u] = p) /\ Once(r.waitq[p], u)
  <2>1. NONE \notin Queues
    BY SchedAssumption DEF Queues
  <2>2. CASE p # q
    <3>1. r.waitq[p] = s.waitq[p]
      BY <1>0, <1>1, <2>2
    <3> QED
      BY <3>1, <2>1, <2>2, <1>0, <1>2 DEF Nodes, Others
  <2>3. CASE p = q
    <3>1. r.waitq[p] = RemoveItem(s.waitq[p], t) /\ s.waitq[p] \in Seq(Threads)
      BY <1>0, <1>1, <2>1, <2>3
    <3>2. IsIn(s.waitq[p], t) /\ \A v \in Threads : Once(s.waitq[p], v)
      BY <1>0, <2>3 DEF Nodes
    <3>3. /\ ~IsIn(r.waitq[p], t)
          /\ \A v : v # t => (IsIn(r.waitq[p], v) <=> IsIn(s.waitq[p], v))
          /\ \A v \in Threads : Once(r.waitq[p], v)
      BY <3>1, <3>2, RemoveFacts
    <3> QED
      BY <3>3, <2>1, <1>0, <1>2 DEF Nodes, Others
  <2> QED
    BY <2>2, <2>3
<1>6. ASSUME NEW u \in Threads
      PROVE  /\ IsIn(r.runq, u) <=> "QUEUED" \in r.state[u]
             /\ Once(r.runq, u)
             /\ "PENDING" \in r.state[u] <=> r.pended_on[u] # NONE
             /\ "QUEUED" \in r.state[u] => z_is_thread_ready(r, u)
  <2>1. CASE u = t
    BY <2>1, <1>0, <1>1, <1>2, <1>4 DEF Nodes
  <2>2. CASE u # t
    BY <2>2, <1>0, <1>1, <1>2, <1>3 DEF Nodes, Others
  <2> QED
    BY <2>1, <2>2
<1>7. Nodes(r)
  BY <1>0, <1>1, <1>5, <1>6 DEF Nodes
<1>8. ASSUME NEW u \in Threads, z_is_thread_ready(r, u), u # t
      PROVE  "QUEUED" \in r.state[u] \/ u \in X
  BY <1>2, <1>3, <1>8 DEF Inv, Others
<1>9. ASSUME NEW u \in Threads \ D, "DEAD" \in r.state[u]
      PROVE  /\ ~r.linked[u] /\ r.pended_on[u] = NONE
             /\ \A v \in Threads : r.pended_on[v] # u
  <2>1. "DEAD" \in s.state[u] /\ NONE # u
    BY <1>2, <1>9, SchedAssumption DEF Others
  <2> QED
    BY <2>1, <1>1, <1>2 DEF Inv, Others
<1>10. Inv(r, X \cup {t}, D)
  BY <1>1, <1>7, <1>8, <1>9 DEF Inv
<1> QED
  BY <1>10 DEF r

\* A thread that is ready and not queued goes where its priority says.
LEMMA InvQueue ==
  ASSUME NEW X, NEW D, NEW s, Inv(s, X, D), NEW t \in Threads,
         "QUEUED" \notin s.state[t], z_is_thread_ready(s, t)
  PROVE  Inv(queue_thread(s, t), X \ {t}, D)
<1> DEFINE r == queue_thread(s, t)
<1>0. /\ s \in K /\ Nodes(s) /\ s.state \in [Threads -> SUBSET Flags]
      /\ s.runq \in Seq(Threads) /\ s.prio \in [Threads -> Int]
  BY KFields DEF Inv
<1>1. /\ r \in K
      /\ r.state = [s.state EXCEPT ![t] = @ \cup {"QUEUED"}]
      /\ r.runq = Inserted(s.runq, s.prio, t)
      /\ r.prio = s.prio /\ r.pended_on = s.pended_on
      /\ r.waitq = s.waitq /\ r.linked = s.linked
  BY <1>0, QueueFields
<1> HIDE DEF r
<1>2. r.state[t] = s.state[t] \cup {"QUEUED"} /\ \A u \in Threads \ {t} : r.state[u] = s.state[u]
  BY <1>0, <1>1
<1>3. \A u \in Threads : z_is_thread_ready(r, u) <=> z_is_thread_ready(s, u)
  <2> SUFFICES ASSUME NEW u \in Threads
               PROVE  z_is_thread_ready(r, u) <=> z_is_thread_ready(s, u)
    OBVIOUS
  <2>1. /\ r.linked[u] = s.linked[u]
        /\ \A f \in {"PENDING", "PRESTART", "DEAD", "SUSPENDED"} :
             f \in r.state[u] <=> f \in s.state[u]
    <3>1. CASE u = t
      BY <1>1, <1>2, <3>1
    <3>2. CASE u # t
      BY <1>1, <1>2, <3>2
    <3> QED
      BY <3>1, <3>2
  <2>2. "PENDING" \in r.state[u] <=> "PENDING" \in s.state[u]
    BY <2>1
  <2>3. "PRESTART" \in r.state[u] <=> "PRESTART" \in s.state[u]
    BY <2>1
  <2>4. "DEAD" \in r.state[u] <=> "DEAD" \in s.state[u]
    BY <2>1
  <2>5. "SUSPENDED" \in r.state[u] <=> "SUSPENDED" \in s.state[u]
    BY <2>1
  <2>6. /\ z_is_thread_ready(r, u) <=>
             /\ "PENDING" \notin r.state[u] /\ "PRESTART" \notin r.state[u]
             /\ "DEAD" \notin r.state[u] /\ "SUSPENDED" \notin r.state[u] /\ ~r.linked[u]
        /\ z_is_thread_ready(s, u) <=>
             /\ "PENDING" \notin s.state[u] /\ "PRESTART" \notin s.state[u]
             /\ "DEAD" \notin s.state[u] /\ "SUSPENDED" \notin s.state[u] /\ ~s.linked[u]
    BY ReadyFacts
  <2> QED
    BY <2>1, <2>2, <2>3, <2>4, <2>5, <2>6
<1>4. ~IsIn(s.runq, t) /\ \A u \in Threads : Once(s.runq, u)
  BY <1>0 DEF Nodes
<1>5. /\ \A u : IsIn(r.runq, u) <=> IsIn(s.runq, u) \/ u = t
      /\ \A u : Once(s.runq, u) /\ (u # t \/ ~IsIn(s.runq, t)) => Once(r.runq, u)
  <2>1. /\ \A u : IsIn(Inserted(s.runq, s.prio, t), u) <=> IsIn(s.runq, u) \/ u = t
        /\ \A u : Once(s.runq, u) /\ (u # t \/ ~IsIn(s.runq, t))
                    => Once(Inserted(s.runq, s.prio, t), u)
    BY <1>0, InsertedFacts
  <2>2. r.runq = Inserted(s.runq, s.prio, t)
    BY <1>1
  <2> QED
    BY <2>1, <2>2
<1>6. Sorted(r.runq, r.prio)
  <2>1. Sorted(s.runq, s.prio)
    BY <1>0 DEF Nodes
  <2>2. Sorted(Inserted(s.runq, s.prio, t), s.prio)
    BY <1>0, <2>1, InsertedSorted
  <2> QED
    BY <1>1, <2>2
<1>7. ASSUME NEW u \in Threads
      PROVE  /\ IsIn(r.runq, u) <=> "QUEUED" \in r.state[u]
             /\ Once(r.runq, u)
             /\ "PENDING" \in r.state[u] <=> r.pended_on[u] # NONE
             /\ "QUEUED" \in r.state[u] => z_is_thread_ready(r, u)
  <2>1. CASE u = t
    BY <2>1, <1>0, <1>1, <1>2, <1>3, <1>4, <1>5 DEF Nodes
  <2>2. CASE u # t
    BY <2>2, <1>0, <1>1, <1>2, <1>3, <1>4, <1>5 DEF Nodes
  <2> QED
    BY <2>1, <2>2
<1>8. Nodes(r)
  BY <1>0, <1>1, <1>6, <1>7 DEF Nodes
<1>9. \A u \in Threads : z_is_thread_ready(r, u) => "QUEUED" \in r.state[u] \/ u \in X \ {t}
  BY <1>2, <1>3 DEF Inv
<1>10. \A u \in Threads : "DEAD" \in r.state[u] <=> "DEAD" \in s.state[u]
  BY <1>2
<1>11. Inv(r, X \ {t}, D)
  BY <1>1, <1>8, <1>9, <1>10 DEF Inv
<1> QED
  BY <1>11 DEF r

\* A thread taken off the run queue is to be queued again, or to be stopped.
LEMMA InvDequeue ==
  ASSUME NEW X, NEW D, NEW s, Inv(s, X, D), NEW t \in Threads
  PROVE  /\ Inv(dequeue_thread(s, t), X \cup {t}, D)
         /\ "QUEUED" \notin dequeue_thread(s, t).state[t]
<1> DEFINE r == dequeue_thread(s, t)
<1>0. /\ s \in K /\ Nodes(s) /\ s.state \in [Threads -> SUBSET Flags]
      /\ s.runq \in Seq(Threads) /\ s.prio \in [Threads -> Int]
  BY KFields DEF Inv
<1>1. /\ r \in K
      /\ r.state = [s.state EXCEPT ![t] = @ \ {"QUEUED"}]
      /\ r.runq = IF "QUEUED" \in s.state[t] THEN RemoveItem(s.runq, t) ELSE s.runq
      /\ r.prio = s.prio /\ r.pended_on = s.pended_on
      /\ r.waitq = s.waitq /\ r.linked = s.linked
  BY <1>0, DequeueFields
<1> HIDE DEF r
<1>2. r.state[t] = s.state[t] \ {"QUEUED"} /\ \A u \in Threads \ {t} : r.state[u] = s.state[u]
  BY <1>0, <1>1
<1>3. \A u \in Threads : z_is_thread_ready(r, u) <=> z_is_thread_ready(s, u)
  <2> SUFFICES ASSUME NEW u \in Threads
               PROVE  z_is_thread_ready(r, u) <=> z_is_thread_ready(s, u)
    OBVIOUS
  <2>1. /\ r.linked[u] = s.linked[u]
        /\ \A f \in {"PENDING", "PRESTART", "DEAD", "SUSPENDED"} :
             f \in r.state[u] <=> f \in s.state[u]
    <3>1. CASE u = t
      BY <1>1, <1>2, <3>1
    <3>2. CASE u # t
      BY <1>1, <1>2, <3>2
    <3> QED
      BY <3>1, <3>2
  <2>2. "PENDING" \in r.state[u] <=> "PENDING" \in s.state[u]
    BY <2>1
  <2>3. "PRESTART" \in r.state[u] <=> "PRESTART" \in s.state[u]
    BY <2>1
  <2>4. "DEAD" \in r.state[u] <=> "DEAD" \in s.state[u]
    BY <2>1
  <2>5. "SUSPENDED" \in r.state[u] <=> "SUSPENDED" \in s.state[u]
    BY <2>1
  <2>6. /\ z_is_thread_ready(r, u) <=>
             /\ "PENDING" \notin r.state[u] /\ "PRESTART" \notin r.state[u]
             /\ "DEAD" \notin r.state[u] /\ "SUSPENDED" \notin r.state[u] /\ ~r.linked[u]
        /\ z_is_thread_ready(s, u) <=>
             /\ "PENDING" \notin s.state[u] /\ "PRESTART" \notin s.state[u]
             /\ "DEAD" \notin s.state[u] /\ "SUSPENDED" \notin s.state[u] /\ ~s.linked[u]
    BY ReadyFacts
  <2> QED
    BY <2>1, <2>2, <2>3, <2>4, <2>5, <2>6
<1>4. /\ ~IsIn(r.runq, t)
      /\ \A v \in Threads : v # t => (IsIn(r.runq, v) <=> IsIn(s.runq, v))
      /\ \A v \in Threads : Once(r.runq, v)
      /\ Sorted(r.runq, r.prio)
  <2>1. CASE "QUEUED" \in s.state[t]
    <3>1. IsIn(s.runq, t) /\ Once(s.runq, t) /\ r.runq = RemoveItem(s.runq, t) /\ Sorted(s.runq, s.prio)
      BY <1>0, <1>1, <2>1 DEF Nodes
    <3>2. Sorted(r.runq, r.prio)
      BY <3>1, <1>0, <1>1, RemoveSorted
    <3>3. \A v \in Threads : Once(s.runq, v)
      BY <1>0 DEF Nodes
    <3> QED
      BY <3>1, <3>2, <3>3, <1>0, RemoveFacts
  <2>2. CASE "QUEUED" \notin s.state[t]
    BY <2>2, <1>0, <1>1 DEF Nodes
  <2> QED
    BY <2>1, <2>2
<1>5. ASSUME NEW u \in Threads
      PROVE  /\ IsIn(r.runq, u) <=> "QUEUED" \in r.state[u]
             /\ Once(r.runq, u)
             /\ "PENDING" \in r.state[u] <=> r.pended_on[u] # NONE
             /\ "QUEUED" \in r.state[u] => z_is_thread_ready(r, u)
  <2>1. CASE u = t
    BY <2>1, <1>0, <1>1, <1>2, <1>3, <1>4 DEF Nodes
  <2>2. CASE u # t
    <3>1. r.state[u] = s.state[u] /\ (IsIn(r.runq, u) <=> IsIn(s.runq, u)) /\ Once(r.runq, u)
      BY <2>2, <1>2, <1>4
    <3> QED
      BY <3>1, <1>0, <1>1, <1>3 DEF Nodes
  <2> QED
    BY <2>1, <2>2
<1>6. Nodes(r)
  BY <1>0, <1>1, <1>4, <1>5 DEF Nodes
<1>7. \A u \in Threads : z_is_thread_ready(r, u) => "QUEUED" \in r.state[u] \/ u \in X \cup {t}
  BY <1>2, <1>3 DEF Inv
<1>8. \A u \in Threads : "DEAD" \in r.state[u] <=> "DEAD" \in s.state[u]
  BY <1>2
<1>9. Inv(r, X \cup {t}, D)
  BY <1>1, <1>6, <1>7, <1>8 DEF Inv
<1> QED
  BY <1>2, <1>9 DEF r

(***************************************************************************)
(* The cached choice                                                       *)
(***************************************************************************)
\* CacheFresh of the record s.
Fresh(s) ==
  \/ s.cache = next_up(s)
  \/ /\ s.cache = s.current /\ s.current # idle
     /\ z_is_thread_ready(s, s.current) /\ ~is_preempt(s, s.current)

\* The current thread, which an interrupt may have stopped, has no timeout and
\* waits for nothing.
CurOk(s) == s.current # idle => ~s.linked[s.current] /\ s.pended_on[s.current] = NONE

\* A thread that must not be preempted is the cached choice.
CoopOk(s) ==
  s.current # idle /\ z_is_thread_ready(s, s.current) /\ ~is_preempt(s, s.current) =>
    s.cache = s.current

\* update_cache() makes the right choice.
LEMMA CacheChoice ==
  ASSUME NEW s \in K, NEW b \in BOOLEAN
  PROVE  /\ b \/ CurOk(s) => Fresh(update_cache(s, b))
         /\ ~b => CoopOk(update_cache(s, b))
<1> DEFINE r == update_cache(s, b)
<1>1. /\ r.cache = IF should_preempt(s, b) THEN next_up(s) ELSE s.current
      /\ r.current = s.current /\ r.state = s.state /\ r.prio = s.prio
      /\ r.locked = s.locked /\ r.runq = s.runq /\ r.linked = s.linked
  BY CacheFields
<1> HIDE DEF r
<1>2. next_up(r) = next_up(s) /\ (is_preempt(r, r.current) <=> is_preempt(s, s.current))
  BY <1>1 DEF next_up, is_preempt
<1>3. /\ z_is_thread_ready(r, r.current) <=> z_is_thread_ready(s, s.current)
      /\ s.current # idle /\ CurOk(s) /\ ~z_is_thread_prevented_from_running(s, s.current) =>
           z_is_thread_ready(s, s.current)
      /\ z_is_thread_ready(s, s.current) => ~z_is_thread_prevented_from_running(s, s.current)
  BY <1>1 DEF z_is_thread_ready, z_is_thread_prevented_from_running, CurOk
<1>4. CASE should_preempt(s, b)
  <2>1. Fresh(r)
    BY <1>1, <1>2, <1>4 DEF Fresh
  <2>2. ~b => CoopOk(r)
    BY <1>2, <1>3, <1>4 DEF CoopOk, should_preempt
  <2> QED
    BY <2>1, <2>2 DEF r
<1>5. CASE ~should_preempt(s, b)
  <2>1. r.cache = r.current /\ r.current # idle /\ ~b
    BY <1>1, <1>5 DEF should_preempt, is_preempt
  <2>2. CurOk(s) => Fresh(r)
    BY <1>1, <1>2, <1>3, <1>5, <2>1 DEF Fresh, should_preempt
  <2> QED
    BY <2>1, <2>2 DEF r, CoopOk
<1> QED
  BY <1>4, <1>5

\* ready_thread() queues the thread and chooses anew, or there is nothing to do.
LEMMA ReadyThread ==
  ASSUME NEW X, NEW D, NEW s, Inv(s, X, D), NEW t \in Threads
  PROVE  LET r == ready_thread(s, t) IN
         /\ Inv(r, X \ {t}, D)
         /\ r.current = s.current /\ r.prio = s.prio /\ r.locked = s.locked
         /\ r.pended_on = s.pended_on /\ r.waitq = s.waitq /\ r.linked = s.linked
         /\ \A u \in Threads \ {t} : r.state[u] = s.state[u]
         /\ \A f \in Flags \ {"QUEUED"} : f \in r.state[t] <=> f \in s.state[t]
         /\ "QUEUED" \in s.state[t] \/ ~z_is_thread_ready(s, t) => r = s
         /\ "QUEUED" \notin s.state[t] /\ z_is_thread_ready(s, t) =>
              (CurOk(s) => Fresh(r)) /\ CoopOk(r)
<1> DEFINE r == ready_thread(s, t)
           m == queue_thread(s, t)
<1>0. s \in K /\ s.state \in [Threads -> SUBSET Flags]
  BY KFields DEF Inv
<1>1. CASE "QUEUED" \in s.state[t] \/ ~z_is_thread_ready(s, t)
  <2>1. r = s
    BY <1>1 DEF ready_thread
  <2>2. Inv(s, X \ {t}, D)
    <3>1. \A u \in Threads : z_is_thread_ready(s, u) => "QUEUED" \in s.state[u] \/ u \in X \ {t}
      BY <1>1 DEF Inv
    <3> QED
      BY <3>1 DEF Inv
  <2> HIDE DEF r
  <2> QED
    BY <1>1, <2>1, <2>2 DEF r
<1>2. CASE "QUEUED" \notin s.state[t] /\ z_is_thread_ready(s, t)
  <2>1. r = update_cache(m, FALSE)
    BY <1>2 DEF ready_thread
  <2>2. Inv(m, X \ {t}, D)
    BY <1>2, InvQueue
  <2>3. /\ m \in K
        /\ m.state = [s.state EXCEPT ![t] = @ \cup {"QUEUED"}]
        /\ m.current = s.current /\ m.prio = s.prio
        /\ m.locked = s.locked /\ m.pended_on = s.pended_on
        /\ m.waitq = s.waitq /\ m.linked = s.linked
    BY <1>0, QueueFields
  <2> HIDE DEF r, m
  <2>4. /\ r.current = m.current /\ r.state = m.state /\ r.prio = m.prio
        /\ r.locked = m.locked /\ r.pended_on = m.pended_on
        /\ r.waitq = m.waitq /\ r.linked = m.linked
    BY <2>1, <2>3, CacheFields
  <2>5. Inv(r, X \ {t}, D)
    BY <2>1, <2>2, InvCache
  <2>6. (CurOk(m) => Fresh(r)) /\ CoopOk(r)
    BY <2>1, <2>3, CacheChoice
  <2>7. CurOk(s) => CurOk(m)
    BY <2>3 DEF CurOk
  <2>8. /\ \A u \in Threads \ {t} : r.state[u] = s.state[u]
        /\ r.state[t] = s.state[t] \cup {"QUEUED"}
    BY <1>0, <2>3, <2>4
  <2>9. /\ r.current = s.current /\ r.prio = s.prio /\ r.locked = s.locked
        /\ r.pended_on = s.pended_on /\ r.waitq = s.waitq /\ r.linked = s.linked
    BY <2>3, <2>4
  <2> QED
    BY <1>2, <2>5, <2>6, <2>7, <2>8, <2>9 DEF r
<1> QED
  BY <1>1, <1>2

\* What Woken() does to a thread: it waits for nothing, has no timeout, and
\* keeps the other flags.
LEMMA WokenFacts ==
  ASSUME NEW X, NEW D, NEW s, Inv(s, X, D), NEW t \in Threads
  PROVE  LET r == Woken(s, t) IN
         /\ Inv(r, X \ {t}, D)
         /\ r.current = s.current /\ r.prio = s.prio /\ r.locked = s.locked
         /\ r.pended_on[t] = NONE /\ ~r.linked[t]
         /\ Others(r, s, t)
         /\ \A f \in {"PRESTART", "DEAD", "SUSPENDED"} : f \in r.state[t] <=> f \in s.state[t]
<1> DEFINE a == unpend_thread_no_timeout(s, t)
           b == z_abort_thread_timeout(a, t)
           r == Woken(s, t)
<1>0. /\ s \in K /\ Nodes(s) /\ s.state \in [Threads -> SUBSET Flags]
      /\ s.pended_on \in [Threads -> Queues \cup {NONE}] /\ s.linked \in [Threads -> BOOLEAN]
  BY KFields DEF Inv
<1>1. /\ a \in K
      /\ a.state = [s.state EXCEPT ![t] = @ \ {"PENDING"}]
      /\ a.pended_on = [s.pended_on EXCEPT ![t] = NONE]
      /\ a.current = s.current /\ a.prio = s.prio
      /\ a.locked = s.locked /\ a.linked = s.linked
  BY <1>0, UnpendFields
<1>2. Inv(a, X \cup {t}, D)
  BY InvUnpend
<1>3. r = ready_thread(b, t)
  BY DEF Woken
<1> HIDE DEF a, r
<1>4. /\ b.linked = [a.linked EXCEPT ![t] = FALSE]
      /\ b.current = a.current /\ b.prio = a.prio
      /\ b.locked = a.locked /\ b.pended_on = a.pended_on /\ b.state = a.state
  BY <1>1, LinkFields DEF z_abort_thread_timeout
<1>5. Inv(b, (X \cup {t}) \cup {t}, D)
  BY <1>2, InvUnlink
<1> HIDE DEF b
<1>6. /\ Inv(r, ((X \cup {t}) \cup {t}) \ {t}, D)
      /\ r.current = b.current /\ r.prio = b.prio /\ r.locked = b.locked
      /\ r.pended_on = b.pended_on /\ r.linked = b.linked
      /\ \A u \in Threads \ {t} : r.state[u] = b.state[u]
      /\ \A f \in Flags \ {"QUEUED"} : f \in r.state[t] <=> f \in b.state[t]
  BY <1>3, <1>5, ReadyThread
<1>7. ((X \cup {t}) \cup {t}) \ {t} = X \ {t}
  OBVIOUS
<1>8. r.pended_on[t] = NONE /\ ~r.linked[t] /\ Others(r, s, t)
  BY <1>0, <1>1, <1>4, <1>6 DEF Others
<1>9. \A f \in {"PRESTART", "DEAD", "SUSPENDED"} : f \in r.state[t] <=> f \in s.state[t]
  <2>1. b.state[t] = s.state[t] \ {"PENDING"}
    BY <1>0, <1>1, <1>4
  <2> QED
    BY <1>6, <2>1 DEF Flags
<1>10. Inv(r, X \ {t}, D)
  BY <1>6, <1>7
<1> QED
  BY <1>1, <1>4, <1>6, <1>8, <1>9, <1>10 DEF r

\* More threads may be to be readied, or be ending.
LEMMA InvMore ==
  ASSUME NEW X, NEW Y, NEW D, NEW E, NEW s, Inv(s, X, D), X \subseteq Y, D \subseteq E
  PROVE  Inv(s, Y, E)
  BY DEF Inv

\* The states that the loop of unpend_all() goes through.
LoopOf(f, m, w, s) ==
  /\ f = [i \in 0..m |-> f[i]]
  /\ \A i \in 0..m : f[i] = IF i = 0 THEN s ELSE Woken(f[i - 1], w[i])

\* They exist.
LEMMA LoopExists ==
  ASSUME NEW n \in Nat, NEW w, NEW s
  PROVE  \E f : LoopOf(f, n, w, s)
<1> DEFINE S == {m \in Nat : \E f : LoopOf(f, m, w, s)}
<1>1. 0 \in S
  <2> DEFINE f == [i \in 0..0 |-> s]
  <2>1. LoopOf(f, 0, w, s)
    <3>1. f = [i \in 0..0 |-> f[i]] /\ \A i \in 0..0 : i = 0 /\ f[i] = s
      OBVIOUS
    <3> HIDE DEF f
    <3> QED BY <3>1 DEF LoopOf
  <2> HIDE DEF f
  <2> QED BY <2>1
<1>2. ASSUME NEW m \in Nat, m \in S PROVE m + 1 \in S
  <2>1. PICK f : LoopOf(f, m, w, s)
    BY <1>2
  <2> DEFINE h == [i \in 0..(m + 1) |-> IF i = m + 1 THEN Woken(f[m], w[m + 1]) ELSE f[i]]
  <2>2. ASSUME NEW i \in 0..(m + 1) PROVE h[i] = IF i = 0 THEN s ELSE Woken(h[i - 1], w[i])
    <3>1. CASE i = m + 1
      <4>1. h[i] = Woken(f[m], w[m + 1]) /\ h[i - 1] = f[m] /\ i # 0
        BY <3>1
      <4> QED BY <3>1, <4>1
    <3>2. CASE i # m + 1
      <4>0. \A j \in 0..m : f[j] = IF j = 0 THEN s ELSE Woken(f[j - 1], w[j])
        BY <2>1, Zenon DEF LoopOf
      <4>1. i \in 0..m /\ h[i] = f[i] /\ f[i] = (IF i = 0 THEN s ELSE Woken(f[i - 1], w[i]))
        BY <4>0, <3>2
      <4>2. i # 0 => i - 1 \in 0..m /\ h[i - 1] = f[i - 1]
        BY <4>1
      <4> QED BY <4>1, <4>2
    <3> QED BY <3>1, <3>2
  <2>3. h = [i \in 0..(m + 1) |-> h[i]]
    OBVIOUS
  <2> HIDE DEF h
  <2>4. \A i \in 0..(m + 1) : h[i] = IF i = 0 THEN s ELSE Woken(h[i - 1], w[i])
    BY <2>2
  <2>5. LoopOf(h, m + 1, w, s)
    BY <2>3, <2>4 DEF LoopOf
  <2> QED BY <2>5
<1>3. Nat \subseteq S
  <2> HIDE DEF S
  <2> QED BY <1>1, <1>2, NatInd
<1> QED BY <1>3

\* unpend_all() wakes every thread that is pended on the queue, and no other.
LEMMA UnpendAllFacts ==
  ASSUME NEW X, NEW D, NEW s, Inv(s, X, D), NEW q \in Queues
  PROVE  LET r == unpend_all(s, q) IN
         /\ Inv(r, X, D)
         /\ r.current = s.current /\ r.prio = s.prio /\ r.locked = s.locked
         /\ \A u \in Threads :
              /\ \A f \in {"PRESTART", "DEAD", "SUSPENDED"} : f \in r.state[u] <=> f \in s.state[u]
              /\ s.pended_on[u] = q => r.pended_on[u] = NONE /\ ~r.linked[u]
              /\ s.pended_on[u] # q =>
                   /\ r.state[u] = s.state[u] /\ r.linked[u] = s.linked[u]
                   /\ r.pended_on[u] = s.pended_on[u]
<1> DEFINE w == s.waitq[q]
           N == Len(w)
           after == CHOOSE f : f = [i \in 0..N |-> IF i = 0 THEN s ELSE Woken(f[i - 1], w[i])]
<1>1. unpend_all(s, q) = after[N]
  BY DEF unpend_all
<1>2. /\ w \in Seq(Threads) /\ N \in Nat /\ \A m \in 1..N : w[m] \in Threads
      /\ \A u \in Threads : (\E m \in 1..N : w[m] = u) <=> s.pended_on[u] = q
  <2>1. w \in Seq(Threads)
    BY KFields DEF Inv
  <2>2. \A u \in Threads : IsIn(w, u) <=> s.pended_on[u] = q
    BY DEF Inv, Nodes
  <2> HIDE DEF w
  <2> QED
    BY <2>1, <2>2 DEF IsIn
<1> HIDE DEF w, N
<1>3. after = [i \in 0..N |-> IF i = 0 THEN s ELSE Woken(after[i - 1], w[i])]
  <2>1. PICK f : LoopOf(f, N, w, s)
    BY <1>2, LoopExists
  <2>2. f = [i \in 0..N |-> IF i = 0 THEN s ELSE Woken(f[i - 1], w[i])]
    BY <2>1 DEF LoopOf
  <2> QED
    BY <2>2
<1> HIDE DEF after
<1>4. after[0] = s /\ \A i \in 1..N : after[i] = Woken(after[i - 1], w[i])
  BY <1>2, <1>3
<1> DEFINE Woke(i, u) == \E m \in 1..i : w[m] = u
           Good(r, i) ==
             /\ Inv(r, X, D)
             /\ r.current = s.current /\ r.prio = s.prio /\ r.locked = s.locked
             /\ \A u \in Threads :
                  /\ \A f \in {"PRESTART", "DEAD", "SUSPENDED"} :
                       f \in r.state[u] <=> f \in s.state[u]
                  /\ Woke(i, u) => r.pended_on[u] = NONE /\ ~r.linked[u]
                  /\ ~Woke(i, u) =>
                       /\ r.state[u] = s.state[u] /\ r.linked[u] = s.linked[u]
                       /\ r.pended_on[u] = s.pended_on[u]
           S == {i \in Nat : i <= N => Good(after[i], i)}
<1>5. 0 \in S
  BY <1>4
<1>6. ASSUME NEW i \in Nat, i \in S PROVE i + 1 \in S
  <2> SUFFICES ASSUME i + 1 <= N PROVE Good(after[i + 1], i + 1)
    OBVIOUS
  <2> DEFINE m == after[i]
             r == after[i + 1]
             t == w[i + 1]
  <2>1. Good(m, i) /\ t \in Threads /\ r = Woken(m, t)
    <3>1. i <= N /\ i + 1 \in 1..N /\ (i + 1) - 1 = i
      BY <1>2
    <3> QED
      BY <3>1, <1>2, <1>4, <1>6
  <2>2. \A u : Woke(i + 1, u) <=> Woke(i, u) \/ u = t
    OBVIOUS
  <2> HIDE DEF m, r, t, Woke
  <2>3. /\ Inv(r, X \ {t}, D)
        /\ r.current = m.current /\ r.prio = m.prio /\ r.locked = m.locked
        /\ r.pended_on[t] = NONE /\ ~r.linked[t]
        /\ Others(r, m, t)
        /\ \A f \in {"PRESTART", "DEAD", "SUSPENDED"} : f \in r.state[t] <=> f \in m.state[t]
    BY <2>1, WokenFacts
  <2>4. Inv(r, X, D)
    BY <2>3, InvMore
  <2>5. ASSUME NEW u \in Threads
        PROVE  /\ \A f \in {"PRESTART", "DEAD", "SUSPENDED"} :
                    f \in r.state[u] <=> f \in s.state[u]
               /\ Woke(i + 1, u) => r.pended_on[u] = NONE /\ ~r.linked[u]
               /\ ~Woke(i + 1, u) =>
                    /\ r.state[u] = s.state[u] /\ r.linked[u] = s.linked[u]
                    /\ r.pended_on[u] = s.pended_on[u]
    <3>1. CASE u = t
      BY <3>1, <2>1, <2>2, <2>3
    <3>2. CASE u # t
      BY <3>2, <2>1, <2>2, <2>3 DEF Others
    <3> QED
      BY <3>1, <3>2
  <2> QED
    BY <2>1, <2>3, <2>4, <2>5 DEF r
<1>7. N \in S
  <2>1. Nat \subseteq S
    <3> HIDE DEF S
    <3> QED
      BY <1>5, <1>6, NatInd
  <2> QED
    BY <2>1, <1>2
<1>8. Good(after[N], N)
  BY <1>2, <1>7
<1> HIDE DEF S
<1> QED
  BY <1>1, <1>2, <1>8

\* A thread that has stopped is not to be readied.
LEMMA InvNotReady ==
  ASSUME NEW X, NEW D, NEW s, Inv(s, X, D), NEW t \in Threads, ~z_is_thread_ready(s, t)
  PROVE  Inv(s, X \ {t}, D)
<1>1. \A u \in Threads : z_is_thread_ready(s, u) => "QUEUED" \in s.state[u] \/ u \in X \ {t}
  BY DEF Inv
<1> QED
  BY <1>1 DEF Inv

\* A thread is taken off the run queue for good: it is suspended, or ends.
Stopped(s, t, f) == [dequeue_thread(s, t) EXCEPT !.state[t] = @ \cup {f}]

\* The flag replaces QUEUED.
LEMMA StoppedFields ==
  ASSUME NEW s \in K, Nodes(s), NEW t \in Threads, NEW f \in {"SUSPENDED", "DEAD"}
  PROVE  LET r == Stopped(s, t, f) IN
         /\ r \in K
         /\ r.state[t] = (s.state[t] \ {"QUEUED"}) \cup {f}
         /\ \A u \in Threads \ {t} : r.state[u] = s.state[u]
         /\ r.runq = IF "QUEUED" \in s.state[t] THEN RemoveItem(s.runq, t) ELSE s.runq
         /\ r.current = s.current /\ r.cache = s.cache /\ r.prio = s.prio
         /\ r.locked = s.locked /\ r.pended_on = s.pended_on
         /\ r.waitq = s.waitq /\ r.linked = s.linked
<1> DEFINE m == dequeue_thread(s, t)
           r == Stopped(s, t, f)
<1>0. s.state \in [Threads -> SUBSET Flags]
  BY KFields
<1>1. /\ m \in K
      /\ m.state = [s.state EXCEPT ![t] = @ \ {"QUEUED"}]
      /\ m.runq = IF "QUEUED" \in s.state[t] THEN RemoveItem(s.runq, t) ELSE s.runq
      /\ m.current = s.current /\ m.cache = s.cache /\ m.prio = s.prio
      /\ m.locked = s.locked /\ m.pended_on = s.pended_on
      /\ m.waitq = s.waitq /\ m.linked = s.linked
  BY DequeueFields
<1>3. r = [m EXCEPT !.state[t] = m.state[t] \cup {f}]
  BY DEF Stopped
<1> HIDE DEF m, r
<1>4. /\ r \in K
      /\ r.state = [m.state EXCEPT ![t] = m.state[t] \cup {f}]
      /\ r.current = m.current /\ r.cache = m.cache /\ r.prio = m.prio
      /\ r.locked = m.locked /\ r.pended_on = m.pended_on /\ r.runq = m.runq
      /\ r.waitq = m.waitq /\ r.linked = m.linked
  <2>1. m.state[t] \cup {f} \in SUBSET Flags
    BY <1>1, KFields DEF Flags
  <2> QED
    BY <1>1, <1>3, <2>1, StateFields
<1>5. /\ r.state[t] = (s.state[t] \ {"QUEUED"}) \cup {f}
      /\ \A u \in Threads \ {t} : r.state[u] = s.state[u]
  BY <1>0, <1>1, <1>4
<1> QED
  BY <1>1, <1>4, <1>5 DEF r

\* A thread that is stopped need not be readied.
LEMMA InvStopped ==
  ASSUME NEW X, NEW D, NEW s, Inv(s, X, D), NEW t \in Threads, NEW f \in {"SUSPENDED", "DEAD"},
         f = "DEAD" => t \in D
  PROVE  Inv(Stopped(s, t, f), X \ {t}, D)
<1> DEFINE m == dequeue_thread(s, t)
           r == Stopped(s, t, f)
<1>0. s \in K /\ Nodes(s) /\ s.state \in [Threads -> SUBSET Flags]
  BY KFields DEF Inv
<1>1. /\ m.state = [s.state EXCEPT ![t] = @ \ {"QUEUED"}]
      /\ m.runq = IF "QUEUED" \in s.state[t] THEN RemoveItem(s.runq, t) ELSE s.runq
      /\ m.prio = s.prio /\ m.pended_on = s.pended_on
      /\ m.waitq = s.waitq /\ m.linked = s.linked
  BY <1>0, DequeueFields
<1>2. Inv(m, X \cup {t}, D) /\ "QUEUED" \notin m.state[t]
  BY InvDequeue
<1> HIDE DEF m
<1>3. /\ r \in K
      /\ r.state[t] = (s.state[t] \ {"QUEUED"}) \cup {f}
      /\ \A u \in Threads \ {t} : r.state[u] = s.state[u]
      /\ r.runq = m.runq /\ r.prio = s.prio /\ r.pended_on = s.pended_on
      /\ r.waitq = s.waitq /\ r.linked = s.linked
  <2>1. /\ r.state[t] = (s.state[t] \ {"QUEUED"}) \cup {f}
        /\ \A u \in Threads \ {t} : r.state[u] = s.state[u]
    BY <1>0, StoppedFields
  <2>2. /\ r \in K /\ r.prio = s.prio /\ r.pended_on = s.pended_on
        /\ r.waitq = s.waitq /\ r.linked = s.linked
    BY <1>0, StoppedFields
  <2>3. r.runq = IF "QUEUED" \in s.state[t] THEN RemoveItem(s.runq, t) ELSE s.runq
    BY <1>0, StoppedFields
  <2> HIDE DEF r
  <2> QED
    BY <1>1, <2>1, <2>2, <2>3
<1> HIDE DEF r
<1>4. r.state[t] = m.state[t] \cup {f} /\ Others(r, m, t)
  <2>1. r.state[t] = m.state[t] \cup {f} /\ \A u \in Threads \ {t} : r.state[u] = m.state[u]
    BY <1>0, <1>1, <1>3
  <2> QED
    BY <2>1, <1>1, <1>3 DEF Others
<1>5. "QUEUED" \notin r.state[t] /\ ~z_is_thread_ready(r, t)
  BY <1>2, <1>4, ReadyFacts
<1>6. /\ t \in D \/ "DEAD" \notin r.state[t] \/ ("DEAD" \in m.state[t] /\ (r.linked[t] => m.linked[t]))
      /\ "PENDING" \in r.state[t] <=> "PENDING" \in m.state[t]
  BY <1>1, <1>3, <1>4
<1>7. Inv(r, (X \cup {t}) \cup {t}, D)
  BY <1>1, <1>2, <1>3, <1>4, <1>5, <1>6, InvFlags
<1>8. ((X \cup {t}) \cup {t}) \ {t} = X \ {t}
  OBVIOUS
<1>9. Inv(r, X \ {t}, D)
  BY <1>5, <1>7, <1>8, InvNotReady
<1> QED
  BY <1>9 DEF r

\* end_thread() leaves no trace of the thread, and wakes those that joined it.
LEMMA EndThreadFacts ==
  ASSUME NEW X, NEW s, Inv(s, X, {}), NEW t \in Threads
  PROVE  LET r == end_thread(s, t) IN
         /\ Inv(r, X, {})
         /\ Fresh(r)
         /\ r.current = s.current /\ r.prio = s.prio /\ r.locked = s.locked
         /\ "DEAD" \in r.state[t]
         /\ \A u \in Threads : r.linked[u] => s.linked[u]
         /\ \A u \in Threads \ {t} :
              /\ "SUSPENDED" \in s.state[u] => "SUSPENDED" \in r.state[u]
              /\ s.pended_on[u] = NONE => /\ r.pended_on[u] = NONE
                                          /\ r.state[u] = s.state[u] /\ r.linked[u] = s.linked[u]
<1> DEFINE a == Stopped(s, t, "DEAD")
           b == unpend_thread_no_timeout(a, t)
           c == z_abort_thread_timeout(b, t)
           d == unpend_all(c, t)
           r == end_thread(s, t)
<1>0. r = update_cache(d, TRUE)
  BY DEF end_thread, Stopped
<1>1. /\ s.state \in [Threads -> SUBSET Flags]
      /\ s.pended_on \in [Threads -> Queues \cup {NONE}] /\ s.linked \in [Threads -> BOOLEAN]
  BY KFields DEF Inv
<1>2. /\ Inv(a, X \ {t}, {t})
      /\ "DEAD" \in a.state[t] /\ \A u \in Threads \ {t} : a.state[u] = s.state[u]
      /\ a.state \in [Threads -> SUBSET Flags]
      /\ a.current = s.current /\ a.prio = s.prio
      /\ a.locked = s.locked /\ a.pended_on = s.pended_on /\ a.linked = s.linked
  <2>1. Inv(s, X, {t}) /\ s \in K /\ Nodes(s)
    BY InvMore DEF Inv
  <2>3. Inv(a, X \ {t}, {t})
    BY <2>1, InvStopped
  <2>4. "DEAD" \in a.state[t] /\ \A u \in Threads \ {t} : a.state[u] = s.state[u]
    BY <2>1, StoppedFields
  <2>6. a.state \in [Threads -> SUBSET Flags]
    BY <2>3, KFields DEF Inv
  <2>5. /\ a.current = s.current /\ a.prio = s.prio
        /\ a.locked = s.locked /\ a.pended_on = s.pended_on /\ a.linked = s.linked
    BY <2>1, StoppedFields
  <2> HIDE DEF a
  <2> QED
    BY <2>3, <2>4, <2>5, <2>6
<1> HIDE DEF r, a
<1>3. /\ b.state = [a.state EXCEPT ![t] = @ \ {"PENDING"}]
      /\ b.pended_on = [a.pended_on EXCEPT ![t] = NONE]
      /\ b.current = a.current /\ b.prio = a.prio
      /\ b.locked = a.locked /\ b.linked = a.linked /\ b \in K
  <2>1. a \in K /\ Nodes(a)
    BY <1>2 DEF Inv
  <2> QED
    BY <2>1, UnpendFields
<1>4. Inv(b, (X \ {t}) \cup {t}, {t})
  BY <1>2, InvUnpend
<1> HIDE DEF b
<1>5. /\ c.linked = [b.linked EXCEPT ![t] = FALSE]
      /\ c.current = b.current /\ c.prio = b.prio
      /\ c.locked = b.locked /\ c.pended_on = b.pended_on /\ c.state = b.state
  BY <1>3, LinkFields DEF z_abort_thread_timeout
<1>6. Inv(c, ((X \ {t}) \cup {t}) \cup {t}, {t})
  BY <1>4, InvUnlink
<1> HIDE DEF c
<1>7. /\ "DEAD" \in c.state[t] /\ c.pended_on[t] = NONE /\ ~c.linked[t]
      /\ \A u \in Threads \ {t} : /\ c.state[u] = s.state[u] /\ c.linked[u] = s.linked[u]
                                  /\ c.pended_on[u] = s.pended_on[u]
  BY <1>1, <1>2, <1>3, <1>5
<1>8. Inv(c, X, {t})
  <2>1. ~z_is_thread_ready(c, t)
    BY <1>7, ReadyFacts
  <2>2. Inv(c, (((X \ {t}) \cup {t}) \cup {t}) \ {t}, {t})
    BY <2>1, <1>6, InvNotReady
  <2> QED
    BY <2>2, InvMore
<1>9. /\ Inv(d, X, {t})
      /\ d.current = c.current /\ d.prio = c.prio /\ d.locked = c.locked
      /\ \A u \in Threads :
           /\ \A f \in {"PRESTART", "DEAD", "SUSPENDED"} : f \in d.state[u] <=> f \in c.state[u]
           /\ c.pended_on[u] = t => d.pended_on[u] = NONE /\ ~d.linked[u]
           /\ c.pended_on[u] # t =>
                /\ d.state[u] = c.state[u] /\ d.linked[u] = c.linked[u]
                /\ d.pended_on[u] = c.pended_on[u]
  BY <1>8, UnpendAllFacts DEF Queues
<1> HIDE DEF d
<1>10. NONE # t
  BY SchedAssumption
<1>11. Inv(d, X, {})
  <2>1. ~d.linked[t] /\ d.pended_on[t] = NONE /\ \A u \in Threads : d.pended_on[u] # t
    BY <1>7, <1>9, <1>10
  <2> QED
    BY <1>9, <2>1 DEF Inv
<1>12. /\ r.current = d.current /\ r.state = d.state /\ r.prio = d.prio
       /\ r.locked = d.locked /\ r.pended_on = d.pended_on /\ r.linked = d.linked
  BY <1>0, <1>9, CacheFields DEF Inv
<1>13. Inv(r, X, {})
  BY <1>0, <1>11, InvCache
<1>14. Fresh(r)
  BY <1>0, <1>9, CacheChoice DEF Inv
<1>15. "DEAD" \in r.state[t]
  BY <1>7, <1>9, <1>12
<1>16. ASSUME NEW u \in Threads PROVE r.linked[u] => s.linked[u]
  <2>1. CASE c.pended_on[u] = t
    BY <2>1, <1>9, <1>12
  <2>2. CASE c.pended_on[u] # t
    <3>1. r.linked[u] = c.linked[u]
      BY <2>2, <1>9, <1>12
    <3> QED
      BY <3>1, <1>7
  <2> QED
    BY <2>1, <2>2
<1>17. ASSUME NEW u \in Threads \ {t}
       PROVE  /\ "SUSPENDED" \in s.state[u] => "SUSPENDED" \in r.state[u]
              /\ s.pended_on[u] = NONE => /\ r.pended_on[u] = NONE
                                          /\ r.state[u] = s.state[u] /\ r.linked[u] = s.linked[u]
  BY <1>7, <1>9, <1>10, <1>12
<1>18. r.current = s.current /\ r.prio = s.prio /\ r.locked = s.locked
  BY <1>2, <1>3, <1>5, <1>9, <1>12
<1> QED
  BY <1>13, <1>14, <1>15, <1>16, <1>17, <1>18 DEF r

\* m is s but for what keeps t from running, of which there is less.
Eases(m, s, t) ==
  /\ m.current = s.current /\ m.cache = s.cache /\ m.runq = s.runq
  /\ m.prio = s.prio /\ m.locked = s.locked
  /\ Others(m, s, t)
  /\ m.state[t] \subseteq s.state[t]
  /\ "QUEUED" \in s.state[t] => "QUEUED" \in m.state[t]
  /\ m.linked[t] => s.linked[t]
  /\ m.pended_on[t] \in {s.pended_on[t], NONE}

\* One after the other.
LEMMA EasesTrans ==
  ASSUME NEW a, NEW b, NEW c, NEW t \in Threads, Eases(b, a, t), Eases(c, b, t)
  PROVE  Eases(c, a, t)
  BY DEF Eases, Others

\* Clearing flags,
LEMMA EasesClear ==
  ASSUME NEW s \in K, NEW t \in Threads, NEW f \in SUBSET {"PRESTART", "SUSPENDED"}
  PROVE  Eases(Clear(s, t, f), s, t)
<1> DEFINE r == Clear(s, t, f)
<1>1. r.state = [s.state EXCEPT ![t] = @ \ f] /\ s.state \in [Threads -> SUBSET Flags]
  BY ClearFields, KFields
<1>2. /\ r.current = s.current /\ r.cache = s.cache /\ r.prio = s.prio
      /\ r.locked = s.locked /\ r.pended_on = s.pended_on /\ r.runq = s.runq
      /\ r.linked = s.linked
  BY DEF Clear, K
<1> HIDE DEF r
<1>3. r.state[t] = s.state[t] \ f /\ \A u \in Threads \ {t} : r.state[u] = s.state[u]
  BY <1>1
<1>4. Eases(r, s, t)
  BY <1>2, <1>3 DEF Eases, Others
<1> QED
  BY <1>4 DEF r

\* aborting a timeout,
LEMMA EasesUnlink ==
  ASSUME NEW s \in K, NEW t \in Threads
  PROVE  Eases(z_abort_thread_timeout(s, t), s, t) /\ ~z_abort_thread_timeout(s, t).linked[t]
<1> DEFINE r == z_abort_thread_timeout(s, t)
<1>1. r.linked = [s.linked EXCEPT ![t] = FALSE] /\ s.linked \in [Threads -> BOOLEAN]
  BY LinkFields, KFields DEF z_abort_thread_timeout
<1>2. /\ r.current = s.current /\ r.cache = s.cache /\ r.prio = s.prio
      /\ r.locked = s.locked /\ r.pended_on = s.pended_on /\ r.runq = s.runq
      /\ r.state = s.state
  BY LinkFields DEF z_abort_thread_timeout
<1> HIDE DEF r
<1>3. ~r.linked[t] /\ \A u \in Threads \ {t} : r.linked[u] = s.linked[u]
  BY <1>1
<1>4. Eases(r, s, t)
  BY <1>2, <1>3 DEF Eases, Others
<1> QED
  BY <1>3, <1>4 DEF r

\* and unpending ease a thread.
LEMMA EasesUnpend ==
  ASSUME NEW s \in K, Nodes(s), NEW t \in Threads
  PROVE  /\ Eases(unpend_thread_no_timeout(s, t), s, t)
         /\ unpend_thread_no_timeout(s, t).state[t] = s.state[t] \ {"PENDING"}
<1> DEFINE r == unpend_thread_no_timeout(s, t)
<1>0. /\ s.state \in [Threads -> SUBSET Flags]
      /\ s.pended_on \in [Threads -> Queues \cup {NONE}]
  BY KFields
<1>1. /\ r.state = [s.state EXCEPT ![t] = @ \ {"PENDING"}]
      /\ r.pended_on = [s.pended_on EXCEPT ![t] = NONE]
  BY UnpendFields
<1>2. /\ r.current = s.current /\ r.cache = s.cache /\ r.prio = s.prio
      /\ r.locked = s.locked /\ r.runq = s.runq /\ r.linked = s.linked
  BY UnpendFields
<1> HIDE DEF r
<1>3. /\ r.state[t] = s.state[t] \ {"PENDING"} /\ \A u \in Threads \ {t} : r.state[u] = s.state[u]
      /\ r.pended_on[t] = NONE /\ \A u \in Threads \ {t} : r.pended_on[u] = s.pended_on[u]
  BY <1>0, <1>1
<1>4. Eases(r, s, t)
  BY <1>2, <1>3 DEF Eases, Others
<1> QED
  BY <1>3, <1>4 DEF r

\* A thread that is eased is not less ready, and the current thread not worse.
LEMMA EasesFacts ==
  ASSUME NEW s \in K, NEW m \in K, NEW t \in Threads, Eases(m, s, t)
  PROVE  /\ \A u \in Threads : z_is_thread_ready(s, u) => z_is_thread_ready(m, u)
         /\ \A u \in Threads \ {t} : z_is_thread_ready(s, u) <=> z_is_thread_ready(m, u)
         /\ \A u : is_preempt(m, u) <=> is_preempt(s, u)
         /\ next_up(m) = next_up(s)
         /\ CurOk(s) => CurOk(m)
         /\ Fresh(s) => Fresh(m)
<1>1. \A u \in Threads \ {t} : z_is_thread_ready(s, u) <=> z_is_thread_ready(m, u)
  BY ReadyFacts DEF Eases, Others
<1>2. z_is_thread_ready(s, t) => z_is_thread_ready(m, t)
  BY ReadyFacts DEF Eases
<1>3. \A u : is_preempt(m, u) <=> is_preempt(s, u)
  BY DEF is_preempt, Eases
<1>4. next_up(m) = next_up(s)
  BY DEF next_up, Eases
<1>5. s.current \in Threads \cup {idle} /\ m.current = s.current /\ m.cache = s.cache
  BY KFields DEF Eases
<1>6. CurOk(s) => CurOk(m)
  <2>1. CASE s.current = t
    BY <2>1, <1>5 DEF CurOk, Eases
  <2>2. CASE s.current # t
    BY <2>2, <1>5 DEF CurOk, Eases, Others
  <2> QED
    BY <2>1, <2>2
<1>7. Fresh(s) => Fresh(m)
  BY <1>1, <1>2, <1>3, <1>4, <1>5 DEF Fresh
<1> QED
  BY <1>1, <1>2, <1>3, <1>4, <1>6, <1>7

\* A thread is eased and readied.
LEMMA Readied ==
  ASSUME NEW X, NEW Y, NEW s, Inv(s, Y, {}), Fresh(s), CurOk(s), NEW m, Inv(m, X, {}),
         NEW t \in Threads, Eases(m, s, t)
  PROVE  LET r == ready_thread(m, t) IN
         /\ Inv(r, X \ {t}, {}) /\ Fresh(r) /\ CurOk(r)
         /\ CoopOk(s) => CoopOk(r)
         /\ r.current = s.current
         /\ \A u \in Threads \ {t} : r.state[u] = s.state[u] /\ r.linked[u] = s.linked[u]
         /\ \A f \in Flags \ {"QUEUED"} : f \in r.state[t] <=> f \in m.state[t]
         /\ r.linked[t] <=> m.linked[t]
<1> DEFINE r == ready_thread(m, t)
<1>0. s \in K /\ m \in K /\ Nodes(s)
  BY DEF Inv
<1>1. /\ \A u \in Threads \ {t} : z_is_thread_ready(s, u) <=> z_is_thread_ready(m, u)
      /\ \A u : is_preempt(m, u) <=> is_preempt(s, u)
      /\ CurOk(m) /\ Fresh(m)
  BY <1>0, EasesFacts
<1>2. /\ Inv(r, X \ {t}, {})
      /\ r.current = m.current /\ r.pended_on = m.pended_on /\ r.linked = m.linked
      /\ \A u \in Threads \ {t} : r.state[u] = m.state[u]
      /\ \A f \in Flags \ {"QUEUED"} : f \in r.state[t] <=> f \in m.state[t]
  BY ReadyThread
<1>3. /\ "QUEUED" \in m.state[t] \/ ~z_is_thread_ready(m, t) => r = m
      /\ "QUEUED" \notin m.state[t] /\ z_is_thread_ready(m, t) =>
              (CurOk(m) => Fresh(r)) /\ CoopOk(r)
  BY ReadyThread
<1> HIDE DEF r
<1>4. CurOk(r)
  BY <1>1, <1>2 DEF CurOk
<1>5. Fresh(r) /\ (CoopOk(s) => CoopOk(r))
  <2>1. CASE "QUEUED" \notin m.state[t] /\ z_is_thread_ready(m, t)
    BY <2>1, <1>1, <1>3
  <2>2. CASE "QUEUED" \in m.state[t] \/ ~z_is_thread_ready(m, t)
    <3>1. r = m
      BY <2>2, <1>3
    <3>2. z_is_thread_ready(m, t) => z_is_thread_ready(s, t)
      BY <2>2, <1>0 DEF Eases, Nodes
    <3>3. m.current = s.current /\ m.cache = s.cache /\ s.current \in Threads \cup {idle}
      BY <1>0, KFields DEF Eases
    <3>4. CoopOk(s) => CoopOk(m)
      BY <3>2, <3>3, <1>1 DEF CoopOk
    <3> QED
      BY <3>1, <3>4, <1>1
  <2> QED
    BY <2>1, <2>2
<1>6. /\ r.current = s.current
      /\ \A u \in Threads \ {t} : r.state[u] = s.state[u] /\ r.linked[u] = s.linked[u]
      /\ r.linked[t] <=> m.linked[t]
  BY <1>2 DEF Eases, Others
<1> QED
  BY <1>2, <1>4, <1>5, <1>6 DEF r

(***************************************************************************)
(* The inductive invariant                                                 *)
(***************************************************************************)
\* The threads that may be ready and not queued: something is under way that
\* will ready or stop them, or was before it was aborted.
Excused ==
  {t \in Threads :
     \/ firing = t \/ t \in adrift
     \/ \E c \in Threads :
          op[c] # NONE /\ op[c].at \in {"suspend", "mark", "ready"} /\ op[c].on = t}

\* The record s with the excuses X, in an interrupt or not, with or without a
\* switch that has been put off.
CpuOk(s, X, isr, late) ==
  /\ Inv(s, X, {})
  /\ Fresh(s)
  /\ CurOk(s)
  /\ ~late => CoopOk(s)
  /\ ~isr => /\ s.current # idle => z_is_thread_ready(s, s.current)
             /\ is_preempt(s, s.current) /\ ~late => s.current = next_up(s)

RestOk ==
  /\ in_isr \in BOOLEAN /\ overdue \in BOOLEAN
  /\ firing \in Threads \cup {NONE}
  /\ firing # NONE => in_isr
  /\ op \in [Threads -> Ops \cup {NONE}]
  /\ adrift \subseteq Threads

IInv == CpuOk(k, Excused, in_isr, overdue) /\ RestOk

\* After a context switch.
LEMMA Switched ==
  ASSUME NEW X, NEW s, Inv(s, X, {}), Fresh(s)
  PROVE  LET r == [s EXCEPT !.current = s.cache] IN
         /\ \A late : CpuOk(r, X, FALSE, late)
         /\ r.current = s.cache /\ r.cache = s.cache
         /\ r.state = s.state /\ r.linked = s.linked /\ r.prio = s.prio /\ r.locked = s.locked
<1> DEFINE r == [s EXCEPT !.current = s.cache]
<1>0. s \in K /\ Nodes(s)
  BY DEF Inv
<1>1. /\ r \in K /\ r.current = s.cache /\ r.cache = s.cache
      /\ r.runq = s.runq /\ r.state = s.state /\ r.prio = s.prio /\ r.locked = s.locked
      /\ r.pended_on = s.pended_on /\ r.waitq = s.waitq /\ r.linked = s.linked
  BY <1>0 DEF K
<1> HIDE DEF r
<1>2. \A u \in Threads : z_is_thread_ready(r, u) <=> z_is_thread_ready(s, u)
  BY <1>1, ReadyFacts
<1>3. Inv(r, X, {})
  BY <1>1, <1>2 DEF Inv, Nodes
<1>4. next_up(r) = next_up(s) /\ \A u : is_preempt(r, u) <=> is_preempt(s, u)
  BY <1>1 DEF next_up, is_preempt
<1>5. r.current \in Threads \cup {idle}
  BY <1>1, KFields
<1>6. r.current # idle => z_is_thread_ready(r, r.current)
  <2>1. CASE s.cache = next_up(s)
    BY <2>1, <1>0, <1>1, <1>2, NextUp
  <2>2. CASE s.cache = s.current /\ s.current # idle /\ z_is_thread_ready(s, s.current)
    BY <2>2, <1>1, <1>2, <1>5
  <2> QED
    BY <2>1, <2>2 DEF Fresh
<1>7. is_preempt(r, r.current) => r.current = next_up(r)
  BY <1>1, <1>4 DEF Fresh
<1>8. CurOk(r)
  <2>1. ASSUME r.current # idle PROVE ~r.linked[r.current] /\ r.pended_on[r.current] = NONE
    BY <2>1, <1>3, <1>5, <1>6, ReadyFacts DEF Inv, Nodes
  <2> QED
    BY <2>1 DEF CurOk
<1>9. Fresh(r) /\ CoopOk(r)
  BY <1>1, <1>4, <1>6, <1>7 DEF Fresh, CoopOk
<1>10. ASSUME NEW late PROVE CpuOk(r, X, FALSE, late)
  BY <1>3, <1>6, <1>7, <1>8, <1>9 DEF CpuOk
<1> QED
  BY <1>1, <1>10 DEF r

\* z_reschedule(): a switch at once, or at the end of the interrupt.
LEMMA AfterReschedule ==
  ASSUME NEW X, NEW s, Rescheduled(s), Inv(s, X, {}), Fresh(s), s.current = current,
         in_isr \in BOOLEAN,
         in_isr => CurOk(s) /\ (~overdue => CoopOk(s))
  PROVE  /\ CpuOk(k', X, in_isr, overdue') /\ overdue' \in BOOLEAN
         /\ k'.state = s.state /\ k'.linked = s.linked
<1>1. overdue' = (overdue /\ k'.cache # k'.current)
  BY DEF Rescheduled
<1>2. overdue' \in BOOLEAN
  BY <1>1, Zenon
<1>3. CASE in_isr
  <2>1. k' = s
    BY <1>3 DEF Rescheduled
  <2>2. ~overdue' => CoopOk(k')
    <3>1. CASE overdue
      BY <3>1, <1>1 DEF CoopOk
    <3>2. CASE ~overdue
      BY <3>2, <2>1, <1>3
    <3> QED
      BY <3>1, <3>2
  <2>3. CpuOk(k', X, in_isr, overdue')
    BY <1>3, <2>1, <2>2 DEF CpuOk
  <2> QED
    BY <1>2, <2>1, <2>3
<1>4. CASE ~in_isr
  <2> DEFINE r == [s EXCEPT !.current = s.cache]
  <2>1. k' = r
    BY <1>4 DEF Rescheduled
  <2>2. /\ \A late : CpuOk(r, X, FALSE, late)
        /\ r.current = s.cache
        /\ r.state = s.state /\ r.linked = s.linked /\ r.prio = s.prio /\ r.locked = s.locked
    BY Switched
  <2> HIDE DEF r
  <2>3. CpuOk(k', X, in_isr, overdue')
    BY <1>4, <2>1, <2>2
  <2> QED
    BY <1>2, <2>1, <2>2, <2>3
<1> QED
  BY <1>3, <1>4

\* The current thread, or the interrupt, goes on.
LEMMA AfterGoingOn ==
  ASSUME NEW X, NEW s, NEW late \in BOOLEAN, GoesOn(s, late), Inv(s, X, {}), Fresh(s), CurOk(s),
         s.current = current, ~overdue /\ ~late => CoopOk(s),
         ~in_isr => /\ s.current # idle => z_is_thread_ready(s, s.current)
                    /\ is_preempt(s, s.current) /\ ~overdue /\ ~late => s.current = next_up(s)
  PROVE  /\ CpuOk(k', X, in_isr, overdue') /\ overdue' \in BOOLEAN
         /\ k'.state = s.state /\ k'.linked = s.linked
<1>1. k' = s /\ overdue' = ((overdue \/ late) /\ s.cache # s.current)
  BY DEF GoesOn
<1>2. overdue' \in BOOLEAN
  BY <1>1, Zenon
<1>3. CASE s.cache = s.current
  <2>1. is_preempt(s, s.current) => s.current = next_up(s)
    BY <1>3 DEF Fresh
  <2>2. CpuOk(k', X, in_isr, overdue')
    BY <1>1, <1>3, <2>1 DEF CpuOk, CoopOk
  <2> QED
    BY <1>1, <1>2, <2>2
<1>4. CASE s.cache # s.current
  <2>1. overdue' <=> overdue \/ late
    BY <1>1, <1>4
  <2>2. CpuOk(k', X, in_isr, overdue')
    BY <1>1, <2>1 DEF CpuOk
  <2> QED
    BY <1>1, <1>2, <2>2
<1> QED
  BY <1>3, <1>4

\* A thread is eased without being readied.
LEMMA EasedOn ==
  ASSUME IInv, NEW X, NEW m, NEW t \in Threads, GoesOn(m, FALSE), Inv(m, X, {}), Eases(m, k, t),
         in_isr => t # current
  PROVE  /\ CpuOk(k', X, in_isr, overdue') /\ overdue' \in BOOLEAN
         /\ k'.state = m.state /\ k'.linked = m.linked
<1>0. /\ k \in K /\ m \in K /\ Fresh(k) /\ CurOk(k) /\ (~overdue => CoopOk(k))
      /\ m.current = current /\ m.cache = k.cache /\ current \in Threads \cup {idle}
  BY KFields DEF IInv, CpuOk, Inv, Eases, current
<1>1. /\ \A u \in Threads : z_is_thread_ready(k, u) => z_is_thread_ready(m, u)
      /\ \A u \in Threads \ {t} : z_is_thread_ready(k, u) <=> z_is_thread_ready(m, u)
      /\ \A u : is_preempt(m, u) <=> is_preempt(k, u)
      /\ next_up(m) = next_up(k)
      /\ CurOk(m) /\ Fresh(m)
  BY <1>0, EasesFacts
<1>2. ~in_isr => /\ current # idle => z_is_thread_ready(k, current)
                 /\ is_preempt(k, current) /\ ~overdue => current = next_up(k)
  BY DEF IInv, CpuOk, current
<1>3. ~in_isr => /\ m.current # idle => z_is_thread_ready(m, m.current)
                 /\ is_preempt(m, m.current) /\ ~overdue => m.current = next_up(m)
  BY <1>0, <1>1, <1>2
<1>4. ~overdue => CoopOk(m)
  <2> SUFFICES ASSUME ~overdue, current # idle, z_is_thread_ready(m, current), ~is_preempt(m, current)
               PROVE  k.cache = current
    BY <1>0 DEF CoopOk
  <2>1. z_is_thread_ready(k, current)
    <3>1. CASE in_isr
      BY <3>1, <1>0, <1>1
    <3>2. CASE ~in_isr
      BY <3>2, <1>2
    <3> QED
      BY <3>1, <3>2
  <2> QED
    BY <2>1, <1>0, <1>1 DEF CoopOk, current
<1> QED
  BY <1>0, <1>1, <1>3, <1>4, AfterGoingOn

\* A thread is eased and readied, from a record s that the step started with.
LEMMA ReadiedStep ==
  ASSUME NEW X, NEW Y, NEW s, Inv(s, Y, {}), Fresh(s), CurOk(s), ~overdue => CoopOk(s),
         s.current = current, in_isr \in BOOLEAN,
         NEW m, Inv(m, X, {}), NEW t \in Threads, Eases(m, s, t),
         Rescheduled(ready_thread(m, t)) \/ (in_isr /\ GoesOn(ready_thread(m, t), FALSE))
  PROVE  /\ CpuOk(k', X \ {t}, in_isr, overdue') /\ overdue' \in BOOLEAN
         /\ \A u \in Threads \ {t} : k'.state[u] = s.state[u] /\ k'.linked[u] = s.linked[u]
         /\ \A f \in Flags \ {"QUEUED"} : f \in k'.state[t] <=> f \in m.state[t]
         /\ k'.linked[t] <=> m.linked[t]
<1> DEFINE r == ready_thread(m, t)
<1>1. /\ Inv(r, X \ {t}, {}) /\ Fresh(r) /\ CurOk(r)
      /\ CoopOk(s) => CoopOk(r)
      /\ r.current = s.current
      /\ \A u \in Threads \ {t} : r.state[u] = s.state[u] /\ r.linked[u] = s.linked[u]
      /\ \A f \in Flags \ {"QUEUED"} : f \in r.state[t] <=> f \in m.state[t]
      /\ r.linked[t] <=> m.linked[t]
  BY Readied
<1> HIDE DEF r
<1>2. /\ CpuOk(k', X \ {t}, in_isr, overdue') /\ overdue' \in BOOLEAN
      /\ k'.state = r.state /\ k'.linked = r.linked
  <2>1. CASE Rescheduled(r)
    BY <2>1, <1>1, AfterReschedule
  <2>2. CASE in_isr /\ GoesOn(r, FALSE)
    BY <2>2, <1>1, AfterGoingOn
  <2> QED
    BY <2>1, <2>2 DEF r
<1> QED
  BY <1>1, <1>2

\* What IInv says, for the leaves below.
LEMMA IInvParts ==
  ASSUME IInv
  PROVE  /\ Inv(k, Excused, {}) /\ k \in K /\ Nodes(k) /\ Fresh(k) /\ CurOk(k)
         /\ ~overdue => CoopOk(k)
         /\ current \in Threads \cup {idle} /\ k.current = current
         /\ ~in_isr => /\ current # idle => z_is_thread_ready(k, current)
                       /\ is_preempt(k, current) /\ ~overdue => current = next_up(k)
         /\ in_isr \in BOOLEAN /\ overdue \in BOOLEAN
         /\ firing \in Threads \cup {NONE} /\ (firing # NONE => in_isr)
         /\ op \in [Threads -> Ops \cup {NONE}] /\ adrift \subseteq Threads
  BY KFields DEF IInv, CpuOk, Inv, RestOk, current

\* The same from the state that the step starts with.
LEMMA ReadiedNow ==
  ASSUME IInv, NEW X, NEW m, Inv(m, X, {}), NEW t \in Threads, Eases(m, k, t),
         Rescheduled(ready_thread(m, t)) \/ (in_isr /\ GoesOn(ready_thread(m, t), FALSE))
  PROVE  /\ CpuOk(k', X \ {t}, in_isr, overdue') /\ overdue' \in BOOLEAN
         /\ \A u \in Threads \ {t} : k'.state[u] = k.state[u] /\ k'.linked[u] = k.linked[u]
         /\ \A f \in Flags \ {"QUEUED"} : f \in k'.state[t] <=> f \in m.state[t]
         /\ k'.linked[t] <=> m.linked[t]
<1>1. /\ Inv(k, Excused, {}) /\ Fresh(k) /\ CurOk(k) /\ (~overdue => CoopOk(k))
      /\ k.current = current /\ in_isr \in BOOLEAN
  BY IInvParts
<1> QED
  BY <1>1, ReadiedStep

\* k_thread_start()
LEMMA StartStep ==
  ASSUME IInv, NEW t \in Threads, Start(t)
  PROVE  IInv'
<1> DEFINE m == Clear(k, t, {"PRESTART"})
<1>0. Rescheduled(ready_thread(m, t)) /\ UNCHANGED <<in_isr, firing, op, adrift>>
  BY DEF Start, z_sched_start
<1>1. Inv(m, Excused \cup {t}, {}) /\ Eases(m, k, t)
  BY IInvParts, InvClear, EasesClear
<1>2. /\ \A f \in Flags \ {"PRESTART"} : f \in m.state[t] <=> f \in k.state[t]
      /\ m.linked[t] <=> k.linked[t]
  BY IInvParts, KFields DEF Clear, K
<1> HIDE DEF m
<1>3. /\ CpuOk(k', (Excused \cup {t}) \ {t}, in_isr, overdue') /\ overdue' \in BOOLEAN
      /\ \A u \in Threads \ {t} : k'.state[u] = k.state[u] /\ k'.linked[u] = k.linked[u]
      /\ \A f \in Flags \ {"QUEUED"} : f \in k'.state[t] <=> f \in m.state[t]
      /\ k'.linked[t] <=> m.linked[t]
  BY <1>0, <1>1, IInvParts, ReadiedStep
<1>4. CpuOk(k', Excused', in_isr', overdue')
  <2>1. Excused' = Excused /\ (Excused \cup {t}) \ {t} \subseteq Excused
    BY <1>0 DEF Excused
  <2> QED
    BY <1>0, <1>3, <2>1, InvMore DEF CpuOk
<1> QED
  BY <1>0, <1>3, <1>4, IInvParts DEF IInv, RestOk

\* More excuses excuse no less.
LEMMA CpuMore ==
  ASSUME NEW X, NEW Y, NEW s, NEW isr, NEW late, CpuOk(s, X, isr, late), X \subseteq Y
  PROVE  CpuOk(s, Y, isr, late)
  BY InvMore DEF CpuOk

\* z_sched_wake()
LEMMA WakeStep ==
  ASSUME IInv, Wake
  PROVE  IInv'
<1>1. PICK t \in Threads : t = Head(k.waitq[wait_q])
  <2>1. k.waitq[wait_q] \in Seq(Threads) /\ k.waitq[wait_q] # <<>>
    BY IInvParts, KFields DEF Wake, Queues
  <2> QED
    BY <2>1
<1> DEFINE a == unpend_thread_no_timeout(k, t)
           m == z_abort_thread_timeout(a, t)
<1>0. Rescheduled(ready_thread(m, t)) /\ UNCHANGED <<in_isr, firing, op, adrift>>
  BY <1>1 DEF Wake, Woken
<1>2. Inv(a, Excused \cup {t}, {}) /\ Eases(a, k, t) /\ a.state[t] = k.state[t] \ {"PENDING"}
  BY IInvParts, InvUnpend, EasesUnpend
<1> HIDE DEF a
<1>3. /\ Inv(m, (Excused \cup {t}) \cup {t}, {}) /\ Eases(m, a, t)
      /\ ~m.linked[t] /\ m.state[t] = a.state[t]
  <2>1. a \in K
    BY <1>2 DEF Inv
  <2>2. m.state = a.state
    BY <2>1 DEF z_abort_thread_timeout, K
  <2> QED
    BY <1>2, <2>1, <2>2, InvUnlink, EasesUnlink
<1> HIDE DEF m
<1>4. Eases(m, k, t)
  BY <1>2, <1>3, EasesTrans
<1>5. /\ CpuOk(k', ((Excused \cup {t}) \cup {t}) \ {t}, in_isr, overdue') /\ overdue' \in BOOLEAN
      /\ \A u \in Threads \ {t} : k'.state[u] = k.state[u] /\ k'.linked[u] = k.linked[u]
      /\ \A f \in Flags \ {"QUEUED"} : f \in k'.state[t] <=> f \in m.state[t]
      /\ k'.linked[t] <=> m.linked[t]
  BY <1>0, <1>3, <1>4, IInvParts, ReadiedStep
<1>6. CpuOk(k', Excused', in_isr', overdue')
  <2>1. Excused' = Excused /\ ((Excused \cup {t}) \cup {t}) \ {t} \subseteq Excused
    BY <1>0 DEF Excused
  <2> QED
    BY <1>0, <1>5, <2>1, CpuMore
<1>7. "SUSPENDED" \in k.state[t] => "SUSPENDED" \in k'.state[t]
  BY <1>2, <1>3, <1>5 DEF Flags
<1> QED
  BY <1>0, <1>5, <1>6, IInvParts DEF IInv, RestOk

\* k_thread_resume()
LEMMA ResumeStep ==
  ASSUME IInv, NEW t \in Threads, Resume(t)
  PROVE  IInv'
<1> DEFINE m == Clear(k, t, {"SUSPENDED"})
<1>0. /\ Rescheduled(ready_thread(m, t)) /\ UNCHANGED <<in_isr, firing, op, adrift>>
  BY DEF Resume
<1>1. Inv(m, Excused \cup {t}, {}) /\ Eases(m, k, t)
  BY IInvParts, InvClear, EasesClear
<1> HIDE DEF m
<1>3. /\ CpuOk(k', (Excused \cup {t}) \ {t}, in_isr, overdue') /\ overdue' \in BOOLEAN
      /\ \A u \in Threads \ {t} : k'.state[u] = k.state[u] /\ k'.linked[u] = k.linked[u]
      /\ \A f \in Flags \ {"QUEUED"} : f \in k'.state[t] <=> f \in m.state[t]
      /\ k'.linked[t] <=> m.linked[t]
  BY <1>0, <1>1, ReadiedNow
<1>4. CpuOk(k', Excused', in_isr', overdue')
  <2>1. Excused' = Excused /\ (Excused \cup {t}) \ {t} \subseteq Excused
    BY <1>0 DEF Excused
  <2> QED
    BY <1>0, <1>3, <2>1, CpuMore
<1> QED
  BY <1>0, <1>3, <1>4, IInvParts DEF IInv, RestOk

\* k_wakeup() in an interrupt.
LEMMA IsrWakeupStep ==
  ASSUME IInv, NEW t \in Threads, IsrWakeup(t)
  PROVE  IInv'
<1> DEFINE a == z_abort_thread_timeout(k, t)
           m == Clear(a, t, {"SUSPENDED"})
<1>0. /\ in_isr /\ GoesOn(ready_thread(m, t), FALSE) /\ UNCHANGED <<in_isr, firing, op, adrift>>
  BY DEF IsrWakeup
<1>1. Inv(a, Excused \cup {t}, {}) /\ Eases(a, k, t) /\ a \in K
  <2>1. Inv(a, Excused \cup {t}, {}) /\ Eases(a, k, t)
    BY IInvParts, InvUnlink, EasesUnlink
  <2> QED
    BY <2>1 DEF Inv
<1> HIDE DEF a
<1>2. Inv(m, (Excused \cup {t}) \cup {t}, {}) /\ Eases(m, a, t)
  BY <1>1, InvClear, EasesClear
<1> HIDE DEF m
<1>3. Eases(m, k, t) /\ (Rescheduled(ready_thread(m, t)) \/ (in_isr /\ GoesOn(ready_thread(m, t), FALSE)))
  BY <1>0, <1>1, <1>2, EasesTrans
<1>4. /\ CpuOk(k', ((Excused \cup {t}) \cup {t}) \ {t}, in_isr, overdue') /\ overdue' \in BOOLEAN
      /\ \A u \in Threads \ {t} : k'.state[u] = k.state[u] /\ k'.linked[u] = k.linked[u]
      /\ \A f \in Flags \ {"QUEUED"} : f \in k'.state[t] <=> f \in m.state[t]
      /\ k'.linked[t] <=> m.linked[t]
  BY <1>2, <1>3, ReadiedNow
<1>5. CpuOk(k', Excused', in_isr', overdue')
  <2>1. Excused' = Excused /\ ((Excused \cup {t}) \cup {t}) \ {t} \subseteq Excused
    BY <1>0 DEF Excused
  <2> QED
    BY <1>0, <1>4, <2>1, CpuMore
<1> QED
  BY <1>0, <1>4, <1>5, IInvParts DEF IInv, RestOk

\* The last section of k_wakeup(): its excuse for the thread ends.
LEMMA WakeupEndStep ==
  ASSUME IInv, WakeupEnd
  PROVE  IInv'
<1>1. /\ current \in Threads /\ op[current] \in Ops /\ ~in_isr
      /\ Rescheduled(ready_thread(k, op[current].on))
      /\ op' = [op EXCEPT ![current] = NONE]
      /\ UNCHANGED <<in_isr, firing, adrift>>
  BY IInvParts DEF WakeupEnd, At, Done
<1>2. PICK t \in Threads : t = op[current].on
  BY <1>1 DEF Ops
<1>3. Eases(k, k, t) /\ Rescheduled(ready_thread(k, t))
  BY <1>1, <1>2 DEF Eases, Others
<1>0. Inv(k, Excused, {})
  BY IInvParts
<1>4. /\ CpuOk(k', Excused \ {t}, in_isr, overdue') /\ overdue' \in BOOLEAN
      /\ \A u \in Threads \ {t} : k'.state[u] = k.state[u] /\ k'.linked[u] = k.linked[u]
      /\ \A f \in Flags \ {"QUEUED"} : f \in k'.state[t] <=> f \in k.state[t]
      /\ k'.linked[t] <=> k.linked[t]
  BY <1>0, <1>3, ReadiedNow
<1>5. Excused \ {t} \subseteq Excused'
  <2> SUFFICES ASSUME NEW u \in Excused, u # t PROVE u \in Excused'
    OBVIOUS
  <2>1. CASE firing = u \/ u \in adrift
    BY <2>1, <1>1 DEF Excused
  <2>2. CASE \E c \in Threads : op[c] # NONE /\ op[c].at \in {"suspend", "mark", "ready"} /\ op[c].on = u
    <3>1. PICK c \in Threads : op[c] # NONE /\ op[c].at \in {"suspend", "mark", "ready"} /\ op[c].on = u
      BY <2>2
    <3>2. c # current /\ op'[c] = op[c]
      BY <3>1, <1>1, <1>2, IInvParts
    <3> QED
      BY <3>1, <3>2 DEF Excused
  <2> QED
    BY <2>1, <2>2 DEF Excused
<1>6. CpuOk(k', Excused', in_isr', overdue')
  BY <1>1, <1>4, <1>5, CpuMore
<1>8. op' \in [Threads -> Ops \cup {NONE}]
  BY <1>1, IInvParts
<1> QED
  BY <1>1, <1>4, <1>6, <1>8, IInvParts DEF IInv, RestOk

\* z_thread_timeout()
LEMMA CallbackStep ==
  ASSUME IInv, Callback
  PROVE  IInv'
<1>1. PICK t \in Threads : t = firing
  BY IInvParts DEF Callback
<1>2. /\ in_isr /\ GoesOn(z_sched_wake_thread(k, t), FALSE) /\ firing' = NONE
      /\ UNCHANGED <<in_isr, op, adrift>> /\ t # NONE
  BY <1>1, IInvParts, SchedAssumption DEF Callback
<1>3. Excused \ {t} \subseteq Excused'
  BY <1>1, <1>2 DEF Excused
<1>5. CASE "DEAD" \in k.state[t]
  <2>1. GoesOn(k, FALSE)
    BY <1>2, <1>5 DEF z_sched_wake_thread
  <2>2. Inv(k, Excused \ {t}, {})
    BY <1>5, IInvParts, ReadyFacts, InvNotReady
  <2>3. /\ CpuOk(k', Excused \ {t}, in_isr, overdue') /\ overdue' \in BOOLEAN
        /\ k'.state = k.state /\ k'.linked = k.linked
    BY <1>2, <2>1, <2>2, IInvParts, AfterGoingOn
  <2>4. CpuOk(k', Excused', in_isr', overdue')
    BY <1>2, <1>3, <2>3, CpuMore
  <2> QED
    BY <1>2, <2>3, <2>4, IInvParts DEF IInv, RestOk
<1>6. CASE "DEAD" \notin k.state[t]
  <2> DEFINE a == unpend_thread_no_timeout(k, t)
             m == Clear(a, t, {"PRESTART", "SUSPENDED"})
  <2>1. GoesOn(ready_thread(m, t), FALSE)
    BY <1>2, <1>6 DEF z_sched_wake_thread
  <2>2. Inv(a, Excused \cup {t}, {}) /\ Eases(a, k, t) /\ a \in K
    <3>1. Inv(a, Excused \cup {t}, {}) /\ Eases(a, k, t)
      BY IInvParts, InvUnpend, EasesUnpend
    <3> QED
      BY <3>1 DEF Inv
  <2> HIDE DEF a
  <2>3. Inv(m, (Excused \cup {t}) \cup {t}, {}) /\ Eases(m, a, t)
    BY <2>2, InvClear, EasesClear
  <2> HIDE DEF m
  <2>4. Eases(m, k, t) /\ (Rescheduled(ready_thread(m, t)) \/ (in_isr /\ GoesOn(ready_thread(m, t), FALSE)))
    BY <1>2, <2>1, <2>2, <2>3, EasesTrans
  <2>5. /\ CpuOk(k', ((Excused \cup {t}) \cup {t}) \ {t}, in_isr, overdue') /\ overdue' \in BOOLEAN
        /\ \A u \in Threads \ {t} : k'.state[u] = k.state[u] /\ k'.linked[u] = k.linked[u]
        /\ \A f \in Flags \ {"QUEUED"} : f \in k'.state[t] <=> f \in m.state[t]
        /\ k'.linked[t] <=> m.linked[t]
    BY <2>3, <2>4, ReadiedNow
  <2>6. CpuOk(k', Excused', in_isr', overdue')
    <3>1. ((Excused \cup {t}) \cup {t}) \ {t} \subseteq Excused'
      BY <1>3
    <3> QED
      BY <1>2, <2>5, <3>1, CpuMore
  <2> QED
    BY <1>2, <2>5, <2>6, IInvParts DEF IInv, RestOk
<1> QED
  BY <1>5, <1>6

\* The excuses of the threads depend on the calls that are under way.
LEMMA ExcusedSame ==
  ASSUME firing' = firing, op' = op, adrift' = adrift
  PROVE  Excused' = Excused
  BY DEF Excused

\* A call begins, or goes on to its next section.
LEMMA ExcusedBegins ==
  ASSUME IInv, NEW t \in Threads, NEW a \in {"suspend", "abort_timeout", "mark", "ready"},
         current \in Threads, op' = [op EXCEPT ![current] = [at |-> a, on |-> t]],
         op[current] = NONE \/ op[current].on = t, firing' = firing, adrift' = adrift
  PROVE  /\ op' \in [Threads -> Ops \cup {NONE}]
         /\ a # "abort_timeout" => Excused \cup {t} \subseteq Excused'
         /\ a = "abort_timeout" => Excused \ {t} \subseteq Excused'
         /\ a = "abort_timeout" /\ op[current] = NONE => Excused \subseteq Excused'
<1> DEFINE o == [at |-> a, on |-> t]
<1>1. o \in Ops /\ o # NONE /\ o.at = a /\ o.on = t
  BY SchedAssumption DEF Ops
<1> HIDE DEF o
<1>2. op \in [Threads -> Ops \cup {NONE}] /\ op' = [op EXCEPT ![current] = o]
  BY IInvParts DEF o
<1>3. op' \in [Threads -> Ops \cup {NONE}]
  BY <1>1, <1>2
<1>4. op'[current] = o /\ \A c \in Threads \ {current} : op'[c] = op[c]
  BY <1>2
<1>5. ASSUME NEW u \in Excused, u # t \/ op[current] = NONE PROVE u \in Excused'
  <2>1. CASE firing = u \/ u \in adrift
    BY <2>1 DEF Excused
  <2>2. CASE \E c \in Threads : op[c] # NONE /\ op[c].at \in {"suspend", "mark", "ready"} /\ op[c].on = u
    <3>1. PICK c \in Threads : op[c] # NONE /\ op[c].at \in {"suspend", "mark", "ready"} /\ op[c].on = u
      BY <2>2
    <3>2. c # current
      BY <1>5, <3>1
    <3> QED
      BY <3>1, <3>2, <1>4 DEF Excused
  <2> QED
    BY <1>5, <2>1, <2>2 DEF Excused
<1>6. a # "abort_timeout" => t \in Excused'
  BY <1>1, <1>4 DEF Excused
<1> QED
  BY <1>3, <1>5, <1>6

\* A call ends.
LEMMA ExcusedEnds ==
  ASSUME IInv, current \in Threads, op' = [op EXCEPT ![current] = NONE],
         NEW t, op[current] # NONE => op[current].on = t, firing' = firing, adrift' = adrift
  PROVE  /\ op' \in [Threads -> Ops \cup {NONE}]
         /\ Excused \ {t} \subseteq Excused'
         /\ op[current] # NONE /\ op[current].at = "abort_timeout" => Excused \subseteq Excused'
<1>1. op \in [Threads -> Ops \cup {NONE}]
  BY IInvParts
<1>2. op' \in [Threads -> Ops \cup {NONE}]
  BY <1>1
<1>3. \A c \in Threads \ {current} : op'[c] = op[c]
  BY <1>1
<1>5. ASSUME NEW u \in Excused, u # t \/ (op[current] # NONE /\ op[current].at = "abort_timeout")
      PROVE u \in Excused'
  <2>1. CASE firing = u \/ u \in adrift
    BY <2>1 DEF Excused
  <2>2. CASE \E c \in Threads : op[c] # NONE /\ op[c].at \in {"suspend", "mark", "ready"} /\ op[c].on = u
    <3>1. PICK c \in Threads : op[c] # NONE /\ op[c].at \in {"suspend", "mark", "ready"} /\ op[c].on = u
      BY <2>2
    <3>2. c # current
      BY <1>5, <3>1
    <3> QED
      BY <3>1, <3>2, <1>3 DEF Excused
  <2> QED
    BY <1>5, <2>1, <2>2 DEF Excused
<1> QED
  BY <1>2, <1>5

\* What is left of a step once the record is known.
LEMMA Concluded ==
  ASSUME IInv, NEW X, CpuOk(k', X, in_isr, overdue'), overdue' \in BOOLEAN, X \subseteq Excused',
         in_isr' = in_isr, firing' = firing, op' \in [Threads -> Ops \cup {NONE}],
         adrift' \subseteq Threads
  PROVE  IInv'
<1>1. CpuOk(k', Excused', in_isr', overdue')
  BY CpuMore
<1> QED
  BY <1>1, IInvParts DEF IInv, RestOk

\* A timeout is aborted, and its thread not readied yet.
LEMMA UnlinkedOn ==
  ASSUME IInv, NEW t \in Threads, GoesOn(z_abort_thread_timeout(k, t), FALSE),
         in_isr => t # current
  PROVE  /\ CpuOk(k', Excused \cup {t}, in_isr, overdue') /\ overdue' \in BOOLEAN
         /\ k'.state = k.state /\ (\A u \in Threads : k'.linked[u] => k.linked[u])
<1> DEFINE m == z_abort_thread_timeout(k, t)
<1>1. k \in K /\ Inv(k, Excused, {})
  BY IInvParts
<1>2. Inv(m, Excused \cup {t}, {})
  BY <1>1, InvUnlink
<1>3. Eases(m, k, t)
  BY <1>1, EasesUnlink
<1>4. m.state = k.state
  BY <1>1 DEF z_abort_thread_timeout, K
<1>5. \A u \in Threads : m.linked[u] => k.linked[u]
  BY <1>3 DEF Eases, Others
<1> HIDE DEF m
<1>6. GoesOn(m, FALSE)
  BY DEF m
<1>7. /\ CpuOk(k', Excused \cup {t}, in_isr, overdue') /\ overdue' \in BOOLEAN
      /\ k'.state = m.state /\ k'.linked = m.linked
  BY <1>2, <1>3, <1>6, EasedOn
<1> QED
  BY <1>4, <1>5, <1>7

\* k_thread_suspend() aborts the timeout.
LEMMA SuspendStartStep ==
  ASSUME IInv, NEW t \in Threads, SuspendStart(t)
  PROVE  IInv'
<1>1. /\ ~in_isr /\ current \in Threads /\ op[current] = NONE
      /\ GoesOn(z_abort_thread_timeout(k, t), FALSE)
      /\ op' = [op EXCEPT ![current] = [at |-> "suspend", on |-> t]]
      /\ in_isr' = in_isr /\ firing' = firing /\ adrift' = adrift
  BY IInvParts DEF SuspendStart, InThread
<1>2. /\ CpuOk(k', Excused \cup {t}, in_isr, overdue') /\ overdue' \in BOOLEAN
      /\ k'.state = k.state /\ (\A u \in Threads : k'.linked[u] => k.linked[u])
  BY <1>1, UnlinkedOn
<1>3. op' \in [Threads -> Ops \cup {NONE}] /\ Excused \cup {t} \subseteq Excused'
  BY <1>1, ExcusedBegins
<1> QED
  BY <1>1, <1>2, <1>3, IInvParts, Concluded

\* k_wakeup() has seen that the thread is not pending.
LEMMA WakeupStartStep ==
  ASSUME IInv, NEW t \in Threads, WakeupStart(t)
  PROVE  IInv'
<1>1. /\ current \in Threads /\ op[current] = NONE
      /\ op' = [op EXCEPT ![current] = [at |-> "abort_timeout", on |-> t]]
      /\ in_isr' = in_isr /\ firing' = firing /\ adrift' = adrift
      /\ k' = k /\ overdue' = overdue
  BY IInvParts DEF WakeupStart, InThread
<1>2. op' \in [Threads -> Ops \cup {NONE}] /\ Excused \subseteq Excused'
  BY <1>1, ExcusedBegins
<1>3. CpuOk(k', Excused, in_isr, overdue')
  BY <1>1 DEF IInv
<1> QED
  BY <1>1, <1>2, <1>3, IInvParts, Concluded

\* k_wakeup() aborts the timeout.
LEMMA WakeupAbortStep ==
  ASSUME IInv, WakeupAbort
  PROVE  IInv'
<1>1. /\ ~in_isr /\ current \in Threads /\ op[current] \in Ops /\ op[current] # NONE
      /\ op[current].at = "abort_timeout"
      /\ in_isr' = in_isr /\ firing' = firing /\ adrift' = adrift
  BY IInvParts DEF WakeupAbort, At
<1>2. PICK t \in Threads : t = op[current].on
  BY <1>1 DEF Ops
<1>3. /\ GoesOn(z_abort_thread_timeout(k, t), FALSE)
      /\ op' = [op EXCEPT ![current] = IF Wakeable(t) THEN [at |-> "mark", on |-> t] ELSE NONE]
  BY <1>2 DEF WakeupAbort
<1>4. /\ CpuOk(k', Excused \cup {t}, in_isr, overdue') /\ overdue' \in BOOLEAN
      /\ k'.state = k.state /\ (\A u \in Threads : k'.linked[u] => k.linked[u])
  BY <1>1, <1>3, UnlinkedOn
<1>6. CASE Wakeable(t)
  <2>1. op' \in [Threads -> Ops \cup {NONE}] /\ Excused \cup {t} \subseteq Excused'
    BY <1>1, <1>2, <1>3, <1>6, ExcusedBegins
  <2> QED
    BY <1>1, <1>4, <2>1, IInvParts, Concluded
<1>7. CASE ~Wakeable(t)
  <2>1. op' \in [Threads -> Ops \cup {NONE}] /\ Excused \subseteq Excused'
    BY <1>1, <1>2, <1>3, <1>7, ExcusedEnds
  <2>2. z_is_thread_ready(k', t) => z_is_thread_ready(k, t)
    BY <1>4, <1>7, ReadyFacts DEF Wakeable
  <2>3. Inv(k', Excused, {})
    BY <1>4, <2>2, IInvParts DEF CpuOk, Inv
  <2>4. CpuOk(k', Excused, in_isr, overdue')
    BY <1>4, <2>3 DEF CpuOk
  <2> QED
    BY <1>1, <1>4, <2>1, <2>4, IInvParts, Concluded
<1> QED
  BY <1>6, <1>7

\* k_wakeup() changes the state of the thread.
LEMMA WakeupMarkStep ==
  ASSUME IInv, WakeupMark
  PROVE  IInv'
<1>1. /\ ~in_isr /\ current \in Threads /\ op[current] \in Ops /\ op[current] # NONE
      /\ op[current].at = "mark"
      /\ in_isr' = in_isr /\ firing' = firing /\ adrift' = adrift
  BY IInvParts DEF WakeupMark, At
<1>2. PICK t \in Threads : t = op[current].on
  BY <1>1 DEF Ops
<1> DEFINE m == Clear(k, t, {"SUSPENDED"})
<1>3. GoesOn(m, FALSE)
  BY <1>2 DEF WakeupMark
<1>4. op' = [op EXCEPT ![current] = [at |-> "ready", on |-> t]]
  <2>1. op' = [op EXCEPT ![current] = [@ EXCEPT !.at = "ready"]]
    BY DEF WakeupMark
  <2>2. [op[current] EXCEPT !.at = "ready"] = [at |-> "ready", on |-> t]
    BY <1>1, <1>2 DEF Ops
  <2> QED
    BY <1>1, <2>1, <2>2, IInvParts
<1>5. op' \in [Threads -> Ops \cup {NONE}] /\ Excused \cup {t} \subseteq Excused'
  BY <1>1, <1>2, <1>4, ExcusedBegins
<1>6. Inv(m, Excused \cup {t}, {}) /\ Eases(m, k, t)
  BY IInvParts, InvClear, EasesClear
<1>7. m.linked = k.linked /\ \A u \in Threads \ {t} : m.state[u] = k.state[u]
  BY IInvParts, KFields DEF Clear, K
<1> HIDE DEF m
<1>8. /\ CpuOk(k', Excused \cup {t}, in_isr, overdue') /\ overdue' \in BOOLEAN
      /\ k'.state = m.state /\ k'.linked = m.linked
  BY <1>1, <1>3, <1>6, EasedOn
<1> QED
  BY <1>1, <1>5, <1>8, IInvParts, Concluded

\* sys_clock_announce() dequeues the timeout of a thread.
LEMMA ExpireStep ==
  ASSUME IInv, NEW t \in Threads, Expire(t)
  PROVE  IInv'
<1>1. /\ in_isr /\ firing = NONE /\ k.linked[t] /\ GoesOn(z_abort_thread_timeout(k, t), FALSE)
      /\ firing' = t /\ in_isr' = in_isr /\ op' = op /\ adrift' = adrift
  BY DEF Expire
<1>2. t # current
  BY <1>1, IInvParts, SchedAssumption DEF CurOk
<1>3. /\ CpuOk(k', Excused \cup {t}, in_isr, overdue') /\ overdue' \in BOOLEAN
      /\ k'.state = k.state /\ (\A u \in Threads : k'.linked[u] => k.linked[u])
  BY <1>1, <1>2, UnlinkedOn
<1>4. Excused \cup {t} \subseteq Excused'
  BY <1>1, SchedAssumption DEF Excused
<1>5. CpuOk(k', Excused', in_isr', overdue')
  BY <1>1, <1>3, <1>4, CpuMore
<1> QED
  BY <1>1, <1>3, <1>5, IInvParts DEF IInv, RestOk

\* Only the choice of the CPU, and the locks of the scheduler, differ.
LEMMA InvSame ==
  ASSUME NEW X, NEW D, NEW s, Inv(s, X, D), NEW r \in K,
         r.runq = s.runq, r.state = s.state, r.prio = s.prio, r.pended_on = s.pended_on,
         r.waitq = s.waitq, r.linked = s.linked
  PROVE  /\ Inv(r, X, D)
         /\ next_up(r) = next_up(s)
         /\ \A u \in Threads : z_is_thread_ready(r, u) <=> z_is_thread_ready(s, u)
<1>1. \A u \in Threads : z_is_thread_ready(r, u) <=> z_is_thread_ready(s, u)
  BY ReadyFacts
<1>2. Inv(r, X, D)
  BY <1>1 DEF Inv, Nodes
<1> QED
  BY <1>1, <1>2 DEF next_up

\* The depth of the locks of a thread changes.
LEMMA LockFields ==
  ASSUME NEW s \in K, NEW t \in Threads, NEW n \in Nat
  PROVE  LET r == [s EXCEPT !.locked[t] = n] IN
         /\ r \in K
         /\ r.locked[t] = n
         /\ r.current = s.current /\ r.cache = s.cache /\ r.prio = s.prio
         /\ r.linked = s.linked /\ r.pended_on = s.pended_on /\ r.runq = s.runq
         /\ r.waitq = s.waitq /\ r.state = s.state
<1>1. [s.locked EXCEPT ![t] = n] \in [Threads -> Nat] /\ [s.locked EXCEPT ![t] = n][t] = n
  BY KFields
<1> QED
  BY <1>1 DEF K

\* k_sched_lock()
LEMMA SchedLockStep ==
  ASSUME IInv, SchedLock
  PROVE  IInv'
<1>1. current \in Threads /\ k.locked[current] \in Nat /\ ~in_isr /\ k \in K
  BY IInvParts, KFields DEF SchedLock, InThread
<1> DEFINE s == [k EXCEPT !.locked[current] = k.locked[current] + 1]
<1>2. /\ GoesOn(s, FALSE)
      /\ in_isr' = in_isr /\ firing' = firing /\ op' = op /\ adrift' = adrift
  BY DEF SchedLock
<1>3. /\ s \in K /\ s.locked[current] = k.locked[current] + 1
      /\ s.current = k.current /\ s.cache = k.cache /\ s.prio = k.prio
      /\ s.linked = k.linked /\ s.pended_on = k.pended_on /\ s.runq = k.runq
      /\ s.waitq = k.waitq /\ s.state = k.state
  BY <1>1, LockFields
<1> HIDE DEF s
<1>4. Inv(k, Excused, {})
  BY IInvParts
<1>5. /\ Inv(s, Excused, {}) /\ next_up(s) = next_up(k)
      /\ \A u \in Threads : z_is_thread_ready(s, u) <=> z_is_thread_ready(k, u)
  BY <1>3, <1>4, InvSame
<1>6. ~is_preempt(s, current) /\ s.current = current
  BY <1>1, <1>3, SchedAssumption DEF is_preempt, current
<1>7. z_is_thread_ready(s, current)
  BY <1>1, <1>5, IInvParts, SchedAssumption
<1>8. ~overdue => k.cache = current
  <2>1. CASE is_preempt(k, current)
    BY <1>1, <2>1, IInvParts DEF Fresh
  <2>2. CASE ~is_preempt(k, current)
    BY <1>1, <2>2, IInvParts, SchedAssumption DEF CoopOk
  <2> QED
    BY <2>1, <2>2
<1>9. Fresh(s) /\ CurOk(s) /\ (~overdue => CoopOk(s))
  BY <1>1, <1>3, <1>5, <1>6, <1>7, <1>8, IInvParts DEF Fresh, CurOk, CoopOk
<1>10. /\ CpuOk(k', Excused, in_isr, overdue') /\ overdue' \in BOOLEAN
       /\ k'.state = s.state /\ k'.linked = s.linked
  BY <1>2, <1>5, <1>6, <1>7, <1>9, AfterGoingOn
<1>11. Excused' = Excused
  BY <1>2, ExcusedSame
<1> QED
  BY <1>2, <1>10, <1>11, IInvParts, Concluded

\* k_sched_unlock()
LEMMA SchedUnlockStep ==
  ASSUME IInv, SchedUnlock
  PROVE  IInv'
<1>1. /\ current \in Threads /\ k.locked[current] \in Nat /\ k.locked[current] > 0
      /\ ~in_isr /\ k \in K
  BY IInvParts, KFields DEF SchedUnlock, InThread
<1> DEFINE s == [k EXCEPT !.locked[current] = k.locked[current] - 1]
           r == update_cache(s, FALSE)
<1>2. /\ Rescheduled(r)
      /\ in_isr' = in_isr /\ firing' = firing /\ op' = op /\ adrift' = adrift
  BY DEF SchedUnlock
<1>3. /\ s \in K
      /\ s.current = k.current /\ s.cache = k.cache /\ s.prio = k.prio
      /\ s.linked = k.linked /\ s.pended_on = k.pended_on /\ s.runq = k.runq
      /\ s.waitq = k.waitq /\ s.state = k.state
  <2>1. k.locked[current] - 1 \in Nat
    BY <1>1
  <2> QED
    BY <1>1, <2>1, LockFields
<1> HIDE DEF s
<1>4. Inv(k, Excused, {})
  BY IInvParts
<1>5. Inv(s, Excused, {})
  BY <1>3, <1>4, InvSame
<1>6. CurOk(s)
  BY <1>3, IInvParts DEF CurOk
<1>7. Inv(r, Excused, {}) /\ Fresh(r) /\ CoopOk(r)
  BY <1>3, <1>5, <1>6, InvCache, CacheChoice
<1>8. r.current = current /\ r.state = k.state /\ r.linked = k.linked
  BY <1>3, CacheFields DEF current
<1> HIDE DEF r
<1>9. /\ CpuOk(k', Excused, in_isr, overdue') /\ overdue' \in BOOLEAN
      /\ k'.state = r.state /\ k'.linked = r.linked
  BY <1>1, <1>2, <1>7, <1>8, IInvParts, AfterReschedule
<1>10. Excused' = Excused
  BY <1>2, ExcusedSame
<1> QED
  BY <1>2, <1>9, <1>10, IInvParts, Concluded

\* An interrupt begins.
LEMMA IsrEnterStep ==
  ASSUME IInv, IsrEnter
  PROVE  IInv'
<1>1. /\ in_isr' = TRUE /\ k' = k /\ firing' = firing /\ op' = op
      /\ adrift' = adrift /\ overdue' = overdue
  BY DEF IsrEnter
<1>2. Excused' = Excused
  BY <1>1, ExcusedSame
<1>3. CpuOk(k', Excused', in_isr', overdue')
  BY <1>1, <1>2 DEF IInv, CpuOk
<1> QED
  BY <1>1, <1>3, IInvParts DEF IInv, RestOk

\* An interrupt ends with the context switch that it has put off.
LEMMA IsrExitStep ==
  ASSUME IInv, IsrExit
  PROVE  IInv'
<1> DEFINE r == [k EXCEPT !.current = k.cache]
<1>1. /\ in_isr' = FALSE /\ k' = r /\ firing' = firing /\ firing = NONE /\ op' = op
      /\ adrift' = adrift /\ overdue' = FALSE
  BY DEF IsrExit
<1>2. Excused' = Excused
  BY <1>1, ExcusedSame
<1>3. /\ \A late : CpuOk(r, Excused, FALSE, late)
      /\ r.current = k.cache /\ r.cache = k.cache
      /\ r.state = k.state /\ r.linked = k.linked /\ r.prio = k.prio /\ r.locked = k.locked
  BY IInvParts, Switched
<1> HIDE DEF r
<1>4. CpuOk(k', Excused', in_isr', overdue')
  BY <1>1, <1>2, <1>3
<1> QED
  BY <1>1, <1>4, IInvParts DEF IInv, RestOk

\* The first thread of a list stays the first when another one leaves.
LEMMA RemoveHead ==
  ASSUME NEW S, NEW s \in Seq(S), NEW x, IsIn(s, x), s # <<>>, Head(s) # x
  PROVE  RemoveItem(s, x) # <<>> /\ Head(RemoveItem(s, x)) = Head(s)
<1> DEFINE i == Position(s, x)
           r == RemoveItem(s, x)
<1>1. i \in DOMAIN s /\ s[i] = x
  BY DEF IsIn, Position
<1>2. /\ r \in Seq(S) /\ DOMAIN r = 1..(Len(s) - 1)
      /\ \A j \in 1..(Len(s) - 1) : r[j] = IF j < i THEN s[j] ELSE s[j + 1]
  BY RemoveShape
<1> HIDE DEF i, r
<1>3. Len(s) \in Nat /\ DOMAIN s = 1..Len(s) /\ Head(s) = s[1] /\ i # 1
  BY <1>1
<1>4. 1 \in 1..(Len(s) - 1) /\ 1 < i
  BY <1>1, <1>3
<1>5. r[1] = s[1] /\ 1 \in DOMAIN r
  BY <1>2, <1>4
<1>6. r # <<>> /\ Head(r) = r[1]
  BY <1>2, <1>5
<1> QED
  BY <1>3, <1>5, <1>6 DEF r

\* The section of k_thread_suspend(): another thread stays the choice, or the
\* one that runs is not the choice any more.
LEMMA SuspendedFacts ==
  ASSUME NEW X, NEW s, Inv(s, X, {}), CurOk(s), NEW t \in Threads
  PROVE  LET r == update_cache(Stopped(s, t, "SUSPENDED"), t = s.current) IN
         /\ Inv(r, X \ {t}, {}) /\ Fresh(r) /\ CurOk(r) /\ CoopOk(r)
         /\ r.current = s.current /\ r.linked = s.linked
         /\ "SUSPENDED" \in r.state[t]
         /\ \A u \in Threads \ {t} : r.state[u] = s.state[u]
         /\ \A u : is_preempt(r, u) <=> is_preempt(s, u)
         /\ t # s.current /\ s.current = next_up(s) => s.current = next_up(r)
<1> DEFINE a == Stopped(s, t, "SUSPENDED")
           b == (t = s.current)
           r == update_cache(a, b)
<1>0. s \in K /\ Nodes(s) /\ b \in BOOLEAN
  BY DEF Inv
<1>1. /\ a \in K
      /\ a.state[t] = (s.state[t] \ {"QUEUED"}) \cup {"SUSPENDED"}
      /\ \A u \in Threads \ {t} : a.state[u] = s.state[u]
      /\ a.runq = IF "QUEUED" \in s.state[t] THEN RemoveItem(s.runq, t) ELSE s.runq
      /\ a.current = s.current /\ a.cache = s.cache /\ a.prio = s.prio
      /\ a.locked = s.locked /\ a.pended_on = s.pended_on
      /\ a.waitq = s.waitq /\ a.linked = s.linked
  BY <1>0, StoppedFields
<1>2. Inv(a, X \ {t}, {})
  BY InvStopped
<1> HIDE DEF a
<1>3. /\ r.current = a.current /\ r.state = a.state /\ r.prio = a.prio
      /\ r.locked = a.locked /\ r.pended_on = a.pended_on /\ r.runq = a.runq
      /\ r.linked = a.linked
  BY <1>0, <1>1, CacheFields
<1>4. Inv(r, X \ {t}, {})
  BY <1>0, <1>2, InvCache
<1>5. CurOk(a)
  BY <1>1 DEF CurOk
<1>6. Fresh(r) /\ (~b => CoopOk(r))
  BY <1>0, <1>1, <1>5, CacheChoice
<1> HIDE DEF r
<1>7. CurOk(r)
  BY <1>1, <1>3 DEF CurOk
<1>8. "SUSPENDED" \in r.state[t] /\ ~z_is_thread_ready(r, t)
  BY <1>1, <1>3, ReadyFacts
<1>9. CoopOk(r)
  BY <1>1, <1>3, <1>6, <1>8 DEF CoopOk
<1>10. \A u : is_preempt(r, u) <=> is_preempt(s, u)
  BY <1>1, <1>3 DEF is_preempt
<1>11. ASSUME t # s.current, s.current = next_up(s) PROVE s.current = next_up(r)
  <2>1. CASE "QUEUED" \notin s.state[t]
    BY <2>1, <1>1, <1>3, <1>11 DEF next_up
  <2>2. CASE "QUEUED" \in s.state[t]
    <3>1. s.runq \in Seq(Threads) /\ IsIn(s.runq, t)
      BY <2>2, <1>0, KFields DEF Nodes
    <3>2. s.runq # <<>>
      BY <3>1 DEF IsIn
    <3>3. Head(s.runq) # t
      BY <3>2, <1>11 DEF next_up
    <3>4. r.runq = RemoveItem(s.runq, t)
      BY <2>2, <1>1, <1>3
    <3>5. r.runq # <<>> /\ Head(r.runq) = Head(s.runq)
      BY <3>1, <3>2, <3>3, <3>4, RemoveHead
    <3> QED
      BY <3>2, <3>5, <1>11 DEF next_up
  <2> QED
    BY <2>1, <2>2
<1> QED
  BY <1>1, <1>3, <1>4, <1>6, <1>7, <1>8, <1>9, <1>10, <1>11 DEF r, a

\* The section of k_thread_suspend() in a thread.
LEMMA SuspendedOn ==
  ASSUME IInv, NEW t \in Threads, ~in_isr, Suspended(t), firing' = firing
  PROVE  /\ CpuOk(k', Excused \ {t}, in_isr, overdue') /\ overdue' \in BOOLEAN
<1> DEFINE r == update_cache(Stopped(k, t, "SUSPENDED"), t = k.current)
<1>1. IF t = current THEN Rescheduled(r) ELSE GoesOn(r, FALSE)
  BY DEF Suspended, Stopped, current
<1>2. Inv(k, Excused, {}) /\ CurOk(k)
  BY IInvParts
<1>3. /\ Inv(r, Excused \ {t}, {}) /\ Fresh(r) /\ CurOk(r) /\ CoopOk(r)
      /\ r.current = k.current /\ r.linked = k.linked
      /\ "SUSPENDED" \in r.state[t]
      /\ \A u \in Threads \ {t} : r.state[u] = k.state[u]
      /\ \A u : is_preempt(r, u) <=> is_preempt(k, u)
      /\ t # k.current /\ k.current = next_up(k) => k.current = next_up(r)
  BY <1>2, SuspendedFacts
<1> HIDE DEF r
<1>4. /\ CpuOk(k', Excused \ {t}, in_isr, overdue') /\ overdue' \in BOOLEAN
      /\ k'.state = r.state /\ k'.linked = r.linked
  <2>1. CASE t = current
    <3>1. Rescheduled(r) /\ r.current = current
      BY <2>1, <1>1, <1>3 DEF current
    <3> QED
      BY <3>1, <1>3, IInvParts, AfterReschedule
  <2>2. CASE t # current
    <3>1. GoesOn(r, FALSE) /\ r.current = current
      BY <2>2, <1>1, <1>3 DEF current
    <3>2. r.current # idle => z_is_thread_ready(r, r.current)
      <4>1. ASSUME current # idle PROVE z_is_thread_ready(r, current)
        <5>1. z_is_thread_ready(k, current) /\ current \in Threads
          BY <4>1, IInvParts
        <5> QED
          BY <5>1, <2>2, <1>3, ReadyFacts
      <4> QED
        BY <4>1, <3>1
    <3>3. is_preempt(r, r.current) /\ ~overdue => r.current = next_up(r)
      BY <3>1, <2>2, <1>3, IInvParts
    <3> QED
      BY <3>1, <3>2, <3>3, <1>3, AfterGoingOn
  <2> QED
    BY <2>1, <2>2
<1> QED
  BY <1>4

\* k_thread_suspend() of a thread without a timeout.
LEMMA SuspendStep ==
  ASSUME IInv, NEW t \in Threads, Suspend(t)
  PROVE  IInv'
<1>1. /\ ~in_isr /\ Suspended(t)
      /\ in_isr' = in_isr /\ firing' = firing /\ op' = op /\ adrift' = adrift
  BY DEF Suspend, InThread
<1>2. /\ CpuOk(k', Excused \ {t}, in_isr, overdue') /\ overdue' \in BOOLEAN
  BY <1>1, SuspendedOn
<1>3. Excused \ {t} \subseteq Excused'
  BY <1>1, ExcusedSame
<1> QED
  BY <1>1, <1>2, <1>3, IInvParts, Concluded

\* The second section of k_thread_suspend().
LEMMA SuspendEndStep ==
  ASSUME IInv, SuspendEnd
  PROVE  IInv'
<1>1. /\ ~in_isr /\ current \in Threads /\ op[current] \in Ops /\ op[current] # NONE
      /\ op' = [op EXCEPT ![current] = NONE]
      /\ in_isr' = in_isr /\ firing' = firing /\ adrift' = adrift
  BY IInvParts DEF SuspendEnd, At, Done
<1>2. PICK t \in Threads : t = op[current].on
  BY <1>1 DEF Ops
<1>3. Suspended(t)
  BY <1>2 DEF SuspendEnd
<1>4. /\ CpuOk(k', Excused \ {t}, in_isr, overdue') /\ overdue' \in BOOLEAN
  BY <1>1, <1>3, SuspendedOn
<1>5. op' \in [Threads -> Ops \cup {NONE}] /\ Excused \ {t} \subseteq Excused'
  BY <1>1, <1>2, ExcusedEnds
<1> QED
  BY <1>1, <1>4, <1>5, IInvParts, Concluded

\* k_thread_suspend() in an interrupt.
LEMMA IsrSuspendStep ==
  ASSUME IInv, NEW t \in Threads, IsrSuspend(t)
  PROVE  IInv'
<1> DEFINE m == z_abort_thread_timeout(k, t)
           r == update_cache(Stopped(m, t, "SUSPENDED"), t = m.current)
<1>1. m.current = current /\ m.state = k.state
  BY IInvParts DEF z_abort_thread_timeout, K
<1>2. /\ in_isr /\ GoesOn(r, FALSE)
      /\ in_isr' = in_isr /\ firing' = firing /\ op' = op /\ adrift' = adrift
  BY <1>1 DEF IsrSuspend, Stopped
<1>3. /\ k \in K /\ Inv(k, Excused, {}) /\ CurOk(k)
  BY IInvParts
<1>4. Inv(m, Excused \cup {t}, {})
  BY <1>3, InvUnlink
<1>5. Eases(m, k, t) /\ ~m.linked[t]
  BY <1>3, EasesUnlink
<1>6. CurOk(m)
  <2>1. m \in K
    BY <1>4 DEF Inv
  <2> QED
    BY <2>1, <1>3, <1>5, EasesFacts
<1> HIDE DEF m
<1>7. /\ Inv(r, (Excused \cup {t}) \ {t}, {}) /\ Fresh(r) /\ CurOk(r) /\ CoopOk(r)
      /\ r.current = m.current /\ r.linked = m.linked
      /\ "SUSPENDED" \in r.state[t]
      /\ \A u \in Threads \ {t} : r.state[u] = m.state[u]
      /\ \A u : is_preempt(r, u) <=> is_preempt(m, u)
      /\ t # m.current /\ m.current = next_up(m) => m.current = next_up(r)
  BY <1>4, <1>6, SuspendedFacts
<1> HIDE DEF r
<1>8. /\ CpuOk(k', (Excused \cup {t}) \ {t}, in_isr, overdue') /\ overdue' \in BOOLEAN
      /\ k'.state = r.state /\ k'.linked = r.linked
  BY <1>1, <1>2, <1>7, AfterGoingOn
<1>9. (Excused \cup {t}) \ {t} \subseteq Excused'
  BY <1>2, ExcusedSame
<1> QED
  BY <1>2, <1>8, <1>9, IInvParts, Concluded

\* The current thread is taken off the run queue, and another one is chosen.
LEMMA LeavesFacts ==
  ASSUME IInv, ~in_isr, current \in Threads
  PROVE  LET r == update_cache(dequeue_thread(k, current), TRUE) IN
         /\ Inv(r, Excused \cup {current}, {})
         /\ r.cache = next_up(r) /\ r.current = current
         /\ r.prio = k.prio /\ r.pended_on = k.pended_on /\ r.linked = k.linked
         /\ \A u \in Threads \ {current} : r.state[u] = k.state[u]
         /\ r.state[current] = k.state[current] \ {"QUEUED"}
<1> DEFINE a == dequeue_thread(k, current)
           r == update_cache(a, TRUE)
<1>0. k \in K /\ Nodes(k) /\ Inv(k, Excused, {}) /\ k.state \in [Threads -> SUBSET Flags]
  BY IInvParts, KFields
<1>1. Inv(a, Excused \cup {current}, {})
  BY <1>0, InvDequeue
<1>2. a.state = [k.state EXCEPT ![current] = @ \ {"QUEUED"}]
  BY <1>0, DequeueFields
<1>3. /\ a.current = k.current /\ a.prio = k.prio /\ a.pended_on = k.pended_on
      /\ a.linked = k.linked /\ a \in K
  BY <1>0, DequeueFields
<1> HIDE DEF a
<1>4. Inv(r, Excused \cup {current}, {})
  BY <1>1, InvCache
<1>5. /\ r.cache = IF should_preempt(a, TRUE) THEN next_up(a) ELSE a.current
      /\ r.current = a.current /\ r.state = a.state /\ r.prio = a.prio
      /\ r.pended_on = a.pended_on /\ r.runq = a.runq /\ r.linked = a.linked
  BY <1>3, CacheFields
<1> HIDE DEF r
<1>6. r.cache = next_up(r)
  BY <1>5 DEF should_preempt, next_up
<1>7. /\ \A u \in Threads \ {current} : r.state[u] = k.state[u]
      /\ r.state[current] = k.state[current] \ {"QUEUED"}
  BY <1>0, <1>2, <1>5
<1> QED
  BY <1>3, <1>4, <1>5, <1>6, <1>7 DEF r, a, current

\* k_sleep()
LEMMA SleepStep ==
  ASSUME IInv, Sleep
  PROVE  IInv'
<1>1. current \in Threads /\ ~in_isr
  BY IInvParts DEF Sleep, InThread
<1> DEFINE t == current
           a == update_cache(dequeue_thread(k, t), TRUE)
           r == [a EXCEPT !.linked[t] = TRUE, !.state[t] = @ \cup {"SUSPENDED"}]
<1>2. /\ Rescheduled(r)
      /\ in_isr' = in_isr /\ firing' = firing /\ op' = op /\ adrift' = adrift
  BY DEF Sleep
<1>3. /\ Inv(a, Excused \cup {t}, {})
      /\ a.cache = next_up(a) /\ a.current = t
      /\ a.prio = k.prio /\ a.pended_on = k.pended_on /\ a.linked = k.linked
      /\ \A u \in Threads \ {t} : a.state[u] = k.state[u]
      /\ a.state[t] = k.state[t] \ {"QUEUED"}
  BY <1>1, LeavesFacts
<1>4. z_is_thread_ready(k, t) /\ "SUSPENDED" \notin k.state[t] /\ "DEAD" \notin k.state[t]
  BY <1>1, IInvParts, ReadyFacts, SchedAssumption
<1> HIDE DEF a
<1>5. a \in K /\ a.state \in [Threads -> SUBSET Flags] /\ a.linked \in [Threads -> BOOLEAN]
  BY <1>3, KFields DEF Inv
<1>6. /\ r.state = [a.state EXCEPT ![t] = @ \cup {"SUSPENDED"}]
      /\ r.linked = [a.linked EXCEPT ![t] = TRUE]
      /\ r.runq = a.runq /\ r.waitq = a.waitq /\ r.prio = a.prio /\ r.pended_on = a.pended_on
      /\ r.current = a.current /\ r.cache = a.cache
  BY <1>5 DEF K
<1>7. r \in K
  <2>1. /\ [a.state EXCEPT ![t] = @ \cup {"SUSPENDED"}] \in [Threads -> SUBSET Flags]
        /\ [a.linked EXCEPT ![t] = TRUE] \in [Threads -> BOOLEAN]
    BY <1>5 DEF Flags
  <2> QED
    BY <1>5, <2>1 DEF K
<1> HIDE DEF r, t
<1>8. /\ r.state[t] = (k.state[t] \ {"QUEUED"}) \cup {"SUSPENDED"}
      /\ \A u \in Threads \ {t} : r.state[u] = k.state[u] /\ r.linked[u] = k.linked[u]
  BY <1>1, <1>3, <1>5, <1>6 DEF t
<1>9. Others(r, a, t)
  BY <1>3, <1>6, <1>8 DEF Others
<1>10. /\ "QUEUED" \in r.state[t] <=> "QUEUED" \in a.state[t]
       /\ "PENDING" \in r.state[t] <=> "PENDING" \in a.state[t]
       /\ "QUEUED" \notin r.state[t] /\ "DEAD" \notin r.state[t]
  BY <1>3, <1>4, <1>8
<1>11. t \in Threads
  BY <1>1 DEF t
<1>12. Inv(r, (Excused \cup {t}) \cup {t}, {})
  BY <1>3, <1>6, <1>7, <1>9, <1>10, <1>11, InvFlags
<1>13. ~z_is_thread_ready(r, t)
  BY <1>8, <1>11, ReadyFacts
<1>14. Inv(r, ((Excused \cup {t}) \cup {t}) \ {t}, {})
  BY <1>11, <1>12, <1>13, InvNotReady
<1>15. Fresh(r) /\ CoopOk(r) /\ r.current = current
  BY <1>3, <1>6, <1>13 DEF Fresh, CoopOk, next_up, t
<1>16. /\ CpuOk(k', ((Excused \cup {t}) \cup {t}) \ {t}, in_isr, overdue') /\ overdue' \in BOOLEAN
       /\ k'.state = r.state /\ k'.linked = r.linked
  BY <1>1, <1>2, <1>14, <1>15, IInvParts, AfterReschedule
<1>17. ((Excused \cup {t}) \cup {t}) \ {t} \subseteq Excused'
  BY <1>2, ExcusedSame
<1> QED
  BY <1>2, <1>16, <1>17, IInvParts, Concluded

\* A thread that is on no queue is put on a wait queue.
Pended(s, t, q, timed) ==
  [[s EXCEPT !.state[t] = @ \cup {"PENDING"}, !.pended_on[t] = q,
             !.waitq[q] = Inserted(@, s.prio, t)] EXCEPT !.linked[t] = timed]

\* It waits there, and nowhere else.
LEMMA PendFacts ==
  ASSUME NEW X, NEW s, Inv(s, X, {}), NEW t \in Threads, NEW q \in Queues, NEW timed \in BOOLEAN,
         "QUEUED" \notin s.state[t], "DEAD" \notin s.state[t], s.pended_on[t] = NONE,
         q \in Threads => "DEAD" \notin s.state[q]
  PROVE  LET r == Pended(s, t, q, timed) IN
         /\ Inv(r, X \ {t}, {})
         /\ r.current = s.current /\ r.cache = s.cache /\ next_up(r) = next_up(s)
         /\ \A u \in Threads \ {t} : r.state[u] = s.state[u] /\ r.linked[u] = s.linked[u]
         /\ ~z_is_thread_ready(r, t)
<1> DEFINE w == Inserted(s.waitq[q], s.prio, t)
           r == [[s EXCEPT !.state[t] = @ \cup {"PENDING"}, !.pended_on[t] = q,
                           !.waitq[q] = w] EXCEPT !.linked[t] = timed]
<1>1. /\ s \in K /\ Nodes(s)
      /\ s.state \in [Threads -> SUBSET Flags] /\ s.linked \in [Threads -> BOOLEAN]
      /\ s.pended_on \in [Threads -> Queues \cup {NONE}]
      /\ s.waitq \in [Queues -> Seq(Threads)] /\ s.prio \in [Threads -> Int]
  BY KFields DEF Inv
<1>2. /\ w \in Seq(Threads)
      /\ \A y : IsIn(w, y) <=> IsIn(s.waitq[q], y) \/ y = t
      /\ \A y : Once(s.waitq[q], y) /\ (y # t \/ ~IsIn(s.waitq[q], t)) => Once(w, y)
  <2>1. s.waitq[q] \in Seq(Threads) /\ s.prio \in [Threads -> Int]
    BY <1>1
  <2>2. w \in Seq(Threads)
    BY <2>1, InsertedFacts
  <2>3. \A y : IsIn(w, y) <=> IsIn(s.waitq[q], y) \/ y = t
    BY <2>1, InsertedFacts
  <2>4. \A y : Once(s.waitq[q], y) /\ (y # t \/ ~IsIn(s.waitq[q], t)) => Once(w, y)
    BY <2>1, InsertedFacts
  <2> QED
    BY <2>2, <2>3, <2>4
<1> HIDE DEF w
<1>3. /\ r.state = [s.state EXCEPT ![t] = @ \cup {"PENDING"}]
      /\ r.linked = [s.linked EXCEPT ![t] = timed]
      /\ r.pended_on = [s.pended_on EXCEPT ![t] = q]
      /\ r.waitq = [s.waitq EXCEPT ![q] = w]
      /\ r.runq = s.runq /\ r.prio = s.prio /\ r.current = s.current /\ r.cache = s.cache
  BY <1>1 DEF K
<1>4. r \in K
  <2>1. /\ [s.state EXCEPT ![t] = @ \cup {"PENDING"}] \in [Threads -> SUBSET Flags]
        /\ [s.linked EXCEPT ![t] = timed] \in [Threads -> BOOLEAN]
    BY <1>1 DEF Flags
  <2>2. /\ [s.pended_on EXCEPT ![t] = q] \in [Threads -> Queues \cup {NONE}]
        /\ [s.waitq EXCEPT ![q] = w] \in [Queues -> Seq(Threads)]
    BY <1>1, <1>2
  <2> QED
    BY <1>1, <2>1, <2>2 DEF K
<1> HIDE DEF r
<1>5. /\ r.state[t] = s.state[t] \cup {"PENDING"} /\ r.pended_on[t] = q
      /\ \A u \in Threads \ {t} : r.state[u] = s.state[u]
      /\ \A u \in Threads \ {t} : r.linked[u] = s.linked[u]
      /\ \A u \in Threads \ {t} : r.pended_on[u] = s.pended_on[u]
  BY <1>1, <1>3
<1>6. r.waitq[q] = w /\ \A x \in Queues \ {q} : r.waitq[x] = s.waitq[x]
  BY <1>1, <1>3
<1>7. q # NONE /\ \A u \in Threads : u # NONE
  BY SchedAssumption DEF Queues
<1>8. /\ ~z_is_thread_ready(r, t)
      /\ \A u \in Threads \ {t} : z_is_thread_ready(r, u) <=> z_is_thread_ready(s, u)
  BY <1>5, ReadyFacts
<1>9. Nodes(r)
  <2>1. ASSUME NEW u \in Threads
        PROVE  /\ IsIn(r.runq, u) <=> "QUEUED" \in r.state[u]
               /\ Once(r.runq, u)
               /\ "PENDING" \in r.state[u] <=> r.pended_on[u] # NONE
               /\ "QUEUED" \in r.state[u] => z_is_thread_ready(r, u)
    <3>1. CASE u = t
      BY <3>1, <1>1, <1>3, <1>5, <1>7 DEF Nodes
    <3>2. CASE u # t
      BY <3>2, <1>1, <1>3, <1>5, <1>8 DEF Nodes
    <3> QED
      BY <3>1, <3>2
  <2>2. ASSUME NEW u \in Threads, NEW x \in Queues
        PROVE  (IsIn(r.waitq[x], u) <=> r.pended_on[u] = x) /\ Once(r.waitq[x], u)
    <3>1. (IsIn(s.waitq[x], u) <=> s.pended_on[u] = x) /\ Once(s.waitq[x], u)
      BY <1>1 DEF Nodes
    <3>2. ~IsIn(s.waitq[x], t)
      BY <1>1, <1>7, SchedAssumption DEF Nodes, Queues
    <3>3. CASE x = q
      BY <3>1, <3>2, <3>3, <1>2, <1>5, <1>6
    <3>4. CASE x # q
      BY <3>1, <3>2, <3>4, <1>5, <1>6
    <3> QED
      BY <3>3, <3>4
  <2>3. Sorted(r.runq, r.prio)
    BY <1>1, <1>3 DEF Nodes
  <2> QED
    BY <2>1, <2>2, <2>3 DEF Nodes
<1>10. \A u \in Threads : z_is_thread_ready(r, u) => "QUEUED" \in r.state[u] \/ u \in X \ {t}
  BY <1>5, <1>8 DEF Inv
<1>11. ASSUME NEW u \in Threads, "DEAD" \in r.state[u]
       PROVE  /\ ~r.linked[u] /\ r.pended_on[u] = NONE
              /\ \A v \in Threads : r.pended_on[v] # u
  <2>1. u # t /\ "DEAD" \in s.state[u]
    BY <1>5, <1>11
  <2>2. ~s.linked[u] /\ s.pended_on[u] = NONE /\ \A v \in Threads : s.pended_on[v] # u
    BY <2>1 DEF Inv
  <2>3. u # q
    BY <2>1
  <2> QED
    BY <2>1, <2>2, <2>3, <1>5
<1>12. Inv(r, X \ {t}, {})
  BY <1>4, <1>9, <1>10, <1>11 DEF Inv
<1>13. next_up(r) = next_up(s)
  BY <1>3 DEF next_up
<1>14. r = Pended(s, t, q, timed)
  BY DEF r, w, Pended
<1>15. /\ r.current = s.current /\ r.cache = s.cache
       /\ \A u \in Threads \ {t} : r.state[u] = s.state[u] /\ r.linked[u] = s.linked[u]
       /\ ~z_is_thread_ready(r, t)
  BY <1>3, <1>5, <1>8
<1> QED
  BY <1>12, <1>13, <1>14, <1>15

\* z_pend_curr(), and the part of k_thread_join() that waits.
LEMMA PendCurrStep ==
  ASSUME IInv, NEW q \in Queues, q \in Threads => "DEAD" \notin k.state[q],
         NEW timed \in BOOLEAN, PendCurr(q, timed)
  PROVE  IInv'
<1> DEFINE t == current
           a == update_cache(dequeue_thread(k, t), TRUE)
           r == Pended(a, t, q, timed)
<1>1. t \in Threads /\ ~in_isr
  BY IInvParts DEF PendCurr, InThread
<1>2. /\ Inv(a, Excused \cup {t}, {})
      /\ a.cache = next_up(a) /\ a.current = t
      /\ a.prio = k.prio /\ a.pended_on = k.pended_on /\ a.linked = k.linked
      /\ \A u \in Threads \ {t} : a.state[u] = k.state[u]
      /\ a.state[t] = k.state[t] \ {"QUEUED"}
  BY <1>1, LeavesFacts
<1>3. Rescheduled(r) /\ in_isr' = in_isr /\ firing' = firing /\ op' = op /\ adrift' = adrift
  BY <1>2 DEF PendCurr, add_to_waitq_locked, current, Pended
<1>4. z_is_thread_ready(k, t)
  BY <1>1, IInvParts, SchedAssumption
<1>5. /\ "PENDING" \notin k.state[t] /\ "DEAD" \notin k.state[t] /\ "SUSPENDED" \notin k.state[t]
  BY <1>1, <1>4, ReadyFacts
<1>6. k.pended_on[t] = NONE
  BY <1>1, <1>5, IInvParts DEF Nodes
<1> HIDE DEF a, t
<1>7. /\ "QUEUED" \notin a.state[t] /\ "DEAD" \notin a.state[t] /\ a.pended_on[t] = NONE
      /\ q \in Threads => "DEAD" \notin a.state[q]
  BY <1>1, <1>2, <1>5, <1>6
<1>8. /\ Inv(r, (Excused \cup {t}) \ {t}, {})
      /\ r.current = a.current /\ r.cache = a.cache /\ next_up(r) = next_up(a)
      /\ \A u \in Threads \ {t} : r.state[u] = a.state[u] /\ r.linked[u] = a.linked[u]
      /\ ~z_is_thread_ready(r, t)
  <2> DEFINE X == Excused \cup {t}
  <2>1. t \in Threads /\ Inv(a, X, {})
    BY <1>1, <1>2
  <2> HIDE DEF X
  <2>2. /\ Inv(r, X \ {t}, {})
        /\ r.current = a.current /\ r.cache = a.cache /\ next_up(r) = next_up(a)
        /\ \A u \in Threads \ {t} : r.state[u] = a.state[u] /\ r.linked[u] = a.linked[u]
        /\ ~z_is_thread_ready(r, t)
    BY <2>1, <1>7, PendFacts
  <2> HIDE DEF r
  <2> QED
    BY <2>2 DEF X
<1> HIDE DEF r
<1>9. Fresh(r) /\ CoopOk(r) /\ r.current = current
  BY <1>2, <1>8 DEF Fresh, CoopOk, t
<1>10. /\ CpuOk(k', (Excused \cup {t}) \ {t}, in_isr, overdue') /\ overdue' \in BOOLEAN
       /\ k'.state = r.state /\ k'.linked = r.linked
  BY <1>1, <1>3, <1>8, <1>9, IInvParts, AfterReschedule
<1>11. (Excused \cup {t}) \ {t} \subseteq Excused'
  BY <1>3, ExcusedSame
<1> QED
  BY <1>3, <1>10, <1>11, IInvParts, Concluded

\* k_thread_join()
LEMMA JoinStep ==
  ASSUME IInv, NEW t \in Threads, NEW timed \in JoinTimed, Join(t, timed)
  PROVE  IInv'
<1>1. t \in Queues /\ timed \in BOOLEAN /\ "DEAD" \notin k.state[t] /\ PendCurr(t, timed)
  BY SchedAssumption DEF Join, Live, Queues
<1> QED
  BY <1>1, PendCurrStep

\* k_thread_abort(): what the thread leaves undone is noted.
LEMMA AbortStep ==
  ASSUME IInv, NEW t \in Threads, Abort(t)
  PROVE  IInv'
<1> DEFINE r == end_thread(k, t)
<1>1. /\ IF t = current THEN Rescheduled(r) ELSE GoesOn(r, TRUE)
      /\ op' = [op EXCEPT ![t] = NONE]
      /\ adrift' = (adrift \ {t}) \cup {u \in Threads : op[t] # NONE /\ op[t].on = u}
      /\ in_isr' = in_isr /\ firing' = firing
  BY DEF Abort
<1>2. /\ Inv(r, Excused, {})
      /\ Fresh(r)
      /\ r.current = k.current /\ r.prio = k.prio /\ r.locked = k.locked
      /\ "DEAD" \in r.state[t]
      /\ \A u \in Threads : r.linked[u] => k.linked[u]
      /\ \A u \in Threads \ {t} :
           /\ "SUSPENDED" \in k.state[u] => "SUSPENDED" \in r.state[u]
           /\ k.pended_on[u] = NONE => /\ r.pended_on[u] = NONE
                                       /\ r.state[u] = k.state[u] /\ r.linked[u] = k.linked[u]
  BY IInvParts, EndThreadFacts
<1> HIDE DEF r
<1>3. ~z_is_thread_ready(r, t)
  BY <1>2, ReadyFacts
<1>4. Inv(r, Excused \ {t}, {})
  BY <1>2, <1>3, InvNotReady
<1>5. CurOk(r) /\ r.current = current
  <2>1. CASE t = current
    BY <2>1, <1>2 DEF CurOk, Inv, current
  <2>2. CASE t # current
    BY <2>2, <1>2, IInvParts DEF CurOk
  <2> QED
    BY <2>1, <2>2
<1>6. /\ CpuOk(k', Excused \ {t}, in_isr, overdue') /\ overdue' \in BOOLEAN
      /\ k'.state = r.state /\ k'.linked = r.linked
  <2>1. CASE t = current
    <3>1. CoopOk(r) /\ Rescheduled(r)
      BY <2>1, <1>1, <1>3, <1>5 DEF CoopOk
    <3> QED
      BY <3>1, <1>2, <1>4, <1>5, IInvParts, AfterReschedule
  <2>2. CASE t # current
    <3>1. GoesOn(r, TRUE)
      BY <2>2, <1>1
    <3>2. ~in_isr => (r.current # idle => z_is_thread_ready(r, r.current))
      <4>1. ASSUME ~in_isr, current # idle PROVE z_is_thread_ready(r, current)
        <5>1. z_is_thread_ready(k, current) /\ current \in Threads
          BY <4>1, IInvParts
        <5>2. k.pended_on[current] = NONE
          BY <4>1, IInvParts DEF CurOk
        <5>3. r.state[current] = k.state[current] /\ r.linked[current] = k.linked[current]
          BY <5>1, <5>2, <2>2, <1>2
        <5> QED
          BY <5>1, <5>3, ReadyFacts
      <4> QED
        BY <4>1, <1>5
    <3> QED
      BY <3>1, <3>2, <1>2, <1>4, <1>5, AfterGoingOn
  <2> QED
    BY <2>1, <2>2
<1>7. /\ op' \in [Threads -> Ops \cup {NONE}]
      /\ \A u \in Threads \ {t} : op'[u] = op[u]
  BY <1>1, IInvParts
<1>8. adrift' \subseteq Threads
  BY <1>1, IInvParts
<1>9. Excused \ {t} \subseteq Excused'
  <2> SUFFICES ASSUME NEW u \in Excused, u # t PROVE u \in Excused'
    OBVIOUS
  <2>1. CASE firing = u \/ u \in adrift
    BY <2>1, <1>1 DEF Excused
  <2>2. CASE \E c \in Threads : op[c] # NONE /\ op[c].at \in {"suspend", "mark", "ready"} /\ op[c].on = u
    <3>1. PICK c \in Threads : op[c] # NONE /\ op[c].at \in {"suspend", "mark", "ready"} /\ op[c].on = u
      BY <2>2
    <3>2. CASE c = t
      BY <3>1, <3>2, <1>1 DEF Excused
    <3>3. CASE c # t
      BY <3>1, <3>3, <1>7 DEF Excused
    <3> QED
      BY <3>2, <3>3
  <2> QED
    BY <2>1, <2>2 DEF Excused
<1> QED
  BY <1>1, <1>6, <1>7, <1>8, <1>9, IInvParts, Concluded

\* move_thread_to_end_of_prio_q()
LEMMA MovedFacts ==
  ASSUME NEW X, NEW s, Inv(s, X, {}), CurOk(s), s.current \in Threads,
         z_is_thread_ready(s, s.current)
  PROVE  LET r == MovedToEnd(s) IN
         /\ Inv(r, X, {}) /\ Fresh(r) /\ CurOk(r)
         /\ r.current = s.current /\ r.linked = s.linked
         /\ \A u : is_preempt(r, u) <=> is_preempt(s, u)
         /\ \A u \in Threads : "SUSPENDED" \in r.state[u] <=> "SUSPENDED" \in s.state[u]
<1> DEFINE t == s.current
           a == dequeue_thread(s, t)
           b == queue_thread(a, t)
           r == update_cache(b, TRUE)
<1>0. s \in K /\ Nodes(s) /\ s.state \in [Threads -> SUBSET Flags] /\ t \in Threads
  BY KFields DEF Inv
<1>1. Inv(a, X \cup {t}, {}) /\ "QUEUED" \notin a.state[t]
  BY InvDequeue
<1>2. a \in K /\ a.state = [s.state EXCEPT ![t] = @ \ {"QUEUED"}]
  BY <1>0, DequeueFields
<1>3. /\ a.current = s.current /\ a.prio = s.prio /\ a.locked = s.locked
      /\ a.pended_on = s.pended_on /\ a.linked = s.linked
  BY <1>0, DequeueFields
<1> HIDE DEF a
<1>4. /\ a.state[t] = s.state[t] \ {"QUEUED"}
      /\ \A u \in Threads \ {t} : a.state[u] = s.state[u]
  BY <1>0, <1>2
<1>5. z_is_thread_ready(a, t)
  BY <1>0, <1>3, <1>4, ReadyFacts
<1> HIDE DEF t
<1>6. Inv(b, (X \cup {t}) \ {t}, {})
  BY <1>0, <1>1, <1>5, InvQueue
<1>7. b \in K /\ b.state = [a.state EXCEPT ![t] = @ \cup {"QUEUED"}]
  BY <1>0, <1>2, QueueFields
<1>8. /\ b.current = a.current /\ b.prio = a.prio /\ b.locked = a.locked
      /\ b.pended_on = a.pended_on /\ b.linked = a.linked
  BY <1>0, <1>2, QueueFields
<1> HIDE DEF b
<1>9. a.state \in [Threads -> SUBSET Flags]
  BY <1>2, KFields
<1>10. \A u \in Threads : "SUSPENDED" \in b.state[u] <=> "SUSPENDED" \in s.state[u]
  BY <1>0, <1>4, <1>7, <1>9
<1>11. Inv(r, (X \cup {t}) \ {t}, {})
  BY <1>6, InvCache
<1>12. /\ r.current = b.current /\ r.state = b.state /\ r.prio = b.prio
       /\ r.locked = b.locked /\ r.pended_on = b.pended_on /\ r.linked = b.linked
  BY <1>7, CacheFields
<1>13. Fresh(r)
  BY <1>7, CacheChoice
<1> HIDE DEF r
<1>14. Inv(r, X, {})
  <2>1. (X \cup {t}) \ {t} \subseteq X
    OBVIOUS
  <2> QED
    BY <2>1, <1>11, InvMore
<1>15. CurOk(r)
  BY <1>3, <1>8, <1>12 DEF CurOk
<1>16. \A u : is_preempt(r, u) <=> is_preempt(s, u)
  BY <1>3, <1>8, <1>12 DEF is_preempt
<1>17. r.current = s.current /\ r.linked = s.linked
  BY <1>3, <1>8, <1>12
<1>18. \A u \in Threads : "SUSPENDED" \in r.state[u] <=> "SUSPENDED" \in s.state[u]
  BY <1>10, <1>12
<1>19. r = MovedToEnd(s)
  BY DEF MovedToEnd, r, b, a, t
<1> QED
  BY <1>13, <1>14, <1>15, <1>16, <1>17, <1>18, <1>19

\* k_yield()
LEMMA YieldStep ==
  ASSUME IInv, Yield
  PROVE  IInv'
<1> DEFINE r == MovedToEnd(k)
<1>1. /\ ~in_isr /\ current \in Threads /\ Rescheduled(r)
      /\ in_isr' = in_isr /\ firing' = firing /\ op' = op /\ adrift' = adrift
  BY IInvParts DEF Yield, InThread
<1>2. /\ Inv(k, Excused, {}) /\ CurOk(k) /\ k.current \in Threads /\ z_is_thread_ready(k, k.current)
  BY <1>1, IInvParts, SchedAssumption
<1>3. /\ Inv(r, Excused, {}) /\ Fresh(r)
      /\ r.current = k.current /\ r.linked = k.linked
      /\ \A u \in Threads : "SUSPENDED" \in r.state[u] <=> "SUSPENDED" \in k.state[u]
  BY <1>2, MovedFacts
<1> HIDE DEF r
<1>4. r.current = current
  BY <1>3 DEF current
<1>5. /\ CpuOk(k', Excused, in_isr, overdue') /\ overdue' \in BOOLEAN
      /\ k'.state = r.state /\ k'.linked = r.linked
  BY <1>1, <1>3, <1>4, IInvParts, AfterReschedule
<1>6. Excused' = Excused
  BY <1>1, ExcusedSame
<1> QED
  BY <1>1, <1>5, <1>6, IInvParts, Concluded

\* z_time_slice(): only a thread that may be preempted is moved.
LEMMA TimeSliceStep ==
  ASSUME IInv, TimeSlice
  PROVE  IInv'
<1> DEFINE r == MovedToEnd(k)
<1>1. /\ in_isr /\ current \in Threads /\ GoesOn(r, FALSE) /\ is_preempt(k, current)
      /\ ~z_is_thread_prevented_from_running(k, current)
      /\ in_isr' = in_isr /\ firing' = firing /\ op' = op /\ adrift' = adrift
  BY IInvParts DEF TimeSlice
<1>2. z_is_thread_ready(k, k.current)
  BY <1>1, IInvParts, SchedAssumption DEF CurOk, z_is_thread_ready
<1>3. /\ Inv(k, Excused, {}) /\ CurOk(k) /\ k.current \in Threads
  BY <1>1, IInvParts
<1>4. /\ Inv(r, Excused, {}) /\ Fresh(r) /\ CurOk(r)
      /\ r.current = k.current /\ r.linked = k.linked
      /\ \A u : is_preempt(r, u) <=> is_preempt(k, u)
      /\ \A u \in Threads : "SUSPENDED" \in r.state[u] <=> "SUSPENDED" \in k.state[u]
  BY <1>2, <1>3, MovedFacts
<1> HIDE DEF r
<1>5. r.current = current /\ CoopOk(r)
  BY <1>1, <1>4 DEF CoopOk, current
<1>6. /\ CpuOk(k', Excused, in_isr, overdue') /\ overdue' \in BOOLEAN
      /\ k'.state = r.state /\ k'.linked = r.linked
  BY <1>1, <1>4, <1>5, AfterGoingOn
<1>7. Excused' = Excused
  BY <1>1, ExcusedSame
<1> QED
  BY <1>1, <1>6, <1>7, IInvParts, Concluded

\* A thread that is not on the run queue gets another priority.
LEMMA InvPrio ==
  ASSUME NEW X, NEW D, NEW s, Inv(s, X, D), NEW t \in Threads, NEW p \in Int,
         "QUEUED" \notin s.state[t]
  PROVE  LET r == [s EXCEPT !.prio[t] = p] IN
         /\ Inv(r, X, D)
         /\ r.prio[t] = p /\ \A u \in Threads \ {t} : r.prio[u] = s.prio[u]
         /\ r.current = s.current /\ r.cache = s.cache /\ r.locked = s.locked
         /\ r.linked = s.linked /\ r.pended_on = s.pended_on /\ r.runq = s.runq
         /\ r.waitq = s.waitq /\ r.state = s.state
<1> DEFINE r == [s EXCEPT !.prio[t] = p]
<1>1. s \in K /\ Nodes(s) /\ s.prio \in [Threads -> Int] /\ s.runq \in Seq(Threads)
  BY KFields DEF Inv
<1>2. /\ r.prio = [s.prio EXCEPT ![t] = p]
      /\ r.current = s.current /\ r.cache = s.cache /\ r.locked = s.locked
      /\ r.linked = s.linked /\ r.pended_on = s.pended_on /\ r.runq = s.runq
      /\ r.waitq = s.waitq /\ r.state = s.state
  BY <1>1 DEF K
<1>3. r \in K
  <2>1. [s.prio EXCEPT ![t] = p] \in [Threads -> Int]
    BY <1>1
  <2> QED
    BY <1>1, <2>1 DEF K
<1> HIDE DEF r
<1>4. r.prio[t] = p /\ \A u \in Threads \ {t} : r.prio[u] = s.prio[u]
  BY <1>1, <1>2
<1>5. Sorted(r.runq, r.prio)
  <2>1. ~IsIn(s.runq, t)
    BY <1>1 DEF Nodes
  <2>2. \A i \in DOMAIN s.runq : s.runq[i] \in Threads /\ s.runq[i] # t
    BY <1>1, <2>1 DEF IsIn
  <2>3. \A i \in DOMAIN s.runq : r.prio[s.runq[i]] = s.prio[s.runq[i]]
    BY <1>4, <2>2
  <2> QED
    BY <1>1, <1>2, <2>3 DEF Sorted, Nodes
<1>6. \A u \in Threads : z_is_thread_ready(r, u) <=> z_is_thread_ready(s, u)
  BY <1>2, ReadyFacts
<1>7. Nodes(r)
  BY <1>1, <1>2, <1>5, <1>6 DEF Nodes
<1>8. Inv(r, X, D)
  BY <1>2, <1>3, <1>6, <1>7 DEF Inv
<1> QED
  BY <1>2, <1>4, <1>8 DEF r

\* z_set_prio(): a thread that is ready moves to its new place.
LEMMA SetPrioFacts ==
  ASSUME NEW X, NEW s, Inv(s, X, {}), Fresh(s), CurOk(s), NEW t \in Threads, NEW p \in Int,
         z_is_thread_ready(s, t) \/ t # s.current
  PROVE  LET r == z_set_prio(s, t, p) IN
         /\ Inv(r, X, {}) /\ Fresh(r) /\ CurOk(r)
         /\ r.current = s.current /\ r.linked = s.linked
         /\ \A u \in Threads : \A f \in Flags \ {"QUEUED"} : f \in r.state[u] <=> f \in s.state[u]
<1> DEFINE q == z_set_prio(s, t, p)
<1>0. s \in K /\ Nodes(s) /\ s.state \in [Threads -> SUBSET Flags]
  BY KFields DEF Inv
<1>1. CASE z_is_thread_ready(s, t)
  <2> DEFINE a == dequeue_thread(s, t)
             b == [a EXCEPT !.prio[t] = p]
             c == queue_thread(b, t)
             r == update_cache(c, TRUE)
  <2>1. Inv(a, X \cup {t}, {}) /\ "QUEUED" \notin a.state[t]
    BY InvDequeue
  <2>2. a \in K /\ a.state = [s.state EXCEPT ![t] = @ \ {"QUEUED"}]
    BY <1>0, DequeueFields
  <2>3. a.current = s.current /\ a.pended_on = s.pended_on /\ a.linked = s.linked
    BY <1>0, DequeueFields
  <2> HIDE DEF a
  <2>4. /\ Inv(b, X \cup {t}, {})
        /\ b.current = a.current /\ b.linked = a.linked /\ b.pended_on = a.pended_on
        /\ b.state = a.state
    BY <2>1, InvPrio
  <2> HIDE DEF b
  <2>5. /\ b.state[t] = s.state[t] \ {"QUEUED"}
        /\ \A u \in Threads \ {t} : b.state[u] = s.state[u]
    BY <1>0, <2>2, <2>4
  <2>6. z_is_thread_ready(b, t) /\ "QUEUED" \notin b.state[t]
    BY <1>1, <2>3, <2>4, <2>5, ReadyFacts
  <2>7. Inv(c, (X \cup {t}) \ {t}, {})
    BY <2>4, <2>6, InvQueue
  <2>8. b \in K /\ b.state \in [Threads -> SUBSET Flags]
    BY <2>4, KFields DEF Inv
  <2>9. c \in K /\ c.state = [b.state EXCEPT ![t] = @ \cup {"QUEUED"}]
    BY <2>8, QueueFields
  <2>10. c.current = b.current /\ c.pended_on = b.pended_on /\ c.linked = b.linked
    BY <2>8, QueueFields
  <2> HIDE DEF c
  <2>11. \A u \in Threads : \A f \in Flags \ {"QUEUED"} : f \in c.state[u] <=> f \in s.state[u]
    BY <2>5, <2>8, <2>9
  <2>12. Inv(r, (X \cup {t}) \ {t}, {}) /\ Fresh(r)
    BY <2>7, <2>9, InvCache, CacheChoice
  <2>13. /\ r.current = c.current /\ r.state = c.state /\ r.pended_on = c.pended_on
         /\ r.linked = c.linked
    BY <2>9, CacheFields
  <2> HIDE DEF r
  <2>14. (X \cup {t}) \ {t} \subseteq X
    OBVIOUS
  <2>15. Inv(r, X, {})
    BY <2>12, <2>14, InvMore
  <2>16. r.current = s.current /\ r.linked = s.linked /\ r.pended_on = s.pended_on
    BY <2>3, <2>4, <2>10, <2>13
  <2>17. CurOk(r)
    BY <2>16 DEF CurOk
  <2>18. \A u \in Threads : \A f \in Flags \ {"QUEUED"} : f \in r.state[u] <=> f \in s.state[u]
    BY <2>11, <2>13
  <2>19. q = r
    BY <1>1 DEF z_set_prio, r, c, b, a
  <2> QED
    BY <2>12, <2>15, <2>16, <2>17, <2>18, <2>19
<1>2. CASE ~z_is_thread_ready(s, t)
  <2> DEFINE r == [s EXCEPT !.prio[t] = p]
  <2>1. "QUEUED" \notin s.state[t]
    BY <1>0, <1>2 DEF Nodes
  <2>2. /\ Inv(r, X, {})
        /\ \A u \in Threads \ {t} : r.prio[u] = s.prio[u]
        /\ r.current = s.current /\ r.cache = s.cache /\ r.locked = s.locked
        /\ r.linked = s.linked /\ r.pended_on = s.pended_on /\ r.runq = s.runq
        /\ r.state = s.state
    BY <2>1, InvPrio
  <2> HIDE DEF r
  <2>3. next_up(r) = next_up(s) /\ CurOk(r)
    BY <2>2 DEF next_up, CurOk
  <2>4. ASSUME s.current # idle
        PROVE  /\ is_preempt(r, s.current) <=> is_preempt(s, s.current)
               /\ z_is_thread_ready(r, s.current) <=> z_is_thread_ready(s, s.current)
    <3>1. s.current \in Threads /\ s.current # t
      BY <2>4, <1>0, <1>2, KFields
    <3> QED
      BY <3>1, <2>2, ReadyFacts DEF is_preempt
  <2>5. Fresh(r)
    BY <2>2, <2>3, <2>4 DEF Fresh
  <2>6. q = r
    BY <1>2 DEF z_set_prio, r
  <2> QED
    BY <2>2, <2>3, <2>5, <2>6
<1> QED
  BY <1>1, <1>2

\* k_thread_priority_set()
LEMMA PrioritySetStep ==
  ASSUME IInv, NEW t \in Threads, NEW p \in Prios, PrioritySet(t, p)
  PROVE  IInv'
<1> DEFINE r == z_set_prio(k, t, p)
<1>1. /\ ~in_isr /\ current \in Threads /\ (Rescheduled(r) \/ GoesOn(r, TRUE))
      /\ in_isr' = in_isr /\ firing' = firing /\ op' = op /\ adrift' = adrift
  BY IInvParts DEF PrioritySet, InThread
<1>2. z_is_thread_ready(k, current) /\ k.current = current
  BY <1>1, IInvParts, SchedAssumption
<1>3. Inv(k, Excused, {}) /\ Fresh(k) /\ CurOk(k) /\ p \in Int
  BY IInvParts, SchedAssumption
<1>4. z_is_thread_ready(k, t) \/ t # k.current
  BY <1>2
<1>5. /\ Inv(r, Excused, {}) /\ Fresh(r) /\ CurOk(r)
      /\ r.current = k.current /\ r.linked = k.linked
      /\ \A u \in Threads : \A f \in Flags \ {"QUEUED"} : f \in r.state[u] <=> f \in k.state[u]
  BY <1>3, <1>4, SetPrioFacts
<1> HIDE DEF r
<1>6. r.current = current /\ z_is_thread_ready(r, current)
  BY <1>1, <1>2, <1>5, ReadyFacts DEF Flags
<1>7. /\ CpuOk(k', Excused, in_isr, overdue') /\ overdue' \in BOOLEAN
      /\ k'.state = r.state /\ k'.linked = r.linked
  <2>1. CASE Rescheduled(r)
    BY <2>1, <1>1, <1>5, <1>6, IInvParts, AfterReschedule
  <2>2. CASE GoesOn(r, TRUE)
    BY <2>2, <1>1, <1>5, <1>6, AfterGoingOn
  <2> QED
    BY <1>1, <2>1, <2>2
<1>8. Excused' = Excused
  BY <1>1, ExcusedSame
<1> QED
  BY <1>1, <1>7, <1>8, IInvParts, Concluded

\* The record of a thread that is created.
NewThread(s, t) ==
  [s EXCEPT !.state[t] = {"PRESTART"}, !.prio[t] = BasePrio[t], !.locked[t] = 0]

\* It stands nowhere yet.
LEMMA NewFacts ==
  ASSUME IInv, ~in_isr, NEW t \in Threads, "DEAD" \in k.state[t]
  PROVE  LET r == NewThread(k, t) IN
         /\ Inv(r, Excused \ {t}, {}) /\ Fresh(r) /\ CurOk(r) /\ (~overdue => CoopOk(r))
         /\ r.current = current /\ r.linked = k.linked /\ t # current
         /\ \A u \in Threads \ {t} : r.state[u] = k.state[u]
         /\ r.state[t] = {"PRESTART"}
         /\ current # idle => z_is_thread_ready(r, current)
         /\ is_preempt(r, current) /\ ~overdue => current = next_up(r)
<1> DEFINE a == [k EXCEPT !.prio[t] = BasePrio[t]]
           r == NewThread(k, t)
<1>0. k \in K /\ Nodes(k) /\ Inv(k, Excused, {}) /\ BasePrio[t] \in Int
  BY IInvParts, SchedAssumption
<1>1. ~z_is_thread_ready(k, t)
  BY ReadyFacts
<1>2. "QUEUED" \notin k.state[t]
  BY <1>0, <1>1 DEF Nodes
<1>3. k.pended_on[t] = NONE /\ "PENDING" \notin k.state[t]
  BY <1>0 DEF Inv, Nodes
<1>4. /\ Inv(a, Excused, {})
      /\ \A u \in Threads \ {t} : a.prio[u] = k.prio[u]
      /\ a.current = k.current /\ a.cache = k.cache /\ a.locked = k.locked
      /\ a.linked = k.linked /\ a.pended_on = k.pended_on /\ a.runq = k.runq
      /\ a.waitq = k.waitq /\ a.state = k.state
  BY <1>0, <1>2, InvPrio
<1>5. a.prio = [k.prio EXCEPT ![t] = BasePrio[t]]
  BY <1>0 DEF K
<1> HIDE DEF a
<1>6. /\ k.state \in [Threads -> SUBSET Flags] /\ k.locked \in [Threads -> Nat]
      /\ k.prio \in [Threads -> Int]
  BY <1>0, KFields
<1>7. /\ r.state = [k.state EXCEPT ![t] = {"PRESTART"}]
      /\ r.prio = [k.prio EXCEPT ![t] = BasePrio[t]]
      /\ r.locked = [k.locked EXCEPT ![t] = 0]
      /\ r.current = k.current /\ r.cache = k.cache
      /\ r.linked = k.linked /\ r.pended_on = k.pended_on /\ r.runq = k.runq
      /\ r.waitq = k.waitq
  BY <1>0 DEF K, NewThread
<1>8. r \in K
  <2>1. [k.state EXCEPT ![t] = {"PRESTART"}] \in [Threads -> SUBSET Flags]
    BY <1>6 DEF Flags
  <2>2. /\ [k.prio EXCEPT ![t] = BasePrio[t]] \in [Threads -> Int]
        /\ [k.locked EXCEPT ![t] = 0] \in [Threads -> Nat]
    BY <1>0, <1>6
  <2> QED
    BY <1>0, <2>1, <2>2 DEF K, NewThread
<1> HIDE DEF r
<1>9. r.state[t] = {"PRESTART"} /\ \A u \in Threads \ {t} : r.state[u] = k.state[u]
  BY <1>6, <1>7
<1>10. \A u \in Threads \ {t} : r.prio[u] = k.prio[u] /\ r.locked[u] = k.locked[u]
  BY <1>6, <1>7
<1>11. ~z_is_thread_ready(r, t)
  BY <1>9, ReadyFacts
<1>12. Others(r, a, t)
  BY <1>4, <1>7, <1>9 DEF Others
<1>13. /\ "QUEUED" \in r.state[t] <=> "QUEUED" \in a.state[t]
       /\ "PENDING" \in r.state[t] <=> "PENDING" \in a.state[t]
       /\ "QUEUED" \in r.state[t] => z_is_thread_ready(r, t)
       /\ "DEAD" \notin r.state[t]
  BY <1>2, <1>3, <1>4, <1>9
<1>14. Inv(r, Excused \cup {t}, {})
  BY <1>4, <1>5, <1>7, <1>8, <1>12, <1>13, InvFlags
<1>15. Inv(r, Excused \ {t}, {})
  <2>1. Inv(r, (Excused \cup {t}) \ {t}, {})
    BY <1>11, <1>14, InvNotReady
  <2>2. (Excused \cup {t}) \ {t} \subseteq Excused \ {t}
    OBVIOUS
  <2> QED
    BY <2>1, <2>2, InvMore
<1>16. t # current
  BY <1>1, IInvParts, SchedAssumption
<1>17. next_up(r) = next_up(k) /\ CurOk(r)
  BY <1>7, IInvParts DEF next_up, CurOk
<1>18. /\ is_preempt(r, current) <=> is_preempt(k, current)
       /\ current # idle => (z_is_thread_ready(r, current) <=> z_is_thread_ready(k, current))
  <2>1. CASE current = idle
    BY <2>1 DEF is_preempt
  <2>2. CASE current # idle
    <3>1. current \in Threads \ {t}
      BY <2>2, <1>16, IInvParts
    <3> QED
      BY <3>1, <1>7, <1>9, <1>10, ReadyFacts DEF is_preempt
  <2> QED
    BY <2>1, <2>2
<1>19. r.current = current
  BY <1>7 DEF current
<1>20. Fresh(r) /\ (~overdue => CoopOk(r))
  BY <1>7, <1>17, <1>18, <1>19, IInvParts DEF Fresh, CoopOk
<1>21. /\ current # idle => z_is_thread_ready(r, current)
       /\ is_preempt(r, current) /\ ~overdue => current = next_up(r)
  BY <1>17, <1>18, IInvParts
<1> QED
  BY <1>7, <1>9, <1>15, <1>16, <1>17, <1>19, <1>20, <1>21 DEF r

\* k_thread_create()
LEMMA CreateStep ==
  ASSUME IInv, NEW t \in Threads, NEW delay \in {"no_wait", "forever", "timed"}, Create(t, delay)
  PROVE  IInv'
<1> DEFINE r == NewThread(k, t)
<1>1. /\ ~in_isr /\ "DEAD" \in k.state[t]
      /\ in_isr' = in_isr /\ firing' = firing /\ op' = op /\ adrift' = adrift
  BY DEF Create, InThread
<1>2. /\ delay = "no_wait" => Rescheduled(z_sched_start(r, t))
      /\ delay = "forever" => GoesOn(r, FALSE)
      /\ delay = "timed" => GoesOn([r EXCEPT !.linked[t] = TRUE], FALSE)
  BY DEF Create, NewThread
<1>3. /\ Inv(r, Excused \ {t}, {}) /\ Fresh(r) /\ CurOk(r) /\ (~overdue => CoopOk(r))
      /\ r.current = current /\ r.linked = k.linked /\ t # current
      /\ \A u \in Threads \ {t} : r.state[u] = k.state[u]
      /\ r.state[t] = {"PRESTART"}
      /\ current # idle => z_is_thread_ready(r, current)
      /\ is_preempt(r, current) /\ ~overdue => current = next_up(r)
  BY <1>1, NewFacts
<1> HIDE DEF r
<1>4. Excused' = Excused
  BY <1>1, ExcusedSame
<1>7. CASE delay = "no_wait"
  <2> DEFINE m == Clear(r, t, {"PRESTART"})
  <2>1. Rescheduled(ready_thread(m, t))
    BY <1>2, <1>3, <1>7 DEF z_sched_start
  <2>2. Inv(m, (Excused \ {t}) \cup {t}, {})
    BY <1>3, InvClear
  <2>3. r \in K
    BY <1>3 DEF Inv
  <2>4. Eases(m, r, t)
    BY <2>3, EasesClear
  <2> HIDE DEF m
  <2>5. /\ CpuOk(k', ((Excused \ {t}) \cup {t}) \ {t}, in_isr, overdue') /\ overdue' \in BOOLEAN
        /\ \A u \in Threads \ {t} : k'.state[u] = r.state[u] /\ k'.linked[u] = r.linked[u]
        /\ \A f \in Flags \ {"QUEUED"} : f \in k'.state[t] <=> f \in m.state[t]
        /\ k'.linked[t] <=> m.linked[t]
    <3>1. /\ Inv(r, Excused \ {t}, {}) /\ Fresh(r) /\ CurOk(r) /\ (~overdue => CoopOk(r))
          /\ r.current = current /\ in_isr \in BOOLEAN
          /\ Rescheduled(ready_thread(m, t)) \/ (in_isr /\ GoesOn(ready_thread(m, t), FALSE))
      BY <1>3, <2>1, IInvParts
    <3> QED
      BY <3>1, <2>2, <2>4, ReadiedStep
  <2>6. ((Excused \ {t}) \cup {t}) \ {t} \subseteq Excused'
    BY <1>4
  <2> QED
    BY <1>1, <2>5, <2>6, IInvParts, Concluded
<1>8. CASE delay = "forever"
  <2>1. GoesOn(r, FALSE)
    BY <1>2, <1>8
  <2>2. /\ CpuOk(k', Excused \ {t}, in_isr, overdue') /\ overdue' \in BOOLEAN
        /\ k'.state = r.state /\ k'.linked = r.linked
    BY <1>3, <2>1, AfterGoingOn
  <2>4. Excused \ {t} \subseteq Excused'
    BY <1>4
  <2> QED
    BY <1>1, <2>2, <2>4, IInvParts, Concluded
<1>9. CASE delay = "timed"
  <2> DEFINE m == [r EXCEPT !.linked[t] = TRUE]
  <2>1. GoesOn(m, FALSE)
    BY <1>2, <1>9
  <2>2. r \in K /\ r.linked \in [Threads -> BOOLEAN]
    BY <1>3, KFields DEF Inv
  <2>3. /\ m \in K /\ m.linked = [r.linked EXCEPT ![t] = TRUE]
        /\ m.current = r.current /\ m.cache = r.cache /\ m.prio = r.prio
        /\ m.locked = r.locked /\ m.pended_on = r.pended_on /\ m.runq = r.runq
        /\ m.waitq = r.waitq /\ m.state = r.state
    BY <2>2, LinkFields
  <2> HIDE DEF m
  <2>4. \A u \in Threads \ {t} : m.linked[u] = r.linked[u]
    BY <2>2, <2>3
  <2>5. /\ Others(m, r, t) /\ "QUEUED" \notin m.state[t] /\ "DEAD" \notin m.state[t]
        /\ ~z_is_thread_ready(m, t)
    BY <1>3, <2>3, <2>4, ReadyFacts DEF Others
  <2>6. Inv(m, (Excused \ {t}) \cup {t}, {})
    BY <1>3, <2>3, <2>5, InvFlags
  <2>7. Inv(m, ((Excused \ {t}) \cup {t}) \ {t}, {})
    BY <2>5, <2>6, InvNotReady
  <2>8. next_up(m) = next_up(r) /\ \A u : is_preempt(m, u) <=> is_preempt(r, u)
    BY <2>3 DEF next_up, is_preempt
  <2>9. current # idle => (z_is_thread_ready(m, current) <=> z_is_thread_ready(r, current))
    <3> SUFFICES ASSUME current # idle
                 PROVE  z_is_thread_ready(m, current) <=> z_is_thread_ready(r, current)
      OBVIOUS
    <3>1. current \in Threads /\ current # t
      BY <1>3, IInvParts
    <3>2. m.linked[current] = r.linked[current] /\ m.state[current] = r.state[current]
      BY <2>3, <2>4, <3>1
    <3> QED
      BY <3>1, <3>2, ReadyFacts
  <2>10. CurOk(m) /\ m.current = current
    BY <1>3, <2>3, <2>4, IInvParts DEF CurOk
  <2>11. Fresh(m) /\ (~overdue => CoopOk(m))
    BY <1>3, <2>3, <2>8, <2>9 DEF Fresh, CoopOk
  <2>12. /\ m.current # idle => z_is_thread_ready(m, m.current)
         /\ is_preempt(m, m.current) /\ ~overdue => m.current = next_up(m)
    BY <1>3, <2>8, <2>9, <2>10
  <2>13. /\ CpuOk(k', ((Excused \ {t}) \cup {t}) \ {t}, in_isr, overdue') /\ overdue' \in BOOLEAN
         /\ k'.state = m.state /\ k'.linked = m.linked
    BY <2>1, <2>7, <2>10, <2>11, <2>12, AfterGoingOn
  <2>15. ((Excused \ {t}) \cup {t}) \ {t} \subseteq Excused'
    BY <1>4
  <2> QED
    BY <1>1, <2>13, <2>15, IInvParts, Concluded
<1> QED
  BY <1>7, <1>8, <1>9

(***************************************************************************)
(* The theorems                                                            *)
(***************************************************************************)
\* Only the main thread exists, and it runs.
LEMMA InitInv ==
  ASSUME Init
  PROVE  IInv
<1>1. /\ k.current = Main /\ k.cache = Main /\ k.runq = <<Main>>
      /\ k.state = [t \in Threads |-> IF t = Main THEN {"QUEUED"} ELSE {"DEAD"}]
      /\ k.prio = BasePrio /\ k.locked = [t \in Threads |-> 0]
      /\ k.pended_on = [t \in Threads |-> NONE]
      /\ k.waitq = [q \in Queues |-> <<>>]
      /\ k.linked = [t \in Threads |-> FALSE]
  BY DEF Init, Queues
<1>2. k \in K
  <2>1. k.state \in [Threads -> SUBSET Flags]
    BY <1>1 DEF Flags
  <2>2. /\ k.runq \in Seq(Threads) /\ k.prio \in [Threads -> Int]
        /\ k.locked \in [Threads -> Nat] /\ k.pended_on \in [Threads -> Queues \cup {NONE}]
        /\ k.waitq \in [Queues -> Seq(Threads)] /\ k.linked \in [Threads -> BOOLEAN]
        /\ k.current \in Threads \cup {idle} /\ k.cache \in Threads \cup {idle}
    BY <1>1, SchedAssumption
  <2>3. k = [current   |-> k.current, cache |-> k.cache, runq |-> k.runq, state |-> k.state,
             prio      |-> k.prio, locked |-> k.locked, pended_on |-> k.pended_on,
             waitq     |-> k.waitq, linked |-> k.linked]
    BY DEF Init
  <2> QED
    BY <2>1, <2>2, <2>3 DEF K
<1>3. \A t \in Threads : /\ k.state[t] = IF t = Main THEN {"QUEUED"} ELSE {"DEAD"}
                         /\ k.pended_on[t] = NONE /\ ~k.linked[t]
  BY <1>1
<1>4. \A t \in Threads : z_is_thread_ready(k, t) <=> t = Main
  BY <1>3, ReadyFacts
<1>5. Nodes(k)
  <2>1. DOMAIN k.runq = {1} /\ k.runq[1] = Main
    BY <1>1
  <2>2. Sorted(k.runq, k.prio)
    BY <2>1 DEF Sorted
  <2>3. \A t \in Threads : (IsIn(k.runq, t) <=> t = Main) /\ Once(k.runq, t)
    BY <2>1 DEF IsIn, Once
  <2>4. \A q \in Queues : k.waitq[q] = <<>>
    BY <1>1
  <2>5. \A t \in Threads, q \in Queues : ~IsIn(k.waitq[q], t) /\ Once(k.waitq[q], t)
    BY <2>4 DEF IsIn, Once
  <2>6. \A q \in Queues : q # NONE
    BY SchedAssumption DEF Queues
  <2> QED
    BY <1>3, <1>4, <2>2, <2>3, <2>5, <2>6 DEF Nodes
<1>6. Inv(k, Excused, {})
  <2>1. \A t \in Threads : z_is_thread_ready(k, t) => "QUEUED" \in k.state[t]
    BY <1>3, <1>4
  <2>2. \A t \in Threads : NONE # t
    BY SchedAssumption
  <2> QED
    BY <1>2, <1>3, <1>5, <2>1, <2>2 DEF Inv
<1>7. next_up(k) = Main /\ z_is_thread_ready(k, k.current)
  BY <1>1, <1>4, SchedAssumption DEF next_up
<1>8. CpuOk(k, Excused, in_isr, overdue)
  BY <1>1, <1>3, <1>6, <1>7, SchedAssumption DEF CpuOk, Fresh, CurOk, CoopOk
<1>9. RestOk
  BY DEF Init, RestOk
<1> QED
  BY <1>8, <1>9 DEF IInv

\* Every step keeps the invariant.
LEMMA NextStep ==
  ASSUME IInv, Next
  PROVE  IInv'
<1>1. ASSUME NEW t \in Threads, NEW delay \in {"no_wait", "forever", "timed"}, Create(t, delay)
      PROVE  IInv'
  BY <1>1, CreateStep
<1>2. ASSUME NEW t \in Threads, NEW timed \in JoinTimed, Join(t, timed)
      PROVE  IInv'
  BY <1>2, JoinStep
<1>3. ASSUME NEW t \in Threads, NEW prio \in Prios, PrioritySet(t, prio)
      PROVE  IInv'
  BY <1>3, PrioritySetStep
<1>4. ASSUME NEW t \in Threads,
             \/ Start(t) \/ SuspendStart(t) \/ Suspend(t) \/ IsrSuspend(t) \/ Resume(t)
             \/ WakeupStart(t) \/ IsrWakeup(t) \/ Abort(t) \/ Expire(t)
      PROVE  IInv'
  BY <1>4, StartStep, SuspendStartStep, SuspendStep, IsrSuspendStep, ResumeStep,
     WakeupStartStep, IsrWakeupStep, AbortStep, ExpireStep
<1>5. ASSUME NEW timed \in BOOLEAN, PendCurr(wait_q, timed)
      PROVE  IInv'
  BY <1>5, PendCurrStep, SchedAssumption DEF Queues
<1>6. ASSUME \/ Wake \/ Sleep \/ SuspendEnd \/ WakeupAbort \/ WakeupMark \/ WakeupEnd
             \/ SchedLock \/ SchedUnlock
             \/ IsrEnter \/ IsrExit \/ TimeSlice \/ Callback
      PROVE  IInv'
  BY <1>6, WakeStep, SleepStep, SuspendEndStep, WakeupAbortStep, WakeupMarkStep, WakeupEndStep,
     SchedLockStep, SchedUnlockStep, IsrEnterStep, IsrExitStep, TimeSliceStep, CallbackStep
<1>7. ASSUME Yield PROVE IInv'
  BY <1>7, YieldStep
<1> QED
  BY <1>1, <1>2, <1>3, <1>4, <1>5, <1>6, <1>7 DEF Next

\* A step that changes nothing.
LEMMA StutterStep ==
  ASSUME IInv, UNCHANGED vars
  PROVE  IInv'
<1>1. /\ k' = k /\ in_isr' = in_isr /\ firing' = firing /\ op' = op
      /\ adrift' = adrift /\ overdue' = overdue
  BY DEF vars
<1>2. Excused' = Excused
  BY <1>1, ExcusedSame
<1>3. CpuOk(k', Excused', in_isr', overdue')
  BY <1>1, <1>2 DEF IInv
<1> QED
  BY <1>1, <1>3, IInvParts DEF IInv, RestOk

\* The inductive invariant holds always.
THEOREM SchedulerInvariant == Spec => []IInv
<1>1. Init => IInv
  BY InitInv
<1>2. IInv /\ [Next]_vars => IInv'
  BY NextStep, StutterStep
<1> QED
  BY <1>1, <1>2, PTL DEF Spec

\* No thread is on two queues, and each is queued exactly when it is ready, but
\* for those that a callback, k_wakeup() or k_thread_suspend() is busy with or,
\* its caller aborted, has left behind; the run queue is sorted.
THEOREM NoThreadForgotten == Spec => []SchedInv
<1>1. IInv => SchedInv
  <2> SUFFICES ASSUME IInv PROVE SchedInv
    OBVIOUS
  <2>1. Nodes(k) /\ k \in K
    BY IInvParts
  <2>2. \A t \in Threads : z_is_thread_ready(k, t) => "QUEUED" \in k.state[t] \/ t \in Excused
    BY IInvParts DEF Inv
  <2>3. ASSUME NEW t \in Threads, "DEAD" \in k.state[t]
        PROVE  k.waitq[t] = <<>> /\ ~k.linked[t] /\ k.pended_on[t] = NONE
    <3>1. ~k.linked[t] /\ k.pended_on[t] = NONE /\ \A u \in Threads : k.pended_on[u] # t
      BY <2>3, IInvParts DEF Inv
    <3>2. t \in Queues /\ k.waitq[t] \in Seq(Threads)
      BY <2>1, KFields DEF Queues
    <3>3. \A u \in Threads : ~IsIn(k.waitq[t], u)
      BY <2>1, <3>1, <3>2 DEF Nodes
    <3>4. k.waitq[t] = <<>>
      BY <3>2, <3>3, TailFacts
    <3> QED
      BY <3>1, <3>4
  <2>4. ASSUME NEW t \in Threads
        PROVE  /\ IsIn(k.runq, t) <=> "QUEUED" \in k.state[t]
               /\ Once(k.runq, t)
               /\ "PENDING" \in k.state[t] <=> k.pended_on[t] # NONE
               /\ "QUEUED" \in k.state[t] => z_is_thread_ready(k, t)
    BY <2>1 DEF Nodes
  <2>5. ASSUME NEW t \in Threads, NEW q \in Threads \cup {wait_q}
        PROVE  (IsIn(k.waitq[q], t) <=> k.pended_on[t] = q) /\ Once(k.waitq[q], t)
    BY <2>1 DEF Nodes, Queues
  <2>6. Sorted(k.runq, k.prio)
    BY <2>1 DEF Nodes
  <2>7. ASSUME NEW t \in Threads, z_is_thread_ready(k, t)
        PROVE  \/ "QUEUED" \in k.state[t]
               \/ firing = t \/ t \in adrift
               \/ \E c \in Threads :
                    op[c] # NONE /\ op[c].at \in {"suspend", "mark", "ready"} /\ op[c].on = t
    BY <2>2, <2>7 DEF Excused
  <2> QED
    BY <2>3, <2>4, <2>5, <2>6, <2>7 DEF SchedInv
<1> QED
  BY <1>1, SchedulerInvariant, PTL

\* The cached choice of update_cache() is never stale.
THEOREM CacheStaysFresh == Spec => []CacheFresh
<1>1. IInv => CacheFresh
  BY IInvParts DEF CacheFresh, Fresh, current
<1> QED
  BY <1>1, SchedulerInvariant, PTL

\* The thread that runs is ready, and if it may be preempted it is the first of
\* the run queue.
THEOREM MostUrgentThreadRuns == Spec => []MostUrgentRuns
<1>1. IInv => MostUrgentRuns
  BY IInvParts DEF MostUrgentRuns
<1> QED
  BY <1>1, SchedulerInvariant, PTL
=============================================================================
