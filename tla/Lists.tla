------------------------------- MODULE Lists -------------------------------
(***************************************************************************)
(* The linked lists of the kernel (include/zephyr/sys/slist.h, dlist.h) as *)
(* sequences of the objects whose nodes they link.                         *)
(***************************************************************************)
EXTENDS Naturals, Sequences

Position(s, i) == CHOOSE k \in DOMAIN s : s[k] = i
IsIn(s, i) == \E k \in DOMAIN s : s[k] = i
Once(s, i) == \A j, k \in DOMAIN s : s[j] = i /\ s[k] = i => j = k
Before(s, v, w) == \E j, k \in DOMAIN s : j < k /\ s[j] = v /\ s[k] = w

\* sys_slist_find_and_remove(), sys_dlist_remove()
RemoveItem(s, i) ==
  LET k == Position(s, i)
  IN  SubSeq(s, 1, k - 1) \o SubSeq(s, k + 1, Len(s))

\* The list s without the objects of S: what the loops leave that take
\* several off, one after the other.
Without(s, S) ==
  LET rest[k \in 0..Len(s)] ==
        IF k = 0 THEN <<>>
        ELSE IF s[k] \in S THEN rest[k - 1] ELSE Append(rest[k - 1], s[k])
  IN  rest[Len(s)]

\* sys_slist_insert()
InsertAfter(s, i, new) ==
  LET k == Position(s, i)
  IN  SubSeq(s, 1, k) \o <<new>> \o SubSeq(s, k + 1, Len(s))

(***************************************************************************)
(* The lists of threads (CONFIG_SCHED_DUMB, CONFIG_WAITQ_DUMB): the run    *)
(* queue and the wait queues.  p is the threads' priorities, the smaller   *)
(* the more urgent.                                                        *)
(***************************************************************************)
Sorted(s, p) == \A j, k \in DOMAIN s : j < k => p[s[j]] <= p[s[k]]

\* Faulty variant: in front of the threads of the same priority.
PlaceFirst(s, p, t) ==
  CHOOSE k \in 1..(Len(s) + 1) :
    /\ \A j \in 1..(k - 1) : p[s[j]] < p[t]
    /\ k <= Len(s) => p[s[k]] >= p[t]

\* Where z_priq_dumb_add() puts thread t on the list s: before the first
\* thread that is less urgent.
PlaceOf(s, p, t) ==
  CHOOSE k \in 1..(Len(s) + 1) :
    /\ \A j \in 1..(k - 1) : p[s[j]] <= p[t]
    /\ k <= Len(s) => p[s[k]] > p[t]

Inserted(s, p, t) ==
  LET k == PlaceOf(s, p, t)
  IN  SubSeq(s, 1, k - 1) \o <<t>> \o SubSeq(s, k, Len(s))
=============================================================================
