------------------------------ MODULE Exchange ------------------------------
(***************************************************************************)
(* What message queues, queues, stacks and memory slabs promise: each item *)
(* that is accepted is delivered once, to one caller, in the order of the  *)
(* object, and past no item that is already there.                         *)
(***************************************************************************)
EXTENDS Integers, Sequences

CONSTANTS Threads, Items, NONE

VARIABLES
  kind,    \* the object
  chan,    \* the items accepted and not delivered, the oldest first
  given    \* the item delivered to a thread that has not returned, or NONE

Fresh(x) ==
  /\ \A k \in DOMAIN chan : chan[k] # x
  /\ \A t \in Threads : given[t] # x

Distinct(s) == \A j, k \in DOMAIN s : j # k => s[j] # s[k]

\* The items xs are accepted in this order; the first of them go straight to
\* the threads ts, which then do not pass others.
Accept(xs, ts) ==
  /\ \A k \in DOMAIN xs : Fresh(xs[k])
  /\ \A k \in DOMAIN ts : given[ts[k]] = NONE
  /\ Len(ts) <= Len(xs) /\ (ts # <<>> => chan = <<>>)
  /\ given' = [t \in Threads |->
                 IF \E k \in DOMAIN ts : ts[k] = t
                 THEN xs[CHOOSE k \in DOMAIN ts : ts[k] = t] ELSE given[t]]
  /\ chan' = chan \o SubSeq(xs, Len(ts) + 1, Len(xs))

\* A queue takes an item in at any place.
Insert(x, k) ==
  /\ kind = "queue"
  /\ Fresh(x)
  /\ chan' = SubSeq(chan, 1, k) \o <<x>> \o SubSeq(chan, k + 1, Len(chan))
  /\ UNCHANGED given

Rest == IF kind \in {"msgq", "queue"} THEN Tail(chan) ELSE SubSeq(chan, 1, Len(chan) - 1)

\* The item whose turn it is goes to a caller; a message queue may accept the
\* next at once.
Deliver ==
  /\ chan # <<>>
  /\ \/ chan' = Rest
     \/ kind = "msgq" /\ \E x \in Items : Fresh(x) /\ chan' = Append(Rest, x)
  /\ UNCHANGED given

Purge == kind = "msgq" /\ chan' = <<>> /\ UNCHANGED given

Collect(t) == given' = [given EXCEPT ![t] = NONE] /\ UNCHANGED chan

Lists2(S) == {<<>>} \cup {<<x>> : x \in S} \cup {s \in S \X S : Distinct(s)}

Next ==
  /\ \/ \E xs \in Lists2(Items), ts \in Lists2(Threads) : Accept(xs, ts)
     \/ \E x \in Items, k \in 0..Len(chan) : Insert(x, k)
     \/ Deliver \/ Purge
     \/ \E t \in Threads : Collect(t)
  /\ UNCHANGED kind

Spec == [][Next]_<<kind, chan, given>>
=============================================================================
