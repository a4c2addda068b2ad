--------------------------- MODULE TimeoutPromise ---------------------------
(***************************************************************************)
(* What the timeout queue promises the kernel (doc/kernel/services/timing/ *)
(* clocks.rst, "Timeout Queue"): a clock that only moves forward, and      *)
(* timeouts that expire in the order of their deadlines, each when the     *)
(* clock reads its deadline, unless they are aborted first.                *)
(***************************************************************************)
EXTENDS Integers

CONSTANTS Timeouts, NONE

VARIABLES clock, due   \* due[t]: the deadline of an active timeout, or NONE

Active == {t \in Timeouts : due[t] # NONE}

Init == clock = 0 /\ due = [t \in Timeouts |-> NONE]

Add(t) ==
  /\ due[t] = NONE
  /\ due'[t] # NONE /\ due'[t] > clock
  /\ due' = [due EXCEPT ![t] = due'[t]]
  /\ UNCHANGED clock

Abort(t) ==
  /\ due[t] # NONE
  /\ due' = [due EXCEPT ![t] = NONE]
  /\ UNCHANGED clock

Expire(t) ==
  /\ due[t] # NONE
  /\ \A u \in Active : due[t] <= due[u]
  /\ clock' = due[t] /\ clock' >= clock
  /\ due' = [due EXCEPT ![t] = NONE]

Advance ==
  /\ clock' > clock
  /\ \A u \in Active : clock' < due[u]
  /\ UNCHANGED due

Next == Advance \/ \E t \in Timeouts : Add(t) \/ Abort(t) \/ Expire(t)

Spec == Init /\ [][Next]_<<clock, due>>
=============================================================================
