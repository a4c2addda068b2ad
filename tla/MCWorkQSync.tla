---------------------------- MODULE MCWorkQSync ----------------------------
(***************************************************************************)
(* Instance of WorkQSync for TLC: every call on a plain and a delayable    *)
(* item, from the beginning on one of three machines, and on any of them   *)
(* until the behaviour asks for what sets it apart:                        *)
(*   - one queue and one client, with other code between the dequeue of a  *)
(*     timeout and its callback;                                           *)
(*   - one queue and two clients, so that calls wait for each other;       *)
(*   - two queues and one client, without drains, so that an item moves    *)
(*     between queues.                                                     *)
(***************************************************************************)
EXTENDS WorkQSync

CONSTANTS q1, q2, c1, c2

Bounded ==
  /\ "STARTED" \in qflags[q2] =>
       /\ ~timeout_gap
       /\ cpc[c2] = "idle"
       /\ \A q \in Queues : qflags[q] \cap {"DRAIN", "PLUGGED"} = {}
  /\ cpc[c2] # "idle" => ~timeout_gap

MCNext == NextS /\ Bounded'
MCSpec == InitS /\ [][MCNext]_varsS /\ Fairness
=============================================================================
