------------------------------- MODULE MCIpc -------------------------------
(* Instances of Ipc for TLC. *)
EXTENDS Ipc, TLC

CONSTANTS t1, t2, e1, e2

\* A thread and a more urgent one.
Prios == t1 :> 2 @@ t2 :> 1

\* One event, and both.
OneOrBoth == {[events |-> {e1}, all |-> FALSE], [events |-> {e1, e2}, all |-> TRUE]}
=============================================================================
