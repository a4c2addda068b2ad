------------------------------- MODULE MCSem -------------------------------
(* Instances of Sem for TLC. *)
EXTENDS Sem, TLC

CONSTANTS t1, t2, t3

\* Two threads of equal priority and a less urgent one.
Prios == t1 :> 1 @@ t2 :> 1 @@ t3 :> 2
=============================================================================
