------------------------------ MODULE MCMutex ------------------------------
(* Instances of Mutex for TLC. *)
EXTENDS Mutex, TLC

CONSTANTS t1, t2, t3, t4

\* Three, or four, threads of different priorities.
Prios == t1 :> 1 @@ t2 :> 2 @@ t3 :> 3
Prios4 == Prios @@ t4 :> 4
=============================================================================
