------------------------------ MODULE MCSched ------------------------------
EXTENDS Sched, TLC
CONSTANTS t1, t2, t3
Prios3 == t1 :> 0 @@ t2 :> 0 @@ t3 :> -1
=============================================================================
