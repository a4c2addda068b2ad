SPECIFICATION Spec
CONSTANTS
  t1 = t1  t2 = t2  t3 = t3
  Threads = {t1, t2, t3}
  Main = t1
  idle = idle
  wait_q = wait_q
  BasePrio <- Prios3
  Prios = {0}
  MaxLock = 1
  Callers = {t1}
  JoinTimed = {FALSE}
  NONE = NONE
INVARIANTS SchedInv CacheFresh MostUrgentRuns
