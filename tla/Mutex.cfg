SPECIFICATION FairSpec
CONSTANTS
  NONE = NONE
  t1 = t1
  t2 = t2
  t3 = t3
  t4 = t4
  Threads = {t1, t2, t3}
  Mutexes = {m1}
  CondVars = {cv}
  WaitQs = {m1, cv}
  BasePrio <- Prios
  Ceiling = 0
  MaxLocks = 2
  SMP = FALSE
INVARIANTS MutexInv PriorityInherited PriorityJustified
PROPERTIES TimedLockReturns
