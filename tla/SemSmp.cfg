SPECIFICATION Spec
CONSTANTS
  NONE = NONE
  t1 = t1
  t2 = t2
  t3 = t3
  Threads = {t1, t2, t3}
  Sems = {s1}
  WaitQs = {s1}
  BasePrio <- Prios
  Limit = 2
  SMP = TRUE
PROPERTIES ResultIsTrue
