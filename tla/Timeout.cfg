SPECIFICATION FairSpec
CONSTANTS
  NONE = NONE
  c1 = c1
  c2 = c2
  CpuSets <- OneOrTwo
  Timeouts = {t1, t2, t3}
  Ticks = {0, 1}
  AbsTicks = {3}
  MaxTime = 3
CHECK_DEADLOCK FALSE
INVARIANTS TimeoutInv ClockInv
PROPERTIES NotEarly ImplementsPromise TimeoutExpires
