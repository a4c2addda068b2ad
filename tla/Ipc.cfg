SPECIFICATION FairSpec
CONSTANTS
  NONE = NONE
  t1 = t1
  t2 = t2
  Threads = {t1, t2}
  wait_q = wait_q
  WaitQs = {wait_q}
  BasePrio <- Prios
  SMP = FALSE
  Items = {x1, x2, x3, x4}
  max_msgs = 2
  max_entries = 2
  heap_units = 6
  Requests = {1, 3}
  alloc_loops = 1
  sem_limit = 2
  givers = 2
  e1 = e1
  e2 = e2
  Bits = {e1, e2}
  Waits <- OneOrBoth
  MaxStatus = 2
  TimerCallers = {c1, c2}
INVARIANTS IpcInv
PROPERTIES ImplementsExchange ResultIsTrue WaitsReturn
