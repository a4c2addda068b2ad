SPECIFICATION MCSpec
CONSTANTS
  NULL = NULL
  q1 = q1
  q2 = q2
  c1 = c1
  c2 = c2
  Queues = {q1, q2}
  PlainWorks = {w1}
  DelayWorks = {d1}
  Clients = {c1, c2}
  Apis = {"submit", "flush", "cancel", "cancel_sync", "drain", "unplug", "schedule", "reschedule", "flush_delayable", "cancel_delayable", "cancel_delayable_sync", "chain"}
  Delays = {"NO_WAIT", "TICKS"}
  Gaps = {TRUE, FALSE}
INVARIANTS IInv DelayedHasTimeout SyncWaits WaitersInv
PROPERTIES FifoOrder ImplementsPromise SyncReturns QueuedIsTaken DrainReturns 
