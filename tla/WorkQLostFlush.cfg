SPECIFICATION FairSpec
CONSTANTS
  NULL = NULL
  Queues = {q1}
  PlainWorks = {}
  DelayWorks = {d1}
  Clients = {c1, c2}
  Apis = {"schedule", "flush_delayable"}
  Delays = {"TICKS"}
  Gaps = {TRUE}
PROPERTIES ScheduledIsQueued
