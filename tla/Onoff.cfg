SPECIFICATION FairSpec
CONSTANTS
  NONE = NONE
  Clients = {c1, c2, c3}
  Monitors = {m1}
  SERVICE_REFS_MAX = 3
  CONFIG_ASSERT = FALSE
INVARIANTS OnoffInv OnWhileHeld WaitsInTransition
PROPERTIES EventsNotLost
