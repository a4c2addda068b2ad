SPECIFICATION Spec
CONSTANTS
  long = long
  Ids = {i1, i2}
  Values = {short, long}
  LenOf <- OneOrTwoCells
  CachePos <- OnePlace
  sector_count = 2
  K = 9
  PageCells = 3
  MaxFailures = 2
  TornOps = {"data", "ate"}
  ERASED = ERASED
  GARBAGE = GARBAGE
  MISSING = MISSING
  NONE = NONE
CHECK_DEADLOCK FALSE
INVARIANTS LogInv Durable LookupsTrue
