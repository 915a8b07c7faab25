SPECIFICATION FairSpec
CONSTANTS
  Tabs = {t1, t2}
  MaxSessions = 3
  KnownAtStart = FALSE
INVARIANTS NoOrphanPassword OnlineHasSession ExecsQueued
 
CHECK_DEADLOCK FALSE
