SPECIFICATION FairSpec
CONSTANTS
  a = a
  b = b
  Tasks = {a, b}
  Targets = {p}
  Existing = {p}
  Supports = {FALSE, TRUE}
  Size <- TwoFiles
  MaxLimit = 2
  MaxRuns = 2
  Retried = {a}
  MayClose = TRUE
INVARIANTS TargetIsComplete LeftoversNamed
PROPERTIES LimitKept 
CHECK_DEADLOCK FALSE
