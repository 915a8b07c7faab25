SPECIFICATION Spec
CONSTANTS
  t1 = t1
  t2 = t2
  e1 = e1
  e2 = e2
  FTabs = {t1, t2}
  Dirs <- MCDirs
  Root = root
  root = root
  sub = sub
  Names = {n1, n2}
  n1 = n1
  n2 = n2
  FirstFiles <- MCFirstFiles
  MaxCalls = 2
  Editors = {e1, e2}
  EditorPaths = {x}
  x = x
  MaxSaves = 2
  Quotas <- MCQuotas
SYMMETRY FilesSymmetry
INVARIANTS ShowsCwd   SavedReopens SessionsOwned
CHECK_DEADLOCK FALSE
