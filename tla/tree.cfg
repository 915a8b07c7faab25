SPECIFICATION Spec
CONSTANTS
  p1 = p1
  p2 = p2
  f1 = f1
  f2 = f2
  h1 = h1
  Pages = {p1, p2}
  Folders = {f1, f2}
  Hosts = {h1}
  MaxOps = 2
SYMMETRY TreeSymmetry
INVARIANTS TreeKept CredentialsKept
PROPERTY MemoryFollows
CHECK_DEADLOCK FALSE
