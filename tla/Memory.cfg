SPECIFICATION Spec
CONSTANTS
  NPAGE = 18
  NPROC = 2
  PGSIZE = 2
  FAN = 2
  USERSTACK = 1
  MAXARG = 2
  UPAGES = 4
  Programs <- SomePrograms
  Deltas <- SomeDeltas
VIEW Shape
INVARIANTS
  Ownership
  ImageMatchesSize
  NoPanic
  CopyAgrees
