SPECIFICATION Spec
CONSTANTS
  p = p
  q = q
  nobody = nobody
  NBUF = 2
  Blocks = {1, 2, 3}
  Procs = {p, q}
  Values = {0, 1}
  Nobody = nobody
  MaxHeld = 1
  LogBlocks = 1
INVARIANTS
  BuffersKept
PROPERTIES
  StoreSpec
CHECK_DEADLOCK FALSE
