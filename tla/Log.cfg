SPECIFICATION FairSpec
CONSTANTS
  p1 = p1
  p2 = p2
  b1 = b1
  b2 = b2
  b3 = b3
  b4 = b4
  Zero = 0
  Empty = Empty
  NoBlock = NoBlock
  Procs = {p1, p2}
  Blocks = {b1, b2}
  FileBlocks = {b1}
  Data = {0, 1}
  MAXOPBLOCKS = 3
  LOGSIZE = 6
  NLOG = 6
  OPBLOCKS = 1
INVARIANTS Orderly Coherent NoPanic
PROPERTIES CrashAtomic LogDrains
