SPECIFICATION FairSpec
CONSTANTS
  NPROC = 6
  Procs <- MCProcs
  NFILE = 5
  NOFILE = 5
  NPIPE = 2
  Names = {"console", "f", "g"}
  MAXARGS = 2
  MAXOLD = 0
  Lines <- SomeLines
  LINELEN = 4
INVARIANTS FileRefs RightFiles InOrder ParseAgrees HeapSound
PROPERTIES PromptReturns
CHECK_DEADLOCK FALSE
