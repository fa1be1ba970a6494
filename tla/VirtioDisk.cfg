SPECIFICATION Spec
CONSTANTS
  p = p
  q = q
  r = r
  nobody = nobody
  NUM = 6
  LAPS = 2
  Procs = {p, q, r}
  Nobody = nobody
SYMMETRY ProcSymmetry
VIEW LiveView
INVARIANTS
  RingsAccounted
  TransferDone
  NoLostCompletion
