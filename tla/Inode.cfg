SPECIFICATION Spec
CONSTANTS
  p1 = p1
  p2 = p2
  nobody = nobody
  NINUM = 3
  NINODE = 3
  Procs = {p1, p2}
  Nobody = nobody
  Names = {"a", "b"}
  Requests <- TreeRequests
SYMMETRY ProcSymmetry
VIEW LiveView
INVARIANTS
  TableSound
  IputWontBlock
  OpenStaysAllocated
  LinksCounted
