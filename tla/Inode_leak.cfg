SPECIFICATION Spec
CONSTANTS
  p1 = p1
  p2 = p2
  nobody = nobody
  NINUM = 3
  NINODE = 3
  Procs = {p1, p2}
  Nobody = nobody
  Names = {"a", "b"}
  Requests <- FileRequests
SYMMETRY ProcSymmetry
VIEW LiveView
INVARIANT
  FreedWhenUnused
