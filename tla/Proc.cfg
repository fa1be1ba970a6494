SPECIFICATION FairSpec
CONSTANTS
  c1 = c1
  c2 = c2
  CPUs = {c1, c2}
  NSLOT = 3
  Killable = {3}
INVARIANTS
  SwitchesSafe
  LiveParent
  NoMissedExit
PROPERTIES
  OrphansReaped
CHECK_DEADLOCK FALSE
