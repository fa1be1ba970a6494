SPECIFICATION FairSpec
CONSTANTS
  p = p
  q = q
  none = none
  SIZE = 3
  WRAPS = 2
  Procs = {p, q}
  Letters = {"x"}
  MAXN = 2
  Killable = {p}
  BadBuf = {q}
  NoChar = none
INVARIANTS
  NeverStuck
PROPERTIES
  InputInOrder
  LineWakesReader
