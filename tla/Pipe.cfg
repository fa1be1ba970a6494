SPECIFICATION Spec
CONSTANTS
  sh = sh
  a = a
  none = none
  Procs = {sh, a}
  First = sh
  PIPESIZE = 2
  WRAPS = 2
  MAXN = 2
  Bytes = {1, 2}
  NoByte = none
  Killable = {a}
  BadBuf = {a}
INVARIANTS
  PageLife
  BlocksRightly
PROPERTY
  Fifo
CHECK_DEADLOCK FALSE
