SPECIFICATION FairSpec
CONSTANTS
  p = p
  q = q
  cpu = cpu
  echo = echo
  none = none
  SIZE = 2
  Writers = {p, q}
  Echoers = {cpu}
  Chars = {1, 2}
  Echo = echo
  DEPTH = 2
  MAXC = 5
  NoByte = none
INVARIANTS
  NoOverrun
PROPERTIES
  OutputFifo
  Drains
CHECK_DEADLOCK FALSE
