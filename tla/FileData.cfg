SPECIFICATION Spec
CONSTANTS
  Procs = {1, 2}
  Inodes = {1, 2}
  Files = {"f", "g", "h"}
  ino <- MCino
  fds <- MCfds
  NBLOCK = 6
  BPB = 1
  BSIZE = 2
  NDIRECT = 2
  NINDIRECT = 3
  MAXOPBLOCKS = 10
  LOGSIZE = 20
  Sizes = {3, 7}
  CALLS <- MCCalls
INVARIANTS BlocksOwned LogFits FilesHoldWrites
CHECK_DEADLOCK FALSE
