SPECIFICATION SpecNc
CONSTANTS
  Modes <- MCModes
  SND_BUF = 2
  SNDLOWAT = 1
  RECVMBOX_SIZE = 1
  WRITE_LEN = 3
  CALLS = 4
  SEGS = 3
INVARIANTS
  CompletedOnce
  ReadableIfReportable
  WritableAgain
 
CHECK_DEADLOCK FALSE
