SPECIFICATION SpecNc
CONSTANTS
  Modes <- MCAbandons
  SND_BUF = 2
  SNDLOWAT = 1
  RECVMBOX_SIZE = 1
  WRITE_LEN = 3
  CALLS = 4
  SEGS = 3
INVARIANT NoDanglingPcb
CHECK_DEADLOCK FALSE
