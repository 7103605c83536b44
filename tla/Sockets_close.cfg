SPECIFICATION SpecLayer
CONSTANTS
  SEQ_MOD = 32
  TCP_MSS = 2
  TCP_WND = 4
  TCP_SND_BUF = 4
  TCP_RCV_SCALE = 1
  DUPACK_THRESHOLD = 1
  TCP_SYNMAXRTX = 2
  TCP_MAXRTX = 2
  ISS = 30
  ISS_STEP = 9
  RECVMBOX_SIZE = 1
  Setups <- MCSetups
  Waiters = {"t1", "t2"}
  NumSockets = 2
  SelSetups <- MCCloses
  NoOne = "no one"
  EVENTS = 2
  Pbufs = {b1}
  NULL = NULL
  Pointers = {x1}
  Lengths = {1, 2}
  POOL_BUFSIZE = 1
  MAX_REF = 2
  MAX_TOT = 2
INVARIANTS
  EventsCounted
CHECK_DEADLOCK FALSE
