SPECIFICATION SpecStores
CONSTANTS
  Blocks = 3
  Msgs <- MCMsgs
  NoData = NoData
  Base = 4
  Size = 9
  ByteMsgs <- MCByteMsgs
  MinShift = 1
  MaxShift = 3
  HeapSize = 20
  Requests = {0, 1, 4, 6, 9}
  Datagrams = {"x", "y", "z"}
  Length <- MCLength
  Mtus = {36, 28}
  Clens = {1, 2}
  IP_REASS_MAX_PBUFS = 5
  IP_REASS_MAXAGE = 1
  MEMP_NUM_REASSDATA = 2
  Netifs = {n1}
  Ips = {a1, a2, a3}
  Macs = {m1, m2}
  NoMac = NoMac
  NoPacket = NoPacket
  ARP_TABLE_SIZE = 2
  ARP_MAXAGE = 3
  ARP_MAXPENDING = 2
  REREQUEST_UNICAST = 1
  REREQUEST_BROADCAST = 2
  Users = {u1, u2, u3, u4, u5}
  CountMax = 3
  InitCount = 1
  RBSIZE = 4
  TXBUF = 2
  MARGIN = 2
  Channels = {"c1", "c2"}
  BYTES = 8
  MaxSkbs = 1
  MaxTokens = 2
  Tasks = {t1, t2}
  NoTask = NoTask
  FlashSize = 8
  page_size = 2
  sector_size = 4
  block_size = 8
  Buffers <- MCBuffers
INVARIANTS
  Consistent
  HeapSound
  ReassemblySound
  ArpSound
  TokensSound
  BridgeSound
  WritesExact
PROPERTIES
  ImplementsFifo
  DynImplementsFifo
  BestFit
CHECK_DEADLOCK FALSE
