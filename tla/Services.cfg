SPECIFICATION SpecServices
CONSTANTS
  Cyclics = {"arp", "dns"}
  OneShots = {"app"}
  Interval <- MCInterval
  Delays = {0, 3}
  PoolSize = 4
  ClockMod = 12
  MaxLag = 2
  Addrs = {a1, a2}
  NoAddr = NoAddr
  Grants <- MCGrants
  NotGiven = NotGiven
  COARSE_SECS = 60
  SECS_MAX = 4095
  TICK_MAX = 8
  SELECT_TRIES = 3
  REBOOT_TRIES = 2
  MAX_TRIES = 4
  Clients = {c1, c2}
  Names = {"x", "y"}
  Retrying = {}
  NoName = "none"
  NoClient = NoClient
  DNS_TABLE_SIZE = 2
  DNS_MAX_SERVERS = 2
  DNS_MAX_RETRIES = 2
  Txids = {1, 2, 3}
  Ttls = {0, 1}
  SeqnoMod = 3
INVARIANTS
  TimeoutsSound
  AddressExpires
  DnsSound
PROPERTIES
  TimeoutsFire
  
  RequestsAnswered
CHECK_DEADLOCK FALSE
