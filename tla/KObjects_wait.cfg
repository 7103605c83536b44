SPECIFICATION SpecObject
CONSTANTS
  t1 = t1
  t2 = t2
  t3 = t3
  q1 = q1
  e1 = e1
  f1 = f1
  f2 = f2
  Idle = Idle
  None = None
  Tasks = {t1, t2, t3}
  MaxPrio = 2
  Objs = {e1, q1}
  Mutexes = {}
  Events = {e1}
  Bits = {f1, f2}
  Waits <- MCWaits
  GetTicks <- MCTicks
  InitFlags = {}
  DelEvents = {e1}
  IsrFlags = {f1}
  Queues = {q1}
  DelQueues = {q1}
  Kinds = {"queue", "buf_queue"}
  MsgNum = 2
  MsgCount = 1
  MsgSize = 2
  Lens = {1, 2}
  Serials = 3
  RecvTicks <- MCTicks
  Slice = 1
  SleepTicks = {}
  SuspendTasks = {t1}
  DelTasks = {}
  PrioTasks = {}
  NewPrios = {}
  PolicyTasks = {}
  DelTwice = FALSE
  SuspendMax = 1
  LockMax = 0
  BasePrio <- MCBasePrio
INVARIANTS
  EventsSound
  QueuesSound
PROPERTIES
  SetReachesAll
