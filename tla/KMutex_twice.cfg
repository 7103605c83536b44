SPECIFICATION SpecUsage
CONSTANTS
  t1 = t1
  t2 = t2
  t3 = t3
  m1 = m1
  m2 = m2
  Idle = Idle
  None = None
  Tasks = {t1, t2, t3}
  MaxPrio = 3
  Objs = {m1}
  Mutexes = {m1}
  Slice = 1
  SleepTicks = {1}
  SuspendTasks = {}
  DelTasks = {t3}
  PrioTasks = {}
  NewPrios = {}
  PolicyTasks = {}
  DelTwice = TRUE
  SuspendMax = 1
  LockMax = 0
  BasePrio <- MCBasePrio
  LockTicks <- MCLockTicks
  NestedMax = 1
  NestTasks = {}
  DelMutexes = {}
PROPERTIES NotStolen
