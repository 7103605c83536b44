SPECIFICATION SpecUsage
CONSTANTS
  t1 = t1
  t2 = t2
  t3 = t3
  m1 = m1
  m2 = m2
  Idle = Idle
  None = None
  Tasks = {t1, t2, t3}
  MaxPrio = 3
  Objs = {m1, m2}
  Mutexes = {m1, m2}
  Slice = 1
  SleepTicks = {1}
  SuspendTasks = {}
  DelTasks = {t3}
  PrioTasks = {t3}
  NewPrios = {1, 3}
  PolicyTasks = {}
  DelTwice = FALSE
  SuspendMax = 1
  LockMax = 0
  BasePrio <- MCBasePrio
  LockTicks <- MCLockTicks
  NestedMax = 2
  NestTasks = {t1}
  DelMutexes = {m1}
INVARIANTS
  MutexesSound
PROPERTIES
  NotStolen
