SPECIFICATION FairSpecSem
CONSTANTS
  t1 = t1
  t2 = t2
  t3 = t3
  s1 = s1
  Idle = Idle
  None = None
  Tasks = {t1, t2, t3}
  MaxPrio = 2
  Objs = {s1}
  Mutexes = {}
  Sems = {s1}
  Slice = 1
  SleepTicks = {1}
  SuspendTasks = {t2}
  DelTasks = {t3}
  PrioTasks = {}
  NewPrios = {}
  PolicyTasks = {}
  DelTwice = FALSE
  SuspendMax = 1
  LockMax = 0
  BasePrio <- MCBasePrio
  TakeTicks <- MCTakeTicks
  CountMax = 2
  InitCount = 0
  SetCounts = {0, 2}
  DelSems = {s1}
  Isr = TRUE
INVARIANTS
  NoWaitWithTokens
PROPERTIES
  TimedWaitEnds
  ImplementsSemAbs
