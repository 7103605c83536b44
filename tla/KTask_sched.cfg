SPECIFICATION FairSpec
CONSTANTS
  t1 = t1
  t2 = t2
  t3 = t3
  Idle = Idle
  None = None
  Tasks = {t1, t2, t3}
  MaxPrio = 2
  Objs = {}
  Mutexes = {}
  Slice = 2
  SleepTicks = {1, 2}
  SuspendTasks = {t1, t2}
  DelTasks = {t3, Idle}
  PrioTasks = {t2}
  NewPrios = {1, 2}
  PolicyTasks = {t2}
  DelTwice = FALSE
  SuspendMax = 2
  LockMax = 1
  BasePrio <- MCBasePrio
INVARIANTS
  SchedulerSound

  
