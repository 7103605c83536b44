SPECIFICATION Spec
CONSTANTS
  t1 = t1
  t2 = t2
  a1 = a1
  Timers = {t1, t2}
  DynTimers = {t2}
  Firsts = {3}
  Rounds = {0, 1}
  Args = {a1}
  TickMod = 8
  MsgNum = 1
  MaxLag = 1
  MaxCalls = 2
INVARIANTS
  ListSound
PROPERTIES
  NeverEarly
  
  CommandsServed
