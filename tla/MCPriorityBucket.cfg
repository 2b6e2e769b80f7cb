SPECIFICATION FairSpec
CONSTANTS
  t1 = t1
  t2 = t2
  t3 = t3
  Threads = {t1, t2, t3}
  Priorities = {0, 1}
  Asks = {0, 2}
  Limits <- HeaderLimits
  Remains <- HeaderRemains
  MayRaise = {t1}
  MaxCapacity = 2
  MaxCalls = 3
  MaxHeaders = 1
INVARIANTS NoLostWakeup NoOversleep Conforms
PROPERTY EveryCallReturns
