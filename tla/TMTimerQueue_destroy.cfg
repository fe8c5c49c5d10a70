\* A timer stopped before it was ever scheduled is destroyed.
CONSTANTS
  t1 = t1
  t2 = t2
  t3 = t3
  emt = emt
  dev = dev
  crit1 = crit1
  NoThread = NoThread
  NoTimer = NoTimer
  NoCrit = NoCrit
  Timers = {t1, t2}
  Threads = {emt, dev}
  Emts = {emt}
  TimerEmt = emt
  CritOf <- CritOfMC
  Does <- DoesMC
  DestroyFrom <- DestroyAny
  Retries = 2
  MaxTime = 0
  ExpireTimes = {1}
  Ticks = {1}
  MaxOps = 4
SPECIFICATION Spec
CHECK_DEADLOCK FALSE
INVARIANTS SanityCheck
