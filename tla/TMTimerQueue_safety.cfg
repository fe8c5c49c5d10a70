\* Two timers, the timer EMT and a device thread.
CONSTANTS
  t1 = t1
  t2 = t2
  t3 = t3
  emt = emt
  dev = dev
  crit1 = crit1
  NoThread = NoThread
  NoTimer = NoTimer
  NoCrit = NoCrit
  Timers = {t1, t2}
  Threads = {emt, dev}
  Emts = {emt}
  TimerEmt = emt
  CritOf <- CritOfMC
  Does <- DoesMC
  DestroyFrom <- DestroyMC
  Retries = 1
  MaxTime = 2
  ExpireTimes = {1, 2}
  Ticks = {1}
  MaxOps = 3
SPECIFICATION Spec
CHECK_DEADLOCK FALSE
INVARIANTS TypeOK LockBalanced SanityCheck ScheduleListOK NothingStale
PROPERTIES ImplementsService
