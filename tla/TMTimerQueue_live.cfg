\* Liveness: two of three timers are armed, a device thread and the timer EMT make two calls.
CONSTANTS
  t1 = t1
  t2 = t2
  t3 = t3
  emt = emt
  dev = dev
  crit1 = crit1
  NoThread = NoThread
  NoTimer = NoTimer
  NoCrit = NoCrit
  Timers = {t1, t2, t3}
  Threads = {emt, dev}
  Emts = {emt}
  TimerEmt = emt
  CritOf <- CritOfMC
  Does <- DoesArm
  DestroyFrom <- DestroyMC
  Retries = 2
  MaxTime = 2
  ExpireTimes = {2, 3}
  Ticks = {1}
  MaxOps = 2
SPECIFICATION ArmedSpec
CHECK_DEADLOCK FALSE
PROPERTIES DueFires CallsReturn
