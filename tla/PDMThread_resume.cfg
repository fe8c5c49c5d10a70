\* One thread that never fails, no wait that times out.
CONSTANTS
  Threads = {t1}
  NoThread = NoThread
  MaxCalls = 5
  MaxTimeouts = 0
  MaxFailures = 0
SPECIFICATION Spec
CHECK_DEADLOCK FALSE
INVARIANT HealthySurvives
