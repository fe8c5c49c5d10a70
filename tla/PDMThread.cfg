\* Two threads, five operations, one wait that times out, one thread that fails.
CONSTANTS
  Threads = {t1, t2}
  NoThread = NoThread
  MaxCalls = 5
  MaxTimeouts = 1
  MaxFailures = 1
SPECIFICATION LiveSpec
CHECK_DEADLOCK FALSE
INVARIANTS TypeOK ToldIsTrue FailsForAReason
PROPERTIES DoomedStays OpsReturn
