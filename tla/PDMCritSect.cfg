\* Two EMTs and two sections, one of which may be entered while the other is held.
CONSTANTS
  emt1 = emt1
  emt2 = emt2
  a = a
  b = b
  NoThread = NoThread
  NoSect = NoSect
  Threads = {emt1, emt2}
  Emts = {emt1, emt2}
  Sects = {a, b}
  MayHold <- OrderAB
  MaxNest = 2
  MaxOps = 5
SPECIFICATION LiveSpec
CHECK_DEADLOCK FALSE
INVARIANTS TypeOK LockersCount CodeAssertions QueuedOnce Ownership
PROPERTIES ImplementsLock CallsReturn QueueDrained
