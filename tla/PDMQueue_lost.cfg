\* Two EMTs and a device thread; two allocations.
CONSTANTS
  emt1 = emt1
  emt2 = emt2
  dev = dev
  Emts = {emt1, emt2}
  Others = {dev}
  cItems = 2
  FreeSlack = 1
  CtxsOf <- AllR3
  MaxInserts = 2
  MaxRefusals = 0
SPECIFICATION Spec
CHECK_DEADLOCK FALSE
INVARIANT InsertsCaught
