\* An EMT that inserts from ring-0, another that only flushes, and a device thread.
\* Two items in a ring of three, and four allocations: the ring goes round once
\* while a thread that has read an item sleeps.
CONSTANTS
  emt1 = emt1
  emt2 = emt2
  dev = dev
  Emts = {emt1, emt2}
  Others = {dev}
  cItems = 2
  FreeSlack = 1
  CtxsOf <- RingsOf
  MaxInserts = 4
  MaxRefusals = 1
SPECIFICATION LiveSpec
CHECK_DEADLOCK FALSE
INVARIANTS TypeOK OneFlusher KeptUnlessStale CaughtUnlessMissed
PROPERTIES ImplementsService TakenUp
