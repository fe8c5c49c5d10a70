\* Two CPUs and two clients, one of which may poll or leave requests behind.
CONSTANTS
  main = main
  gui = gui
  NoReq = NoReq
  VMCPUID_ANY = VMCPUID_ANY
  VMCPUID_ALL = VMCPUID_ALL
  VMCPUID_ALL_REVERSE = VMCPUID_ALL_REVERSE
  cCpus = 2
  Clients = {main, gui}
  Pollers = {gui}
  Packets = {1, 2, 3}
  Plans <- MixedPlans
  StartStates = {"RUNNING"}
  MaxFree = 2
SPECIFICATION LiveSpec
CHECK_DEADLOCK FALSE
INVARIANTS TypeOK RanAsAsked EventNotStale QueuedIsSeen NoLostWakeup
PROPERTIES ImplementsService CallsReturn
