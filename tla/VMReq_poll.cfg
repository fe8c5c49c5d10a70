\* One poller asks one CPU.
CONSTANTS
  main = main
  gui = gui
  NoReq = NoReq
  VMCPUID_ANY = VMCPUID_ANY
  VMCPUID_ALL = VMCPUID_ALL
  VMCPUID_ALL_REVERSE = VMCPUID_ALL_REVERSE
  cCpus = 1
  Clients = {gui}
  Pollers = {gui}
  Packets = {1}
  Plans <- PollPlans
  StartStates = {"RUNNING"}
  MaxFree = 2
SPECIFICATION LiveSpec
CHECK_DEADLOCK FALSE
PROPERTY PollsReturn
