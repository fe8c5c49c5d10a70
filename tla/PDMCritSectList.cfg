\* Two EMTs and three critical sections of two devices.
CONSTANTS
  emt1 = emt1
  emt2 = emt2
  s1 = s1
  s2 = s2
  s3 = s3
  dev1 = dev1
  dev2 = dev2
  Null = Null
  NoKey = NoKey
  NoThread = NoThread
  Threads = {emt1, emt2}
  Emts = {emt1, emt2}
  Sects = {s1, s2, s3}
  Keys = {dev1, dev2}
SPECIFICATION Spec
INVARIANTS ListedUnlessRaced
