SPECIFICATION FairSpec
CONSTANTS
  i1 = i1
  i2 = i2
  c1 = c1
  c2 = c2
  c3 = c3
  d1 = d1
  d2 = d2
  Instance = {i1}
  Caller = {c1, c2}
  InstanceOf <- MCInstanceOf
  Slot = {s1}
  Payload = {d1}
  Absent = Absent
  Pid = {p1}
  NotRunning = NotRunning
  Free = Free
  ATTEMPTS = 1
  MaxSeq = 3
  MaxCalls = 3
  MaxCrashes = 1
PROPERTIES
  CallsReturn
CHECK_DEADLOCK FALSE
