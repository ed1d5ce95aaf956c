SPECIFICATION Spec
CONSTANTS
  i1 = i1
  i2 = i2
  c1 = c1
  c2 = c2
  c3 = c3
  d1 = d1
  d2 = d2
  Instance = {i1, i2}
  Caller = {c1, c2, c3}
  InstanceOf <- MCInstanceOf
  Slot = {s1, s2}
  Payload = {d1, d2}
  Absent = Absent
  Pid = {p1, p2}
  NotRunning = NotRunning
  Free = Free
  ATTEMPTS = 2
  MaxSeq = 4
  MaxCalls = 2
  MaxCrashes = 2
SYMMETRY Symmetry
INVARIANTS
  TypeOK
  SlotsWhole
  AckedDurable
  TempsOwned
PROPERTIES
  ForeignTempsKept
  RegisterKept
CHECK_DEADLOCK FALSE
