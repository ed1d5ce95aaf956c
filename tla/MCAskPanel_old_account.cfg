SPECIFICATION Spec
CONSTANTS
  v1 = v1
  v2 = v2
  a1 = a1
  a2 = a2
  Req = {r1, r2}
  MaxQuestions = 2
  Conv = {v1, v2}
  Account = {a1, a2}
  CachedAccount = a1
  Owner <- MCOwner
  None = None
  MaxLines = 0
  MaxOpens = 2
INVARIANTS
  OldAccountGone
CHECK_DEADLOCK FALSE
