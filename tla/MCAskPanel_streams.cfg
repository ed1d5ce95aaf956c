SPECIFICATION FairSpec
CONSTANTS
  v1 = v1
  v2 = v2
  a1 = a1
  a2 = a2
  Req = {r1, r2}
  MaxQuestions = 2
  Conv = {v1}
  Account = {a1, a2}
  CachedAccount = a1
  Owner <- MCOwner
  None = None
  MaxLines = 1
  MaxOpens = 1
INVARIANTS
  TypeOK
  AnswersMatchQuestions
PROPERTIES
  NothingAfterTerminal
  StreamsForgotten
  UnstoppedAnswered
  ListenedQuestionEnds
CHECK_DEADLOCK FALSE
