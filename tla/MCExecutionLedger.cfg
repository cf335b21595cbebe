\* Two workers, two attempts, three calls, one crash.
SPECIFICATION FairSpec
CONSTANTS
  b1 = b1
  b2 = b2
  s1 = s1
  o1 = o1
  o2 = o2
  live = live
  mock = mock
  None = None
  NoAccount = NoAccount
  Workers = {w1, w2}
  Events <- MCEvents
  Orders = {o1, o2}
  PosIds = {b1, b2, s1}
  Accounts = {live, mock}
  MaxRetries = 2
  MaxCalls = 3
  MaxCrashes = 1
INVARIANTS TypeOK AnswerIsTrue TablesAgree
PROPERTIES ImplementsLedger CallsReturn
CHECK_DEADLOCK FALSE
