SPECIFICATION FairSpec

CONSTANTS
  Orders = {o1, o2}
  Symbols = {s1, s2}
  Intents = {i1}
  None = None
  UnitReserve = 11
  UnitFill = 10
  MaxQty = 2
  InitCash = 33
  DryRunModes = {FALSE, TRUE}
  QueryMayFail = TRUE
  MaxAttempts = 1
  MaxRestarts = 1

INVARIANTS
  IntentMakesOneOrder
  TypeOK
  ReservedIsSum
  PendingIffOpen
  StatusMatchesFilled

PROPERTIES
  FinishedOrderLeavesPending

