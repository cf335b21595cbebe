SPECIFICATION ExitSpec

CONSTANTS
  Orders = {o1, o2, o3}
  Symbols = {s1}
  Intents = {}
  None = None
  UnitReserve = 11
  UnitFill = 10
  MaxQty = 4
  MaxEntry = 2
  InitCash = 22
  DryRunModes = {FALSE}
  QueryMayFail = TRUE
  MaxAttempts = 2
  MaxRestarts = 0
  Targets = 1

ACTION_CONSTRAINT
  WhileOrdersLast

CONSTRAINT
  RepeatedAlone

INVARIANTS
  ExitTypeOK
  PositionIsCovered

