SPECIFICATION Spec

CONSTANTS
  Orders = {o1, o2}
  Symbols = {s1}
  Intents = {}
  None = None
  UnitReserve = 11
  UnitFill = 10
  MaxQty = 2
  InitCash = 50
  DryRunModes = {FALSE}
  QueryMayFail = TRUE
  MaxAttempts = 1
  MaxRestarts = 0

INVARIANTS
  NoPhantomFill

