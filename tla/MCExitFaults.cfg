SPECIFICATION AdoptFairSpec

CONSTANTS
  Orders = {o1, o2}
  Symbols = {s1}
  Intents = {}
  None = None
  UnitReserve = 11
  UnitFill = 10
  MaxQty = 4
  MaxEntry = 2
  InitCash = 22
  DryRunModes = {FALSE}
  QueryMayFail = TRUE
  MaxAttempts = 1
  MaxRestarts = 1
  Targets = 1

PROPERTIES
  ImplementsRouter
  UnmanagedIsAdopted
