SPECIFICATION Spec

CONSTANTS
  Orders = {o1, o2, o3}
  Symbols = {s1}
  Intents = {}
  None = None
  UnitReserve = 11
  UnitFill = 10
  MaxQty = 2
  InitCash = 22
  DryRunModes = {FALSE}
  QueryMayFail = FALSE
  MaxAttempts = 2
  MaxRestarts = 0

INVARIANTS
  UnfilledBuyIsReserved
  SellIsCovered
  SecondBuyOnlyAfterSell
  NoPhantomFill
  CanceledMeansDead

