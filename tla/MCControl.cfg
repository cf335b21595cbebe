\* Watchdog: two symbols, of which one may fail for ever, and one more buy.
\* Processes: two supervisors, three traders, three ends.  Breaker: 1, 3 and
\* 2 time steps.
SPECIFICATION Spec
CONSTANTS
  quotedStock = quotedStock
  failingStock = failingStock
  WatchSymbols = {quotedStock, failingStock}
  Quoted = {quotedStock}
  Rank <- MCRank
  FailLimit = 2
  MaxBuys = 1
  dualSup = dualSup
  liveSup = liveSup
  Supervisors = {dualSup, liveSup}
  Pids = {p1, p2, p3}
  NoProcess = NoProcess
  AccountsOf <- MCAccountsOf
  DegradedAt = 2
  MaxEnds = 3
  Stall = 1
  Window = 3
  Confirm = 2
  MaxErrors = 3
INVARIANTS AccountsSound GatesSound
PROPERTIES BuysWaitForExits StopIsActedOn TradingResumes
CHECK_DEADLOCK FALSE
