SPECIFICATION Spec
CONSTANTS
  Parts = {"replay", "live", "parity", "entries", "status", "git", "stocks", "candles"}
  BarList <- MCBarList
  AtrValues = {10}
  Capital = 4000
  BarTimes <- MCTimes
  Markets <- MCMarkets
  q1 = q1
  q2 = q2
  Signals <- MCSignals
  MaxStamps = 4
  Ticks <- MCTicks
  LiveEntries <- MCEntries
  LiveMinutes <- MCMinutes
  Found = {0, 2}
  Liquid = 1000
  Accounts = {"MOCK", "LIVE"}
  Stocks = {"s1"}
  SignalKinds <- MCKinds
  Pauses = {2, 9, 10}
  LastMinute = 613
  MaxQueue = 1
  Items <- MCItems
  QueueSize = 1
  MaxRaises = 1
  Traders = {p1, p2}
  MaxWritten = 1
  MaxEnds = 1
  Codes <- MCCodes
  Lively = {"a"}
  BatchSize = 2
  Ttl = 2
  MaxIdle = 5
  CyclePauses = {1, 2, 3}
  StoreEnd = 12
  Frames = {1, 3}
  Prices = {70, 75, 90}
  MaxJump = 15
  KeepBars = 4
  Baseline = 2
  MaxTraded = 2
  LastUnit = 4
  MaxTicks = 4
SYMMETRY Symmetry
INVARIANTS ReplaySound  EntriesSound TelemetrySound TwinsAgree
PROPERTIES MarketSound
CHECK_DEADLOCK FALSE
