\* Telegram: two receivers, three messages of which one is edited, one crash or
\* failure.  After hours: two traders, one stock, three days.  Registry: two
\* models, two days.  Books: one symbol, three sales, three minutes of two days.
\* Learning: one symbol, two decisions, two days.
SPECIFICATION Spec
CONSTANTS
  Receivers = {r1, r2}
  m1 = m1
  m2 = m2
  m3 = m3
  Messages = {m1, m2, m3}
  NoOne = NoOne
  KindOf <- MCKindOf
  Updates <- MCUpdates
  MaxTroubles = 1
  Watchers = {w1, w2}
  Codes = {c1}
  LastDay = 3
  MaxDbErrors = 1
  MaxModels = 2
  LastDate = 2
  MaxCrashes = 2
  MaxTears = 1
  BookSymbols = {s1}
  DayLength = 2
  MaxLot = 2
  LastMinute = 4
  MaxSales = 3
  MaxLost = 1
  LearnSymbols = {s1}
  Strategies = {p1}
  Gains = {60}
  Losses = {30}
  SecondsADay = 3
  PageLimit = 2
  LastSecond = 5
  MaxSnapshots = 2
SYMMETRY Symmetry
CONSTRAINT Unexcused
INVARIANTS TypeOK MessagesHandled OneChampion ProfitReportedOnce
PROPERTIES EntryWaitsForNextDay LabelledByOwnOutcome
CHECK_DEADLOCK FALSE
