\* The token among two processes, and the gateway with two threads.
CONSTANTS
  t1 = t1
  t2 = t2
  t3 = t3
  trader = trader
  dashboard = dashboard
  Threads = {t1, t2, t3}
  Procs = {trader, dashboard}
  HostOf <- MCHostOf
  MaxIssues = 2
  MaxWindows = 1
  MaxCalls = 3
  MaxCrashes = 1
  Callers = {c1, c2}
  Pages = 2
  MaxRetries = 2
  Threshold = 2
  MaxTasks = 2
SPECIFICATION Spec
CONSTRAINT
  OneTrouble
INVARIANTS
  TokenSound
  GatewaySound
PROPERTIES
  CallsEnd
\* The threads stop when the bounds on calls are used up.
CHECK_DEADLOCK FALSE
