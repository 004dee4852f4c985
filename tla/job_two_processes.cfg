SPECIFICATION Spec
CONSTANTS
  w1 = w1
  w2 = w2
  c1 = c1
  s1 = s1
  s2 = s2
  Workers = {w1, w2}
  Clients = {c1}
  Servers = {s1, s2}
  Home <- TwoProcesses
  MaxJobs = 1
  Kind <- OneConn
  MaxAttempts = 2
  MaxCancels = 0
  MaxRetries = 0
  MaxCrashes = 1
INVARIANT StatusHasCause
CHECK_DEADLOCK FALSE
