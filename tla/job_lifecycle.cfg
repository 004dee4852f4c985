SPECIFICATION FairSpec
CONSTANTS
  w1 = w1
  w2 = w2
  c1 = c1
  s1 = s1
  s2 = s2
  Workers = {w1}
  Clients = {c1}
  Servers = {s1}
  Home <- OneProcess
  MaxJobs = 2
  Kind <- OpThenConn
  MaxAttempts = 2
  MaxCancels = 0
  MaxRetries = 0
  MaxCrashes = 2
INVARIANT TypeOK
PROPERTIES EveryJobSettles ImplementsLifecycle
CHECK_DEADLOCK FALSE
