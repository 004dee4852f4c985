SPECIFICATION Spec
CONSTANTS
  w1 = w1
  w2 = w2
  c1 = c1
  s1 = s1
  s2 = s2
  Workers = {w1}
  Clients = {c1}
  Servers = {s1}
  Home <- OneProcess
  MaxJobs = 4
  Kind <- AllKinds
  MaxAttempts = 1
  MaxCancels = 1
  MaxRetries = 1
  MaxCrashes = 0
CONSTRAINT SecondIsRetry
INVARIANT RunsWithinAttempts
PROPERTY QuietIsFinal
CHECK_DEADLOCK FALSE
