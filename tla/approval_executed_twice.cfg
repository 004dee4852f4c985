SPECIFICATION Spec
CONSTANTS
  h1 = h1
  h2 = h2
  MaxRequests = 1
  Approvable = {1}
  Handlers = {h1, h2}
  MaxJobs = 2
  MaxDecisions = 2
  MaxLive = 0
  MaxRetries = 0
  MaxCancels = 0
  MaxCrashes = 0
INVARIANT ExecutedOnce
CHECK_DEADLOCK FALSE
