SPECIFICATION FairSpec
CONSTANTS
  h1 = h1
  h2 = h2
  MaxRequests = 2
  Approvable = {1, 2}
  Handlers = {h1, h2}
  MaxJobs = 4
  MaxDecisions = 2
  MaxLive = 1
  MaxRetries = 1
  MaxCancels = 1
  MaxCrashes = 1
INVARIANTS TypeOK ExecutionsBacked
PROPERTIES SettledIsFinal ApprovedIsConsumed
CHECK_DEADLOCK FALSE
