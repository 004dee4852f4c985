\* The monitor daemon and the commands of jobs, as processes of the web server.
CONSTANTS
  Pids = {1, 2, 3, 4}
  MaxJobs = 3
  MaxUpsets = 1
SPECIFICATION Spec
INVARIANTS TypeOK OneMonitor MonitorIsFindable OutcomeIsTrue NothingOutlivesItsJob
PROPERTY CancelIsHeard
CHECK_DEADLOCK FALSE
