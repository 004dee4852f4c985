SPECIFICATION Spec
CONSTANTS
  MaxFiles = 4
  MaxHistory = 3
  ReportDays = 30
  KeepReports = 1
  AlertDays = 30
  KeepAlerts = 1
  AcceptanceDays = 30
  KeepRuns = 1
  KeepBackups = 1
INVARIANTS
  WindowIsReported
  GovernedIsCoherent
  EvidenceIsKept
  CompactionKeeps
  PlanAnswersEvidence
  ReportIsTheEventsOwn
  SameFixEverywhere
CHECK_DEADLOCK FALSE
