\* The recovery runners of the monitor and of the worker, over one project.
CONSTANTS
  Projects <- MCProjects
  Events <- MCEvents
  Contents <- MCContents
  PrintSeconds = 3
  TypeSeconds = 2
  ProjectSeconds = 1
  MaxRecoveries = 3
  MaxTime = 2
  MaxUpsets = 1
SPECIFICATION Spec
INVARIANTS TypeOK ExecutedIsAuthorized AuditIsTrue RollbackIsOwn CooldownHolds
PROPERTIES RecoveryOnlyDegrades
CHECK_DEADLOCK FALSE
