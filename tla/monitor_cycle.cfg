SPECIFICATION FairSpec
CONSTANTS
  a = a
  b = b
  c = c
  Fingerprints = {a, b, c}
  Types = {"gpu", "network"}
  Type <- TypeOf
  Rank <- RankOf
  Hash <- HashOf
  Fixable = {a, c}
  MaxEvents = 2
  MaxAuto = 1
  MaxReports = 3
  MaxPerType = 1
  MaxAlerts = 2
  MaxSeen = 2
  TailLines = 2
  MaxDelta = 1
  Modes = {"local", "remote", "tail"}
  MaxLines = 3
  MaxRotations = 1
  MaxFails = 0
  MaxCrashes = 1
INVARIANTS TypeOK NoNeedlessRepeat OneFixPerCycle ReportsReserved SeenWasAlerted
CHECK_DEADLOCK FALSE
