SPECIFICATION FairSpec
CONSTANTS
  a = a
  b = b
  c = c
  Fingerprints = {a, b, c}
  Types = {"gpu", "network"}
  Type <- TypeOf
  Rank <- RankOf
  Hash <- HashOf
  Fixable = {a, c}
  MaxEvents = 2
  MaxAuto = 1
  MaxReports = 3
  MaxPerType = 1
  MaxAlerts = 2
  MaxSeen = 2
  TailLines = 3
  MaxDelta = 1
  Modes = {"tail"}
  MaxLines = 3
  MaxRotations = 0
  MaxFails = 1
  MaxCrashes = 0
PROPERTIES TailIsHandled
CHECK_DEADLOCK FALSE
