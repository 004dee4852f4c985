SPECIFICATION Spec
CONSTANTS
    Sessions = {s1}
    Fixes = {"fix-gpu-2", "safe-low"}
    Several <- MCSeveral
    Fields = {"precision", "checkpointing"}
    Edits <- MCEdits
    MaxValue = 1
    NoValue = NoValue
    Given <- MCGiven
    Torn = Torn
    NoFile = NoFile
    Ui = Ui
    Latest = Latest
    MaxTime = 1
    MaxApplies = 2
    MaxRequests = 0
    MaxAborts = 0
PROPERTY
    RollbackRestores
CHECK_DEADLOCK FALSE
