SPECIFICATION Spec
CONSTANTS
    Sessions = {s1, s2}
    Fixes = {"fix-gpu-2", "safe-low"}
    Several <- MCSeveral
    Fields = {"precision", "checkpointing"}
    Edits <- MCEdits
    MaxValue = 1
    NoValue = NoValue
    Given <- MCGiven
    Torn = Torn
    NoFile = NoFile
    Ui = Ui
    Latest = Latest
    MaxTime = 1
    MaxApplies = 2
    MaxRequests = 1
    MaxAborts = 1
SYMMETRY Symmetry
INVARIANTS
    TypeOK
    UndoIsExact
    EditsAreRecorded
    HistoryIsTrue
PROPERTY
    RequestedIsRolledBack
CHECK_DEADLOCK FALSE
