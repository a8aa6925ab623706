SPECIFICATION Spec
CONSTANTS
    Agents = {1, 2}
    Signatures = {"test", "build"}
    Threshold <- MCThreshold
    LoopRepeatThreshold = 2
    Absent = Absent
    Empty = Empty
    Torn = Torn
    MaxResets = 1
    MaxCrashes = 1
CHECK_DEADLOCK FALSE
INVARIANTS
    StopIsEarned
    CountsRecords
    StopIsSeen
PROPERTIES
    RetriesEnd
