SPECIFICATION Spec
CONSTANTS
    Scopes = {1, 2}
    Values = {v0, v1, v2}
    Default = v0
    Absent = Absent
    MaxSets = 2
    MaxCrashes = 1
INVARIANTS
    SetOkMeansSaved
CHECK_DEADLOCK FALSE
