SPECIFICATION Spec
CONSTANTS
    Slots = 2
    Unused = Unused
    Absent = Absent
    Page <- MCPage0
    Xid <- MCXids
    Value <- MCValues
    MaxWrites = 2
    MaxLog = 4
    MaxEvictions = 0
    MaxCrashes = 2
    Circumstances <- CrashInUndo
INVARIANT NothingResurrected
