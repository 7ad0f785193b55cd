SPECIFICATION Spec
CONSTANTS
    Slots = 2
    Unused = Unused
    Absent = Absent
    Page <- MCPage0
    Xid <- MCXids
    Value <- MCValues
    MaxWrites = 2
    MaxLog = 4
    MaxEvictions = 2
    MaxCrashes = 2
    Circumstances <- Ordinary
INVARIANTS
    TypeOK
    WriteAhead
    FlushedIsSynced
    CleanFramesMatch
    NothingLost
    NothingResurrected
    XidsUsedUp
