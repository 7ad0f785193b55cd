SPECIFICATION Spec
CONSTANTS
    Slots = 1
    Unused = Unused
    Absent = Absent
    Page <- MCPages
    Xid <- MCXids
    Value <- MCValues
    MaxWrites = 2
    MaxLog = 5
    MaxEvictions = 2
    MaxCrashes = 2
    Circumstances <- RawPage
INVARIANT NothingLost
