SPECIFICATION TreeSpec
CONSTANTS
    IndexKey = {1, 2, 3}
    RowId = {c1, c2}
    MaxLeafKeys = 3
    MaxInternalKeys = 3
    MaxEntries = 6
    TreeCircumstances = {"cutRun"}
INVARIANT
    EntriesFound
CHECK_DEADLOCK FALSE
