SPECIFICATION TreeSpec
CONSTANTS
    IndexKey = {1, 2, 3, 4, 5, 6}
    RowId = {c1}
    MaxLeafKeys = 3
    MaxInternalKeys = 3
    MaxEntries = 6
    TreeCircumstances = {"staleParent"}
INVARIANT
    EntriesFound
CHECK_DEADLOCK FALSE
