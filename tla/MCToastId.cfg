SPECIFICATION ToastSpec
CONSTANTS
    Writer = {1, 2}
    ChunkCounts = {1, 2}
    ChunksPerPage = 3
    MaxValues = 4
    MaxPowerCuts = 2
    ToastCircumstances = {"idAgain"}
INVARIANT
    ValuesKept
CHECK_DEADLOCK FALSE
