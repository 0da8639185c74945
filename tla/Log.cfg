SPECIFICATION WaitsSpec
CONSTANTS
    Requests = {r1, r2, r3}
    Ids = {i1, i2}
    Matching = {r2, r3}
    Capacity = 2
    None = None
    Selectors = 2
    Frames = 1
    MaxChanges = 3
INVARIANTS EntriesAreOwn FinishedHasStatus TimeoutMissesNone FirstVisibleWins
PROPERTIES WaitsEnd
CHECK_DEADLOCK FALSE
