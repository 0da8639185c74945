\* No symmetry: liveness.
SPECIFICATION ProcessSpec
CONSTANTS
    Calls = {c1, c2}
    Tasks = {t1, t2}
    RequestIds = {r1}
    None = None
    MaxFaults = 1
    MaxCrashes = 1
    MaxStarts = 3
INVARIANT DrainedIsComplete
PROPERTIES PoolOutlivesCalls ShutdownEnds
CHECK_DEADLOCK FALSE
