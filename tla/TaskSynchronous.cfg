SPECIFICATION Spec
CONSTANTS
    Calls = {c1, c2}
    Tasks = {t1}
    RequestIds = {r1}
    None = None
    MaxFaults = 0
    MaxCrashes = 0
INVARIANT SynchronousExecution
