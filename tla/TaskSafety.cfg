SPECIFICATION Spec
CONSTANTS
    Calls = {c1, c2, c3}
    Tasks = {t1, t2}
    RequestIds = {r1, r2}
    None = None
    MaxFaults = 1
    MaxCrashes = 1
SYMMETRY Symmetry
INVARIANTS ToldSuccessIsStored RunningIsExecuting
PROPERTIES ImplementsLedger FinishedStays
