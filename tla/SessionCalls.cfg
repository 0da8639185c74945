\* No symmetry: liveness.  As many sessions as request ids, so that a fresh
\* id is always left for an insert, and one more to race for the insert.
SPECIFICATION FairSpec
CONSTANTS
    Calls = {c1, c2, c3}
    Sessions = {s1, s2}
    RequestIds = {r1}
    None = None
    MaxFaults = 1
    MaxCrashes = 1
INVARIANTS BrowserOwned FinalSessionReleased RunningHasBrowser
PROPERTIES QuietFinalIsForever RowsSettle ImplementsLedger ImplementsLifecycle
