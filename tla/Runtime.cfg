SPECIFICATION FairSpec
CONSTANTS
    Starts = {s1, s2}
    Stops = {d1, d2}
    None = None
INVARIANTS NoStrayProcess StartedIsMapped
PROPERTIES CallsGetThrough ImplementsLifecycle
CHECK_DEADLOCK FALSE
