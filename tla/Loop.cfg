SPECIFICATION Spec
CONSTANTS
    MaxCommands = 2
    None = None
INVARIANTS StopsAtFirstFatal SuccessIsComplete RetriesBounded ReleasedUnlessCut
CHECK_DEADLOCK FALSE
