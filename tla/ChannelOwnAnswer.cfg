SPECIFICATION Spec
CONSTANTS
    Tasks = {t1, t2}
    None = None
    PipeSize = 2
    Long = {}
INVARIANTS OwnAnswer
CHECK_DEADLOCK FALSE
