SPECIFICATION FairSpec
CONSTANTS
    Tasks = {t1, t2, t3}
    None = None
    PipeSize = 2
    Long = {t3}
INVARIANTS ForeignAnswersAreStale NoAnswerTwice StopReaps
PROPERTY ExchangesReturn
CHECK_DEADLOCK FALSE
