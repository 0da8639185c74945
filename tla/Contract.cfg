SPECIFICATION Spec
CONSTANT MaxFields = 4
CONSTANTS
    DurationBits = 6
    ConnsBits = 3
    Second = 8
    DefaultConns = 3
    DefaultTimeout = 16
    Numbers <- SomeNumbers
INVARIANTS AcceptedIsAttempted ReadAsSent LimitsHold ProxyOrNothing
CHECK_DEADLOCK FALSE
