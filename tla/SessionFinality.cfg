SPECIFICATION Spec
CONSTANTS
    Calls = {c1, c2}
    Sessions = {s1}
    RequestIds = {r1}
    None = None
    MaxFaults = 0
    MaxCrashes = 0
PROPERTY FinalStatusStays
