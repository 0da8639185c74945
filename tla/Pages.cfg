SPECIFICATION FairSpec
CONSTANTS
    Tasks <- SomeTasks
    Input <- SomeInput
    Finished = {"SUCCEEDED"}
    MaxTime = 3
    Micro = 2
    PageSizes <- SomePageSizes
    DefaultPageSize = 1
    MaxPageSize = 2
    Filters <- SomeFilters
    None = None
INVARIANTS StoresAgree MissedOnlyForDepartures RepeatedOnlyForArrivals
PROPERTY WalkEnds
CHECK_DEADLOCK FALSE
