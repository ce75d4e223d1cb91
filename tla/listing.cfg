SPECIFICATION SessionSpec
CONSTANTS
    Sources = 2
    PerPage = 2
    MaxPages = 2
    MaxTotal = 6
    Limits <- MCLimits
    MaxFailures = 2
INVARIANTS
    CompleteMeansAll
PROPERTIES
    EventuallyComplete
CHECK_DEADLOCK FALSE
