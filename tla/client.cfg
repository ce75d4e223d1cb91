SPECIFICATION FairSpec
CONSTANTS
    Request <- MCRequest
    Path <- MCPath
    MaxRetries = 2
    Threshold = 1
    Budget = 3
    RetryAfter = {0, 1, 20}
    Nobody = Nobody
PROPERTIES
    ImplementsWrite
    OpenIsSilent
    RequestReturns
CHECK_DEADLOCK FALSE
