SPECIFICATION Spec
CONSTANTS
    MaxCalls = 2
    MaxRetries = 1
    MaxParts = 2
    Probe = 1
    Body <- MCBody
    Settings <- MCSettings
    Reasons = {"cancelled"}
INVARIANTS
    VersionHolds
    BodyIsRight
PROPERTIES
    ImplementsWrite
    NotFoundIsTrue
CHECK_DEADLOCK FALSE
