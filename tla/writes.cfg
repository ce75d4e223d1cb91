SPECIFICATION Spec
CONSTANTS
    Caller = {c1, c2}
    Content = {a, b}
    MaxVersion = 2
INVARIANTS
    AnswerWasTrue
PROPERTIES
    ImplementsWrite
    NoLostUpdate
CHECK_DEADLOCK FALSE
