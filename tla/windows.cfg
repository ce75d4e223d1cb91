SPECIFICATION Spec
CONSTANTS
    Process = {p1, p2}
    Valid = {j1, j2}
    Broken = {b1}
    Inode = {f1, f2, f3}
    Stamp = {t1, t2}
    Unflushed = 2
    NoFile = NoFile
    NoJourney = NoJourney
SYMMETRY Interchangeable
INVARIANTS
    HeldIsCurrent
    AnswerIsTrue
PROPERTIES
    NothingAtRisk
CHECK_DEADLOCK FALSE
