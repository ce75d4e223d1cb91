SPECIFICATION Spec
CONSTANTS
    Process = {p1, p2}
    Valid = {j1, j2}
    Broken = {b1}
    Inode = {f1, f2, f3}
    Recovery = {r1}
    Stamp = {t1}
    Unsynced = 3
    NoFile = NoFile
    NoJourney = NoJourney
SYMMETRY Interchangeable
INVARIANTS
    ReadIsStillCurrent
    ReportedIsArchived
PROPERTIES
    NothingForgotten
    NothingAtRisk
CHECK_DEADLOCK FALSE
