SPECIFICATION Spec
CONSTANTS
    Node <- MCNode
    Input <- MCInput
    Value <- OneValue
    None = None
    Doc = {"base", "reworked", "cyclic"}
    DocDef <- MCDocDef
    Agent = {s1, s2}
    NoFile = NoFile
    Idle = Idle
    Asking = Asking
    MaxAttempts = 2
SYMMETRY Sessions
INVARIANTS
    AtMostOneEngaged
    StatusAgrees
    EngagedDepsOk
    NeverStalled
    Attended
    SideEffectsNeedForce
PROPERTIES
    ClosedStaysClosed
