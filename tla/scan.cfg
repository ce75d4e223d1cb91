SPECIFICATION LoopSpec
CONSTANTS
    Node <- MCNode
    Input <- MCInput
    Value <- MCValue
    None = None
    Doc <- MCDoc
    DocDef <- MCDocDef
    Repeats <- MCRepeats
INVARIANTS
    KahnFindsCycles
    LoopComputesScan
CHECK_DEADLOCK FALSE
