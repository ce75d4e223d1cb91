SPECIFICATION FairSpec
CONSTANTS
    Node <- MCNode
    Input <- MCInput
    Value <- OneValue
    None = None
    Doc = {"backwards"}
    DocDef <- MCDocDef
    Agent = {s1, s2}
    NoFile = NoFile
    Idle = Idle
    Asking = Asking
    MaxAttempts = 2
PROPERTIES
    RunSettles
