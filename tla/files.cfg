SPECIFICATION Spec
CONSTANTS
    n1 = n1
    n2 = n2
    n3 = n3
    n4 = n4
    f1 = f1
    f2 = f2
    new = new
    Node = {n1, n2, n3, n4}
    Root = n1
    MaxDepth = 2
    MaxEntries = 5
    MaxAliases = 2
    MaxContainer = 1
    File = {f1, f2, new}
    New = new
    MaxBytes = 2
    MaxChanges = 2
    Cases <- MCCases
INVARIANTS
    HandlesAreBalanced
    FirstFailureIsTold
    GivenIsRight
    DocumentsAreJudged
    PublishedIsWhole
CHECK_DEADLOCK FALSE
