SPECIFICATION Spec
CONSTANTS
    NumThreads = 2
    Adders <- Writer
    Deleters <- BothThreads
    Keys <- TwoKeys
    Nodes = {n1, n2}
    head = head
    Null = Null
    Kept <- LoadsWait
PROPERTY LockFree
