SPECIFICATION SafeSpec
CONSTANTS
    NumThreads = 2
    Adders <- BothThreads
    Deleters <- BothThreads
    Keys <- TwoKeys
    Nodes = {n1, n2}
    head = head
    Null = Null
    Kept <- AllRules
INVARIANTS NoFreedAccess WellFormed RetiredOnce
PROPERTY ImplementsKeySet
SYMMETRY Symmetry
