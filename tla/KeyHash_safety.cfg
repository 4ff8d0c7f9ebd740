SPECIFICATION Spec
CONSTANTS
    Threads = {t1, t2}
    Keys <- ThreeKeys
    Values = {v1, v2}
    Nodes = {n1, n2}
    Null = Null
    Buckets = {"b", "c"}
    BucketOf <- TwoTogether
    OneWriter = TRUE
INVARIANTS NoFreedAccess NoNodeLost CountFits
PROPERTY ImplementsKeyMap
SYMMETRY Symmetry
CHECK_DEADLOCK FALSE
