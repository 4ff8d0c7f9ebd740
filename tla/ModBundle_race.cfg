CONSTANTS
    main = main  u1 = u1  u2 = u2  shell = shell  pool = pool  o1 = o1  o2 = o2
    h1 = h1  h2 = h2  n1 = n1  n2 = n2  n3 = n3
    Admins = {main}
    Users = {u1, u2}
    Owners = {o1}
    Bundles = {shell}
    Handles = {h1, h2}
    Nodes = {n1, n2}
    Null = Null
    Deps <- ShellAndPoolDeps
    NeedsArg = {}
    Lenient = {shell}
    MaxId = 1
    Kept = {"oneAdmin", "installOnce", "freshAddresses", "oneDeletion"}
SPECIFICATION Spec
SYMMETRY Symmetry
INVARIANT StopFindsNoInstance
CHECK_DEADLOCK FALSE
