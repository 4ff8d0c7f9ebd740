CONSTANTS
    main = main  u1 = u1  u2 = u2  shell = shell  pool = pool  o1 = o1  o2 = o2
    h1 = h1  h2 = h2  n1 = n1  n2 = n2  n3 = n3
    Admins = {main}
    Users = {u1, u2}
    Owners = {o1, o2}
    Bundles = {shell, pool}
    Handles = {h1, h2}
    Nodes = {n1, n2, n3}
    Null = Null
    Deps <- ShellAndPoolDeps
    NeedsArg = {pool}
    Lenient = {shell}
    MaxId = 3
    Kept = {"oneAdmin", "installOnce", "calmStops", "freshAddresses", "oneDeletion"}
SPECIFICATION Spec
SYMMETRY Symmetry
INVARIANTS StopFindsNoInstance NoDanglingHead RegistryMatchesState
    IIDRegisterFindsService EveryHandleHasItsNode OwnerFreesLiveHandle
PROPERTY ImplementsServiceRegistry
CHECK_DEADLOCK FALSE
