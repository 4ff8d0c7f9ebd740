SPECIFICATION Spec
CONSTANTS
    Scripts = {"one", "other", "bad"}
    Imports <- NoImportsDef
    Mains = {"one", "other", "bad"}
    Bad = {"bad"}
    Missing = {}
    Jobs = {"j1", "j2"}
    PoolSize = 2
    MaxCommands = 3
    Patient = FALSE
INVARIANT RunsItsScript
CHECK_DEADLOCK FALSE
