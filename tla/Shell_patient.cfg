SPECIFICATION Spec
CONSTANTS
    Scripts = {"nested", "all", "test", "bad", "lost"}
    Imports <- ImportsDef
    Mains = {"all", "test", "bad"}
    Bad = {"bad"}
    Missing = {"lost"}
    Jobs = {"j1", "j2"}
    PoolSize = 2
    MaxCommands = 5
    Patient = TRUE
INVARIANTS TypeOK RunsFirstMain NoFault LeavesNoJobBehind
PROPERTIES CommandReturns JobsFinish
CHECK_DEADLOCK FALSE
