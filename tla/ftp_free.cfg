\* A user who types at any time, and a server that may break off.
CONSTANTS
    MaxCommands = 2
    MaxTransfers = 2
    MaxBatch = 2
    MaxPieces = 1
    MaxSplits = 1
    Leftovers = {150}
    Patient = FALSE
    ServerFails = TRUE
    Verbs <- Everything
SPECIFICATION Spec
INVARIANTS
    TypeOK
    LockDiscipline
    FewSleepers
    CrossedOnlyBeside
    SessionKept
CHECK_DEADLOCK FALSE
