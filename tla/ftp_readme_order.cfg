\* A pwd typed while a file is on its way.
CONSTANTS
    MaxCommands = 2
    MaxTransfers = 2
    MaxBatch = 1
    MaxPieces = 1
    MaxSplits = 0
    Leftovers = {0}
    Patient = FALSE
    ServerFails = FALSE
    Verbs = {"retr", "pwd"}
SPECIFICATION Spec
INVARIANTS
    RightReply
CHECK_DEADLOCK FALSE
