\* A user who waits for each transfer, and a server that may break off.
CONSTANTS
    MaxCommands = 4
    MaxTransfers = 2
    MaxBatch = 2
    MaxPieces = 1
    MaxSplits = 0
    Leftovers = {0}
    Patient = TRUE
    ServerFails = TRUE
    Verbs <- FewVerbs
SPECIFICATION LiveSpec
INVARIANTS
    PromptIsClean
PROPERTIES
    PromptReturns
    TransfersEnd
CHECK_DEADLOCK FALSE
