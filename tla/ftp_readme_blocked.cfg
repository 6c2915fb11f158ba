\* A second retr typed while the first file is on its way.
CONSTANTS
    MaxCommands = 2
    MaxTransfers = 2
    MaxBatch = 1
    MaxPieces = 1
    MaxSplits = 0
    Leftovers = {0}
    Patient = FALSE
    ServerFails = FALSE
    Verbs = {"retr", "help"}
SPECIFICATION LiveSpec
PROPERTIES
    PromptReturns
CHECK_DEADLOCK FALSE
