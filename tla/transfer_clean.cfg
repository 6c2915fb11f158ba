\* Four chunks, three runs over disjoint ranges; frames reordered and lost.
CONSTANTS
    FileLen = 7
    MaxInput = 3
    Bytes <- MCBytes
    send_file <- MCFile
    CHUNK_SIZE = 6
    MAX_SIZE = 24
    IndexInputs <- MCInputs
    MaxRuns = 3
    Own = own
    Broadcast = broadcast
    MaxHeld = 3
    MaxOpenFailures = 0
    MaxLostWrites = 0
    MaxRestarts = 0
    Duplicates = FALSE
    Damages = FALSE
    Reruns = FALSE
SPECIFICATION Spec
CHECK_DEADLOCK FALSE
INVARIANT
    NothingLeftBehind
PROPERTY
    IsIdealBuffer
