\* Three chunks, two runs; frames reordered, lost, doubled and damaged; a full disk.
CONSTANTS
    FileLen = 5
    MaxInput = 2
    Bytes <- MCBytes
    send_file <- MCFile
    CHUNK_SIZE = 6
    MAX_SIZE = 24
    IndexInputs <- MCInputs
    MaxRuns = 2
    Own = own
    Broadcast = broadcast
    MaxHeld = 2
    MaxOpenFailures = 0
    MaxLostWrites = 1
    MaxRestarts = 1
    Duplicates = TRUE
    Damages = TRUE
    Reruns = TRUE
SPECIFICATION Spec
CHECK_DEADLOCK FALSE
INVARIANT
    BytesArePrefix
PROPERTY
    ReceiverSpec
