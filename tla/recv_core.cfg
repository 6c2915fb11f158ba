\* Reordering, duplicates, drops and a failed fopen within one or two
\* processes; every frame arrives again and again, also at a full list.
CONSTANTS
    N = 5
    Own = own
    Broadcast = broadcast
    Other = other
    Chunks <- MCChunks
    Content <- MCContent
    Frames <- MCFrames
    MaxHeld = 3
    MaxOpenFailures = 1
    MaxLostWrites = 0
    MaxRestarts = 1
SPECIFICATION LiveSpec
INVARIANTS
    TypeOK
    BufferBound
    FileIsPrefix
    AheadIsSorted
    StuckOnlyBehindStale
PROPERTIES
    IsReorderBuffer
    EventuallyWhole
