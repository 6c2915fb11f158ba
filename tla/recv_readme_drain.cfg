\* A held chunk behind one that arrived twice.
CONSTANTS
    N = 4
    Own = own
    Broadcast = broadcast
    Other = other
    Chunks <- MCChunks
    Content <- MCContent
    Frames <- MCFrames
    MaxHeld = 3
    MaxOpenFailures = 0
    MaxLostWrites = 0
    MaxRestarts = 0
SPECIFICATION Spec
PROPERTY IsIdealBuffer
