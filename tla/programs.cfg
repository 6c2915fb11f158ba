\* Every program that needs no other model, one at a time.
CONSTANTS
    ps_Bytes = {1, 2, 3, 4, 5, 6, 7}
    send_file <- FileToSend
    CHUNK_SIZE = 6
    MAX_SIZE = 24
    Own = own
    IndexInputs <- Indices
    MaxRuns = 2
    Bytes = {0, 1, 2, 3, 4, 5}
    test_avi <- TestAvi
    BUF_SIZE = 2
    PIECE = 2
    size_bytes <- SizeBytes
    Misreadings <- SizeMisread
    Strays <- StrayDatagrams
    Messages <- ShortMessages
    te_BUF_SIZE = 3
    MaxMessages = 3
    Clients = {c1, c2}
    ue_None = none
    NUM_PROCESSES = 3
    EACH_SCAN_NUM = 3
    START_PORT = 1
    END_PORT = 9
    sc_Garbage = {1, 2}
    BYTE = 16
    Ids <- IcmpIds
    Texts <- IcmpTexts
    ub_None = 2
    cs_MaxPackets = 2
    Lengths = {1, 3}
    RECORD = 2
    cp_MaxPackets = 3
    NameLists <- AdapterNames
    Max_Num_Adapter = 2
    ROW = 3
    Inputs = {0, 1, 2, 3}
    Blocks <- DriverBlocks
    ALIGNMENT = 4
    pd_Garbage = garbage
    MaxBlocks = 2
SPECIFICATION Spec
INVARIANTS
    FramesSound
    RunSendsRange
    ShortOnlyWhenBroken
    LossOnlyStalls
    EchoInOrder
    ClientsApart
    ScanComplete
    NothingOutlivesTheCall
    ReceiverVerifies
    CleanWithThreads
    OneMoreAtMost
    TidyCapture
    WholeOrTold
    MemoryReadAsWritten
PROPERTIES
    IsFileCopy
    ScanEnds
    OrderObeyed
CHECK_DEADLOCK FALSE
