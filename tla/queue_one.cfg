\* Three threads; every recv brings one line, or none.
CONSTANTS
    Consumers = {t1, t2, t3}
    Replies = {r1, r2}
    MaxBatch = 1
    Batches <- MCBatches
    MaxReplies = 3
SPECIFICATION LiveSpec
INVARIANTS
    NothingLost
    NoLostWakeup
PROPERTIES
    SleeperServed
