\* One recv may bring two lines and notifies once.
CONSTANTS
    Consumers = {t1, t2}
    Replies = {r1, r2}
    MaxBatch = 2
    Batches <- MCBatches
    MaxReplies = 3
SPECIFICATION Spec
INVARIANTS
    NoLostWakeup
