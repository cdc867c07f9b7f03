SPECIFICATION Spec
CONSTANTS
    t1 = t1
    t2 = t2
    Threads = {t1}
    UseShm = {TRUE}
    Sizes = {1, 2}
    Slots = 2
    QueueLimit = 2
    Listeners <- LocalOrRemote
    MaxMessages = 2
    MaxRemoved = 1
    MaxLost = 0
INVARIANTS Genuine
CHECK_DEADLOCK FALSE
