SPECIFICATION Spec
CONSTANTS
    t1 = t1
    t2 = t2
    Threads = {t1, t2}
    UseShm = {TRUE, FALSE}
    Sizes = {0, 1}
    Slots = 2
    QueueLimit = 2
    Listeners <- LocalOrRemote
    MaxMessages = 3
    MaxRemoved = 1
    MaxLost = 1
SYMMETRY Symmetry
INVARIANTS TypeOK GenuineUnlessStale  WriterRingNamed NothingSwallowed
PROPERTIES RemoteInOrder LocalInOrder
CHECK_DEADLOCK FALSE
