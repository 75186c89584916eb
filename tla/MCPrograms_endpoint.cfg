\* One host; the device writes from two threads of its own, or from handlers.
SPECIFICATION ProgramsSpec
CONSTANTS
    c1 = c1
    w1 = w1
    w2 = w2
    NoThread = NoThread
    Conns = {c1}
    Writers = {w1, w2}
    Lens = {1, 2}
    Sizes = {0, 2, 3}
    MaxSeq = 3
    MaxWrites = 2
    OneHost = TRUE
SYMMETRY WriterSymmetry
INVARIANTS
    NoLostWakeup
    DataInUrbOrder
    BytesConserved
    OneLateUrbPerHalt
    SerialIsQuietAfterUnlink
    SerialAnswersInOrder
CHECK_DEADLOCK FALSE
