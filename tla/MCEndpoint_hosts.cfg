SPECIFICATION FairSpec
CONSTANTS
    c1 = c1
    c2 = c2
    w1 = w1
    w2 = w2
    NoThread = NoThread
    Conns = {c1, c2}
    Writers = {w1}
    Lens = {1}
    Sizes = {2}
    MaxSeq = 1
    MaxWrites = 2
    OneHost = FALSE
INVARIANTS
    NoDataOfEarlierSession
PROPERTIES
    LifeSpec
    TakenIsCompleted
CHECK_DEADLOCK FALSE
