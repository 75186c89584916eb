SPECIFICATION Spec
CONSTANTS
    c1 = c1
    c2 = c2
    w1 = w1
    w2 = w2
    NoThread = NoThread
    Conns = {c1}
    Writers = {w1}
    Lens = {1}
    Sizes = {2}
    MaxSeq = 2
    MaxWrites = 1
    OneHost = TRUE
CHECK_DEADLOCK FALSE
INVARIANT NoAnswerAfterUnlink
