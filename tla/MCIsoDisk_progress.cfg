SPECIFICATION IsoDiskSpec
CONSTANTS
    c1 = c1
    c2 = c2
    mic = mic
    spk = spk
    v1 = v1
    v2 = v2
    Conns = {c1, c2}
    Eps = {mic, spk}
    BInterval <- MCBInterval
    Speed = "high"
    PacketCounts = {1}
    MaxUrbs = 2
    MaxSubmit = 3
    Luns = {0, 1}
    ReadOnly = {1}
    NumBlocks = 2
    Values = {v1, v2}
    Blank = Blank
    MaxCmds = 3
INVARIANTS
    NeverOversleeps
    NeverFasterThanRealTime
    IsoInOrder
    InStep
    ToldTheTruth
PROPERTIES
    IsoLifeSpec
    ScheduledIsDelivered
    WritesLandWhereMeant
    CommandFinishes
CHECK_DEADLOCK FALSE
