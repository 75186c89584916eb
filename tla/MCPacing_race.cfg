\* Two hosts that import the device at the same time.
SPECIFICATION PacingSpec
CONSTANTS
    c1 = c1
    c2 = c2
    mic = mic
    spk = spk
    Conns = {c1, c2}
    Eps = {mic, spk}
    BInterval <- MCBInterval
    Speed = "high"
    PacketCounts = {1}
    MaxUrbs = 2
    MaxSubmit = 1
INVARIANT StaysRealTime
CHECK_DEADLOCK FALSE
