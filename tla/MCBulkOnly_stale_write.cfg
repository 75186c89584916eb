SPECIFICATION FairSpec
CONSTANTS
    v1 = v1
    v2 = v2
    Luns = {0, 1}
    ReadOnly = {1}
    NumBlocks = 2
    Values = {v1, v2}
    Blank = Blank
    MaxCmds = 2
INVARIANT CleanForTheNextHost
CHECK_DEADLOCK FALSE
