SPECIFICATION Spec
CONSTANTS
    Stores = {1, 2}
    Names = {1, 2}
    MaxDepth = 2
    ReadOnly = {}
    Trees <- OneStart
    AppFiles <- OneFile
    MaxOps = 3
PROPERTY MoveLosesNothing
CHECK_DEADLOCK FALSE
