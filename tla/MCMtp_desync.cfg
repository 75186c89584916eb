SPECIFICATION Spec
CONSTANTS
    Stores = {1, 2}
    Names = {1, 2}
    MaxDepth = 2
    ReadOnly = {}
    Trees <- OneStart
    AppFiles <- NoFile
    MaxOps = 3
INVARIANT InStep
CHECK_DEADLOCK FALSE
