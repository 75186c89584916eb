SPECIFICATION Spec
CONSTANTS
    Stores = {1, 2}
    Names = {1, 2}
    MaxDepth = 2
    ReadOnly = {}
    Trees <- OneStart
    AppFiles <- OneFile
    MaxOps = 4
INVARIANTS
    HandlesMatchObjects
PROPERTIES
    HandlesStable
    MoveKeepsListed
CHECK_DEADLOCK FALSE
