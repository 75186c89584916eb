\* A serial port that is not the first function.
SPECIFICATION CompositionSpec
CONSTANTS
    Kinds = {"cdc", "msc"}
    MaxFunctions = 2
    MaxAdverts = 0
    LastNumber = 4
INVARIANT UnionsNameOwn
CHECK_DEADLOCK FALSE
