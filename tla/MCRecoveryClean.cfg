SPECIFICATION Spec
CONSTANTS
    Jobs = {a, b}
    Resumable = {a, b}
    MaxAttempts = 1
    MaxStops = 3
    Windows = {}
PROPERTY CleanDrainFree
CHECK_DEADLOCK FALSE
