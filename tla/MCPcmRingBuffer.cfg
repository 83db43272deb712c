SPECIFICATION Spec
CONSTANTS
    Capacity = 3
    Sample = {0, 1}
    Silence = 0
    MaxSource = 4
INVARIANT WindowIsOldest
PROPERTY ImplementsFifo
