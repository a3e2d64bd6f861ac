SPECIFICATION Spec
CONSTANTS
    N = 3
    Bytes = {a, b}
    SharedIrq = FALSE

PROPERTY IsFifo
