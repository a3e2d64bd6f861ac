SPECIFICATION Spec
CONSTANTS
    N = 4
    BufferSize = 3
    Bytes = {a, b}
    Flood = FALSE
INVARIANT RingsSound
PROPERTIES PhoneIsDropOldest ReaderIsDropOldest
