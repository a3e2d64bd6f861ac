SPECIFICATION FairSpec
CONSTANTS
    N = 4
    Bytes = {a, b}
    SharedIrq = TRUE
INVARIANT IndicesSafe
PROPERTIES FifoUnlessCaught PickedUpUnlessCaught
