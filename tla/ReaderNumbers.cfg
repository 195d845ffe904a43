CONSTANTS
    IntMod = 64
    BufSize = 6
    MaxDepth = 8
    MaxReads = 2
    Inputs <- AddTest
SPECIFICATION Spec
INVARIANT MinusFiveIsANumber
