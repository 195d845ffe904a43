CONSTANTS
    IntMod = 64
    StackSize = 64
    CallsSize = 32
    JitThreshold = 3
    Mode = "file"
    Files = 1
    Preamble <- EmptyPreamble
    Exprs <- EmptyExprs
    MaxEvals = 2
    Compile <- MCCompile
    Expand <- MCExpand
SPECIFICATION Spec
PROPERTIES SessionSpec
