CONSTANTS
    IntMod = 64
    StackSize = 64
    CallsSize = 32
    JitThreshold = 3
    Mode = "file"
    Files = 1
    Preamble <- MisusePreamble
    Exprs <- MisuseExprs
    MaxEvals = 3
    Compile <- MCCompile
    Expand <- MCExpand
SPECIFICATION Spec
PROPERTIES SessionSpec
