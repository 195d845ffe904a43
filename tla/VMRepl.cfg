CONSTANTS
    IntMod = 64
    StackSize = 64
    CallsSize = 32
    JitThreshold = 3
    Mode = "repl"
    Files = 1
    Preamble <- ReplPreamble
    Exprs <- ReplExprs
    MaxEvals = 9
    Compile <- MCCompile
    Expand <- MCExpand
SPECIFICATION Spec
PROPERTIES SessionSpec
