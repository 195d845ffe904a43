CONSTANTS
    IntMod = 64
    StackSize = 64
    CallsSize = 32
    JitThreshold = 3
    Mode = "repl"
    Files = 1
    Preamble <- LoopPreamble
    Exprs <- LoopExprs
    MaxEvals = 8
    Compile <- MCCompile
    Expand <- MCExpand
SPECIFICATION Spec
INVARIANTS ConstantSpace
PROPERTIES Answered
