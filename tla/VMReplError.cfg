CONSTANTS
    IntMod = 64
    StackSize = 64
    CallsSize = 32
    JitThreshold = 3
    Mode = "repl"
    Files = 1
    Preamble <- NoPreamble
    Exprs <- ErrorExprs
    MaxEvals = 2
    Compile <- MCCompile
    Expand <- MCExpand
SPECIFICATION Spec
INVARIANTS StackPointersZero
