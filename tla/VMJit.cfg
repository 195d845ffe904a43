CONSTANTS
    IntMod = 64
    StackSize = 64
    CallsSize = 32
    JitThreshold = 3
    Mode = "file"
    Files = 1
    Preamble <- JitPreamble
    Exprs <- JitExprs
    MaxEvals = 3
    Compile <- MCCompile
    Expand <- MCExpand
SPECIFICATION Spec
INVARIANTS Supplied InCode CodeFits Entered
PROPERTIES SessionSpec
