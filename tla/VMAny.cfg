CONSTANTS
    IntMod = 64
    StackSize = 64
    CallsSize = 32
    JitThreshold = 3
    Mode = "repl"
    Files = 1
    Preamble <- AnyPreamble
    Exprs <- AnyExprs
    MaxEvals = 4
    Compile <- MCCompile
    Expand <- MCExpand
SPECIFICATION Spec
INVARIANTS FrameDiscipline
PROPERTIES SuspendedUntouched
