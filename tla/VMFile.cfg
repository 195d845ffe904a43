CONSTANTS
    IntMod = 64
    StackSize = 64
    CallsSize = 32
    JitThreshold = 3
    Mode = "file"
    Files = 1
    Preamble <- FilePreamble
    Exprs <- FileExprs
    MaxEvals = 5
    Compile <- MCCompile
    Expand <- MCExpand
SPECIFICATION Spec
INVARIANTS TypeOK FrameDiscipline CleanPrompt
PROPERTIES SessionSpec Answered
