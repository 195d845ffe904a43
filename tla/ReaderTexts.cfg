CONSTANTS
    IntMod = 64
    BufSize = 6
    MaxDepth = 8
    MaxReads = 2
    Inputs <- AllInputs
SPECIFICATION Spec
INVARIANTS TypeOK NothingHeldBack ReadsWhatWasWritten StaleError
PROPERTIES Forward StuckForGood SessionEnds UnclosedOverflows
