\* A builtin name and two that are read, two environments.
CONSTANTS
    Text = {1, 2, 3}
    Word = {1, 2, 3}
    Builtins <- MCBuiltins
    Value = {v, w}
    MaxEnvs = 2
    MaxNodes = 4
    MaxParams = 2
    MaxRefs = 1
SYMMETRY Symmetry
SPECIFICATION Spec
INVARIANTS TypeOK OneWord NamesMean
PROPERTIES DictionarySpec
