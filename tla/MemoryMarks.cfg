\* Three pairs fit the heap, or more arrays of no closed variables.
CONSTANTS
    Base = 16
    HeapSize = 145
    MaxStack = 2
    MaxCalls = 2
    MaxAvail = 2
    Value = {}
    Null = 0
SPECIFICATION Spec
INVARIANTS HeapTypeOK BlocksApart NoneForgotten MachineMarked MarksComplete HandlesTypeOK
PROPERTIES CollectorSpec FullForGood MarkedOnce LiveStays AllocationEnds NoDoubleGrant
