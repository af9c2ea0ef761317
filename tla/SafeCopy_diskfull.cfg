SPECIFICATION Spec

CONSTANTS
    N = 3
    Empty = empty
    Short = short
    Missing = Missing
    Contents = {a, empty, short}
    CanUnlink = {2}
    EmptyIfMissing = {3}
    Faults = {"shortwrite"}

CHECK_DEADLOCK FALSE

INVARIANT SuccessIsComplete
