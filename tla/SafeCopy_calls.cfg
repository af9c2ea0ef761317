SPECIFICATION Spec

CONSTANTS
    N = 3
    Contents = {a, empty, short}
    Empty = empty
    Short = short
    Missing = Missing
    CanUnlink = {2}
    EmptyIfMissing = {3}
    Faults = {"write", "rename", "unlink", "crash"}

\* The call returns once.
CHECK_DEADLOCK FALSE

INVARIANTS
    TypeOK
    SafeFailure
    ProtectedStay
    NoLitter
    SkippedUntouched

PROPERTY
    Refinement
