SPECIFICATION Spec

CONSTANTS
    Names = {b}
    N = 3
    Protected = {1}
    Switchable = 2
    Configs = {c1, c2}
    Own = Own
    Torn = Torn
    Empty = Empty
    Link = Link
    Missing = Missing
    MaxOps = 6
    MaxFaults = 2

\* The number of commands is bounded.
CHECK_DEADLOCK FALSE

INVARIANTS
    TypeOK
    NoDangling
    RestoreGivesBack
    CompleteIsRestorable

PROPERTY
    ProtectedStay
