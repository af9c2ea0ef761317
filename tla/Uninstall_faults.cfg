SPECIFICATION Spec

CONSTANTS
    N = 3
    Texts = {a, b}
    Link = Link
    Missing = Missing
    Faults = {"stat", "conf", "unlink", "write", "rename", "crash"}

INVARIANTS
    TypeOK
    NothingChangesForReaders
    SuccessMeansOut
    CanBeRepeated

PROPERTY
    ConfLeavesAfterLinks
