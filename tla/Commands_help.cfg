SPECIFICATION Spec

CONSTANTS
    Absent = Absent
    Link = Link
    Own = Own
    Garbage = Garbage
    Unknown = Unknown
    NoJob = NoJob
    Procs = {p1}
    Default <- DefaultConfig
    CommandLines <- HelpLines
    Vocabulary <- Words
    MaxWords = 1
    Features = {"f", "g"}
    Supported <- TwoVersions
    Initial <- Configuration
    BadRequirements = {"broken"}
    MaxBeside = 1
    MaxCommands = 1
    MaxFaults = 0

INVARIANT HelpChangesNothing
