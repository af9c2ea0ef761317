SPECIFICATION FairSpec

CONSTANTS
    Absent = Absent
    Link = Link
    Own = Own
    Garbage = Garbage
    Unknown = Unknown
    NoJob = NoJob
    Procs = {p1, p2}
    Default <- DefaultConfig
    CommandLines <- Session
    Vocabulary <- Words
    MaxWords = 5
    Features = {"f", "g"}
    Supported <- TwoVersions
    Initial <- Configuration
    BadRequirements = {"broken"}
    MaxBeside = 2
    MaxCommands = 3
    MaxFaults = 1

INVARIANTS
    TypeOK
    ReadingsAgree
    ForcedIsSaved
    FeaturesAsAsked
    DanglingNeedsOverlap
PROPERTIES
    CommandsEnd
