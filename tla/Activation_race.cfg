SPECIFICATION FairSpec

CONSTANTS
    Procs = {p1, p2}
    N = 2
    Nsswitch = 1
    Dconf = {2}
    local = local
    sssd = sssd
    custom = custom
    f = f
    Profiles <- TwoProfiles
    Features = {f}
    Supported <- OneFeature
    Malformed <- AllParse
    Commands <- Racing
    MaxVersion = 1
    MaxCommands = 2
    MaxFaults = 1
    Faults = {"error", "crash"}
    UpdateAnytime = FALSE
    MaxEdits = 0
    Absent = Absent
    Blank = Blank

INVARIANTS
    NoDangling
    FewNamesMissing
    RaceLinksAll

PROPERTY
    EveryCommandEnds
