SPECIFICATION Spec

CONSTANTS
    Procs = {p1}
    N = 2
    Nsswitch = 1
    Dconf = {2}
    local = local
    sssd = sssd
    custom = custom
    f = f
    Profiles <- TwoProfiles
    Features = {f}
    Supported <- OneFeature
    Malformed <- AllParse
    Commands <- Racing
    MaxVersion = 0
    MaxCommands = 1
    MaxFaults = 1
    Faults = {"crash"}
    UpdateAnytime = FALSE
    MaxEdits = 0
    Absent = Absent
    Blank = Blank

INVARIANTS
    ValidMeansRendered
