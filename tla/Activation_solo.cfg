SPECIFICATION Spec

CONSTANTS
    Procs = {p1}
    N = 3
    Nsswitch = 1
    Dconf = {2, 3}
    local = local
    sssd = sssd
    custom = custom
    f = f
    Profiles <- ThreeProfiles
    Features = {f}
    Supported <- OneFeature
    Malformed <- BadNsswitch
    Commands <- EveryCommand
    MaxVersion = 1
    MaxCommands = 3
    MaxFaults = 2
    Faults = {"error", "crash"}
    UpdateAnytime = FALSE
    MaxEdits = 1
    Absent = Absent
    Blank = Blank

INVARIANTS
    TypeOK
    SoloActivates
    RefusalLeavesFiles
    FreshWhenUpToDate
