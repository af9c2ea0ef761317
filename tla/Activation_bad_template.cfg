SPECIFICATION Spec

CONSTANTS
    Procs = {p1}
    N = 2
    Nsswitch = 1
    Dconf = {2}
    local = local
    sssd = sssd
    custom = custom
    f = f
    Profiles <- ThreeProfiles
    Features = {f}
    Supported <- OneFeature
    Malformed <- BadPam
    Commands <- SelectCustom
    MaxVersion = 0
    MaxCommands = 1
    MaxFaults = 0
    Faults = {}
    UpdateAnytime = FALSE
    MaxEdits = 0
    Absent = Absent
    Blank = Blank

INVARIANTS
    SuccessMeansRendered
