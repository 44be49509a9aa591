SPECIFICATION MaidSpec
CONSTANTS
    MaxPID = 3
    Names = {"king"}
    Roles = {"worker"}
    Tiers = {0}
    Users = {"root"}
    KernelMaxChildren = 2
    ChildMaxChildren = 0
    Spawners = {s1, s2}
    Killers = {k1}
    CronTargets = {}
    LaunchMayFail = FALSE
    MaxPidScan = 3
SYMMETRY SpawnerSymmetry
INVARIANTS NoOrphan MissingParentIsNew
