SPECIFICATION Spec
CONSTANTS
    MaxPID = 4
    Names = {"king"}
    Roles = {"daemon", "worker"}
    Tiers = {0, 1}
    Users = {"root", "ann"}
    KernelMaxChildren = 1
    ChildMaxChildren = 1
    Spawners = {s1}
    Killers = {}
    CronTargets = {3}
    LaunchMayFail = TRUE
INVARIANTS ParentRules NameIndexSound
