SPECIFICATION FairSpec
CONSTANTS
    Tasks = {t1, t2}
    Texts = {"vague", "empty"}
    MaxPid = 4
    IdleLeads = 2
    MaxHistory = 1
INVARIANTS LeadExclusive 
PROPERTIES ShutdownKillsIdle EveryTaskAnswered
CHECK_DEADLOCK FALSE
