SPECIFICATION FairSpec
CONSTANTS
    Pids = {p1}
    Daemons = {p1}
    Instances = {i1, i2}
    Killers = {k1}
    Main = main
    NoInst = none
    MaxRestartAttempts = 1
    LaunchMayFail = FALSE
    MayReset = FALSE
PROPERTIES DaemonComesBack KillReturns ShutdownEnds
