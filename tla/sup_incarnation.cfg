SPECIFICATION Spec
CONSTANTS
    Pids = {p1}
    Daemons = {p1}
    Instances = {i1, i2, i3}
    Killers = {k1, k2}
    Main = main
    NoInst = none
    MaxRestartAttempts = 2
    LaunchMayFail = TRUE
    MayReset = TRUE
SYMMETRY InstanceSymmetry
INVARIANTS TypeOK OneOSProcess WatcherFindsItself StoppedStaysStopped StopAllStopsWhatItFound NothingStray
