SPECIFICATION TeamFairSpec
CONSTANTS
    MaxParts = 3
    MaxItems = 2
    MaxWorkers = 2
    NUM_WORKERS = 2
INVARIANTS
    EverySubtaskOnce
    
    
    NoWorkerLeft
PROPERTIES
    TaskEnds
CHECK_DEADLOCK FALSE
