SPECIFICATION Spec
CONSTANTS
    Runs = {a}
    Earlier = {0, 8}
    MaxIter = 2
    MaxTools = 2
    Threshold = 10
    Retries = 3
PROPERTY MemoryStoreLasts
CHECK_DEADLOCK FALSE
