SPECIFICATION Spec
CONSTANTS
    Runs = {a, b}
    Earlier = {0, 2}
    MaxIter = 2
    MaxTools = 1
    Threshold = 4
    Retries = 2
SYMMETRY Symmetry
INVARIANTS TypeOK  UsageCovers SessionBounded FailedRunForgotten
CHECK_DEADLOCK FALSE
