SPECIFICATION FairSpec
CONSTANTS
    Waiting = {r1}
    Posted = {p1}
    MaxCopies = 2
INVARIANTS ResultIsLast SyscallInFlight
PROPERTIES  RequestEnds ResultArrives
CHECK_DEADLOCK FALSE
