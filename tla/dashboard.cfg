SPECIFICATION FairSpec
CONSTANTS
    MaxPid = 2
    Clients = {c1}
    MaxEvents = 3
    MaxFaults = 1
    MESSAGE_LOG_MAX = 2

    
    
PROPERTIES
    CacheConverges
CHECK_DEADLOCK FALSE
