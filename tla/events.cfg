SPECIFICATION Spec
CONSTANTS
    Emitters = {m1, m2}
    Clients = {s1, s2}
    Chans = {c1, c2}
    NoChan = none
    MaxEvents = 4
    MaxSize = 3
    BufSize = 3
SYMMETRY Symmetry
CHECK_DEADLOCK FALSE
INVARIANTS NoDuplicate NothingMissed RingIsRecent
