SPECIFICATION AssistantSpec
CONSTANTS
    Waiting = {}
    Posted = {d1, d2}
    MaxCopies = 1
    Turns = {u1, u2, u3}
    Inbox = {m1}
    Keys = {k1}
SYMMETRY Symmetry
 
PROPERTIES HonestTimeout
CHECK_DEADLOCK FALSE
