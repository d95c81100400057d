CONSTANTS
    a = a
    b = b
    c = c
    m = m
    n = n
    Content = {a, b, c}
    Meta = {m}
    Entry <- BurstEntries
    Garbled = {}
    StartNs = 1
    EndNs = 4
    Direction = "backward"
    UserLimit = 9
    Cap = 3
SPECIFICATION FairSpec
CHECK_DEADLOCK FALSE
INVARIANTS Complete
