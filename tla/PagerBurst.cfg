CONSTANTS
    a = a
    b = b
    c = c
    m = m
    n = n
    Content = {a, b, c}
    Meta = {m, n}
    Entry <- MixedEntries
    Garbled <- GarbledEntries
    StartNs = 1
    EndNs = 4
    Direction = "backward"
    UserLimit = 5
    Cap = 3
SPECIFICATION FairSpec
CHECK_DEADLOCK FALSE
INVARIANTS TypeOK NoDuplicates RequestsAreUseful NoGap CompleteOtherwise
PROPERTIES OrderedDelivery Termination
