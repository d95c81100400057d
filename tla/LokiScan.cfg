CONSTANTS
    a = a
    b = b
    m = m
    Content = {a, b}
    Meta = {m}
    Entry <- SparseEntries
    Garbled = {}
    StartNs = 1
    EndNs = 4
    Direction = "forward"
    UserLimit = 5
    Cap = 3
    ChunkSize = 2
SPECIFICATION FairScanSpec
CHECK_DEADLOCK FALSE
INVARIANTS ScanTypeOK RowsConserved NoSilentTruncation
PROPERTIES ScanEnds ImplementsPagedScan
