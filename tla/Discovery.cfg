CONSTANTS
    MaxNs = 31
    NanosPerDay = 7
    NanosPerMicro = 2
    Radix = 3
    Bound <- MCBound
    Now <- MCNow
    Duration <- MCDuration
    UnitMap <- MCUnits
    Pending = Pending
    Rejected = Rejected
    Lookup <- MCLookup
    Omitted = Omitted
    Hour = 5
    Item = {i1, i2, u}
    Unreadable = {u}
    MaxAnswer = 3
    VectorSize = 2
    SeriesMaxRows = 2
SPECIFICATION DiscoverySpec
CHECK_DEADLOCK FALSE
INVARIANTS TypeOK Exact RejectedForCause OneWholeAnswer AskedWindow
