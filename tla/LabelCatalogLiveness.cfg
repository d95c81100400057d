CONSTANTS
    Conn = {c1, c2}
    NTenants = 1
    LabelSet = {l1, l2}
    LabelsPinned = FALSE
    Ttl = 1
    Backoff = 2
    MaxTime = 1
    MaxChanges = 3
    NoGen = NoGen
SPECIFICATION FairSpec
INVARIANTS RetiredBounded VersionsNameGenerations
PROPERTIES StartNeverBlocks
