CONSTANTS
    Conn = {c1, c2}
    NTenants = 2
    LabelSet = {l1, l2}
    LabelsPinned = FALSE
    Ttl = 1
    Backoff = 2
    MaxTime = 3
    MaxChanges = 1
    NoGen = NoGen
SPECIFICATION Spec
SYMMETRY Interchangeable
INVARIANTS TypeOK Accurate PragmaTakesEffect
    OneGenerationPerTransaction Throttled OutageBackoff
PROPERTIES NeverStaler ImplementsLabelStore
