CONSTANTS
    Missing = Missing
    Char <- MCChar
    Number <- MCNumber
    Token <- MCToken
    Spelling <- MCSpelling
    Entry <- MCEntry
    Predicate <- TimePredicates
    MaxPredicates = 1
    MinNs = 0
    MaxNs = 5
    DefaultStart = 2
    DefaultEnd = 4
    Call <- PlainCalls
SPECIFICATION Spec
CHECK_DEADLOCK FALSE
INVARIANTS NoLostRows
