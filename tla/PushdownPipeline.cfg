CONSTANTS
    Missing = Missing
    Char <- MCChar
    Number <- MCNumber
    Token <- MCToken
    Spelling <- MCSpelling
    Entry <- MCEntry
    Predicate <- SafePredicates
    MaxPredicates = 1
    MinNs = 0
    MaxNs = 5
    DefaultStart = 2
    DefaultEnd = 4
    Call <- PipelineCalls
SPECIFICATION Spec
CHECK_DEADLOCK FALSE
INVARIANTS KeepsSelector
