CONSTANTS
    Null = Null
    Nan = Nan
    Keys <- TwoKeys
    MaxKeys = 8
    NSlots = 3
    Directions <- OneOrTwoTerms
SPECIFICATION Spec
CHECK_DEADLOCK FALSE
INVARIANTS
    SlotsAreSortedRuns
    KeepsPromise
    SortedAssertHolds
    SlotsSuffice
PROPERTIES
    Terminates
