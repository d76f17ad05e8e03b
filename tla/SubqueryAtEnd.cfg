CONSTANTS
    Cases <- MCCases
    Outers <- MCOuters
    Depth = 4
SPECIFICATION Spec
INVARIANT
    ListHasItem
CHECK_DEADLOCK FALSE
