CONSTANTS
    Cases <- MCCases
    Outers <- MCOuters
    Depth = 4
SPECIFICATION Spec
INVARIANTS
    TypeOK
    Enumerates
    NamesAgree
    ClosesLoneCollections
PROPERTIES
    NoCallAfterEnd
    CallsReturn
CHECK_DEADLOCK FALSE
