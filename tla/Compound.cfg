CONSTANTS
    NoDoc = NoDoc
    Cases <- CompoundCases
SPECIFICATION Spec
INVARIANTS
    TypeOK
    MergeLosesNothing
PROPERTIES
    ImplementsCursor
    NoCallAfterEnd
    CallsReturn
