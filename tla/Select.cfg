CONSTANTS
    Null = Null
    Cases <- SelectCases
    StepAfterEnd = FALSE
SPECIFICATION Spec
INVARIANTS
    TypeOK
    NeverFaults
    LimitRespected
    LayersAgree
PROPERTIES
    ImplementsCursor
    CallsReturn
