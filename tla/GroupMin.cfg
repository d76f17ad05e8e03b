CONSTANTS
    Null = Null
    Cases <- GroupMinCases
    StepAfterEnd = FALSE
SPECIFICATION Spec
INVARIANT
    RowWhileRowsRemain
