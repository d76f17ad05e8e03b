CONSTANTS
    Numbers <- MCNumbers
    Collating <- MCCollating
    MaxNumber = 9
    Cases <- EmptyCases
SPECIFICATION Spec
INVARIANT ExitsPastTheValue
CHECK_DEADLOCK FALSE
