CONSTANTS
    Numbers <- MCNumbers
    Collating <- MCCollating
    MaxNumber = 9
    Cases <- MCCases
SPECIFICATION Spec
INVARIANTS
    TypeOK
    CountsAgree
    ReadsStayAsTheyWere
    MakesWhatItMeans
    TextReadsBack
    ComparesInOrder
CHECK_DEADLOCK FALSE
