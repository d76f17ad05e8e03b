CONSTANTS
    Conns = {c1, c2}
    Stmts = {s1, s2, s3, s4}
    Nil = Nil
    DeletesNewestFirst = TRUE
    DeletesBeforeClose = TRUE
SYMMETRY Symmetry
SPECIFICATION Spec
CHECK_DEADLOCK FALSE
INVARIANTS
    NoFault
    ListIsHeld
    NothingLeaks
