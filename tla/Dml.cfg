CONSTANTS
    Colls = {c1, c2}
    Docs = {a, b}
    NoDoc = NoDoc
    Absent = Absent
    Nil = Nil
    Given <- GivenStatements
    Clients <- AllClients
    MaxRow = 2
    MaxCursors = 1
SYMMETRY Symmetry
SPECIFICATION Spec
INVARIANTS
    TypeOK
    EndsClean
PROPERTIES
    ImplementsStore
    DeleteRecovers
