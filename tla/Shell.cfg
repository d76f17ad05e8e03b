CONSTANT Sessions <- MCSessions
SPECIFICATION Spec
INVARIANTS
    TypeOK
    
 
CHECK_DEADLOCK FALSE
