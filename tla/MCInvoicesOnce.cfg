SPECIFICATION Spec
CONSTANTS
    i1 = i1
    i2 = i2
    t1 = t1
    t2 = t2
    t3 = t3
    Ids = {i1}
    Txns = {t1, t2}
    MaxOpen = 2
    Calls <- Payers
    Opening = 2
    Faulty = FALSE
    None = None
SYMMETRY Symmetry
CHECK_DEADLOCK FALSE
INVARIANT
    ClosedOnce
