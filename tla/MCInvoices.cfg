SPECIFICATION Spec
CONSTANTS
    i1 = i1
    i2 = i2
    t1 = t1
    t2 = t2
    t3 = t3
    Ids = {i1, i2}
    Txns = {t1, t2, t3}
    MaxOpen = 2
    Calls <- AllCalls
    Opening = 2
    Faulty = TRUE
    None = None
SYMMETRY Symmetry
CHECK_DEADLOCK FALSE
INVARIANTS
    TypeOK
    WholeOrNothing
    QuietInvoicesAddUp
PROPERTIES
    StatusFollowsPayments
